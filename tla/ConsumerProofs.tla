--------------------------- MODULE ConsumerProofs --------------------------
(***************************************************************************)
(* Proofs about go-consumer: for any number of reports, countries, workers *)
(* and adverse events, any prefetch and any figures, no report is mislaid, *)
(* the consumer implements the ledger of Entrega, and the aggregates it    *)
(* keeps in Valkey are complete, exact while nothing fails, repeated a     *)
(* bounded number of times when something does, and right at the extremes. *)
(***************************************************************************)
EXTENDS Consumer, FiniteSetTheorems, SequenceTheorems, WellFoundedInduction, TLAPS

(* The parts of the inductive invariant.  The shape of a worker.           *)
Partes == {"rep", "fase", "resto", "malo", "mejor"}
Bien(h) == /\ DOMAIN h = Partes
           /\ h.fase \in {"ocioso", "exec", "moda", "ack"}
           /\ h.fase = "ocioso" <=> h.rep = Nulo
           /\ h.fase # "ocioso" => h.rep \in Reporte
           /\ h.malo => h.fase = "exec"
           /\ h.fase = "moda" => h.resto \in {<<"planes", "ships">>, <<"ships">>}
Forma == DOMAIN hilo = Worker /\ \A w \in Worker : Bien(hilo[w])

(* Every report is in one place.                                           *)
Reparto == /\ Reporte = UNION {nuevos, listos, sinAck, asentados, descartados, perdidos}
           /\ listos \cap nuevos = {}
           /\ sinAck \cap (nuevos \cup listos) = {}
           /\ asentados \cap (nuevos \cup listos \cup sinAck) = {}
           /\ descartados \cap (nuevos \cup listos \cup sinAck \cup asentados) = {}
           /\ perdidos \cap (nuevos \cup listos \cup sinAck \cup asentados \cup descartados) = {}

(* What the process holds, against what the broker has given out: also     *)
(* after the connection is lost and the broker has taken it all back.      *)
Tenencia == /\ bandeja \cap EnMano = {}
            /\ bandeja \cup EnMano \subseteq listos \cup sinAck \cup perdidos
            /\ IF conectado THEN sinAck = bandeja \cup EnMano ELSE sinAck = {}
            /\ ~corre => ~conectado /\ bandeja = {} /\ EnMano = {}
            /\ \A w, x \in Worker : hilo[w].rep = hilo[x].rep => w = x \/ hilo[w].rep = Nulo

(* A worker past process has counted its report, which decodes.            *)
Contado == /\ hechas \in [Reporte -> Nat]
           /\ descartados \subseteq Malformado /\ EnMano \cap Malformado = {}
           /\ \A w \in Worker : hilo[w].fase \in {"moda", "ack"} => hechas[hilo[w].rep] > 0
           /\ \A r \in asentados : hechas[r] > 0

Banderas == conectado \in BOOLEAN /\ corre \in BOOLEAN
Tope == fallos \in 0..MaxFallos /\ Cardinality(sinAck) <= Prefetch

IInv == Forma /\ Reparto /\ Tenencia /\ Contado /\ Banderas /\ Tope

----------------------------------------------------------------------------
(* The next magnitude of the mode, or the end of the loop.                 *)
LEMMA SiguienteFacts ==
  ASSUME NEW h, DOMAIN h = Partes, h.resto \in {<<"planes", "ships">>, <<"ships">>}
  PROVE  LET g == Siguiente(h)
         IN /\ DOMAIN g = Partes /\ g.rep = h.rep /\ g.malo = h.malo
            /\ \/ g.fase = "ack"
               \/ g.fase = "moda" /\ g.resto = <<"ships">>
<1>1. CASE h.resto = <<"planes", "ships">>
  <2>1. Tail(h.resto) = <<"ships">> /\ Len(h.resto) = 2
    BY <1>1
  <2> QED
    BY <2>1 DEF Siguiente, Partes
<1>2. CASE h.resto = <<"ships">>
  BY <1>2 DEF Siguiente, Partes
<1> QED
  BY <1>1, <1>2

(* A worker without a report, and one that has just taken it.              *)
LEMMA BienFacts == Bien(Ocioso) /\ \A r \in Reporte : Bien(Empieza(r))
BY ConsumerAssumption DEF Bien, Ocioso, Empieza, Partes

(* One worker changes to a state of the right shape.                       *)
LEMMA PasaForma ==
  ASSUME Forma, NEW w \in Worker, NEW h, Bien(h), Pasa(w, h)
  PROVE  Forma'
BY DEF Forma, Pasa

(* Every step keeps the shape of the workers.                              *)
LEMMA FormaStep == Forma /\ bandeja \subseteq Reporte /\ [Next]_vars => Forma'
<1> SUFFICES ASSUME Forma, bandeja \subseteq Reporte, [Next]_vars PROVE Forma'
  OBVIOUS
<1> USE DEF Forma
<1>1. ASSUME NEW w \in Worker, Toma(w) PROVE Forma'
  <2>1. PICK r \in bandeja : (Descarta(r) /\ UNCHANGED hilo) \/ Pasa(w, Empieza(r))
    BY <1>1 DEF Toma
  <2>2. CASE UNCHANGED hilo
    BY <2>2 DEF Forma
  <2>3. CASE Pasa(w, Empieza(r))
    BY <2>3, BienFacts, PasaForma
  <2> QED
    BY <2>1, <2>2, <2>3
<1>2. ASSUME NEW w \in Worker, Comando(w) PROVE Forma'
  <2>1. Bien([hilo[w] EXCEPT !.resto = Tail(@)])
    BY <1>2 DEF Comando, Forma, Bien, Partes
  <2> QED
    BY <1>2, <2>1, PasaForma DEF Comando
<1>3. ASSUME NEW w \in Worker, ComandoRechazado(w) PROVE Forma'
  <2>1. Bien([hilo[w] EXCEPT !.resto = Tail(@), !.malo = TRUE])
    BY <1>3 DEF ComandoRechazado, Forma, Bien, Partes
  <2> QED
    BY <1>3, <2>1, PasaForma DEF ComandoRechazado
<1>4. ASSUME NEW w \in Worker, ExecFalla(w) PROVE Forma'
  <2>1. hilo[w].rep \in Reporte
    BY <1>4 DEF ExecFalla, Forma, Bien
  <2>2. Pasa(w, Ocioso) \/ Pasa(w, Empieza(hilo[w].rep))
    BY <1>4 DEF ExecFalla
  <2> QED
    BY <2>1, <2>2, BienFacts, PasaForma
<1>5. ASSUME NEW w \in Worker, ExecVuelve(w) PROVE Forma'
  <2>1. CASE hilo[w].malo
    BY <1>5, <2>1, BienFacts, PasaForma DEF ExecVuelve, Fallo
  <2>2. CASE ~hilo[w].malo
    <3>1. Bien([hilo[w] EXCEPT !.fase = "ack"])
      BY <1>5, <2>2, ConsumerAssumption DEF ExecVuelve, Forma, Bien, Partes
    <3>2. Bien([hilo[w] EXCEPT !.fase = "moda", !.resto = <<"planes", "ships">>])
      BY <1>5, <2>2, ConsumerAssumption DEF ExecVuelve, Forma, Bien, Partes
    <3> QED
      BY <1>5, <2>2, <3>1, <3>2, PasaForma DEF ExecVuelve, Exito, Sigue
  <2> QED
    BY <2>1, <2>2
<1>6. ASSUME NEW w \in Worker, LeeModa(w) PROVE Forma'
  <2>1. Bien(Siguiente(hilo[w]))
    BY <1>6, SiguienteFacts, ConsumerAssumption DEF LeeModa, Forma, Bien
  <2>2. \A v : Bien([hilo[w] EXCEPT !.mejor = v])
    BY <1>6 DEF LeeModa, Forma, Bien, Partes
  <2> QED
    BY <1>6, <2>1, <2>2, PasaForma DEF LeeModa
<1>7. ASSUME NEW w \in Worker, PoneModa(w) PROVE Forma'
  <2>1. Bien(Siguiente(hilo[w]))
    BY <1>7, SiguienteFacts, ConsumerAssumption DEF PoneModa, Forma, Bien
  <2> QED
    BY <1>7, <2>1, PasaForma DEF PoneModa
<1>8. ASSUME NEW w \in Worker, Ack(w) PROVE Forma'
  BY <1>8, BienFacts, PasaForma DEF Ack
<1>9. ASSUME NEW w \in Worker, Termina(w) PROVE Forma'
  BY <1>9, BienFacts DEF Termina, Apaga, Forma
<1>10. CASE Publica
  BY <1>10 DEF Publica
<1>11. CASE Entrega
  BY <1>11 DEF Entrega
<1>12. CASE CaeConexion
  BY <1>12 DEF CaeConexion, Adverso, Reencola
<1>13. CASE CierraCanal
  BY <1>13 DEF CierraCanal
<1>14. CASE Muere
  BY <1>14, BienFacts DEF Muere, Apaga, Forma
<1>15. CASE Arranca
  BY <1>15 DEF Arranca
<1>16. CASE ReiniciaBroker
  BY <1>16 DEF ReiniciaBroker, Adverso
<1>17. CASE UNCHANGED vars
  BY <1>17 DEF vars
<1> QED
  BY <1>1, <1>2, <1>3, <1>4, <1>5, <1>6, <1>7, <1>8,
     <1>9, <1>10, <1>11, <1>12, <1>13, <1>14, <1>15, <1>16, <1>17
     DEF Next, worker

(* Every step keeps each report in one place.                              *)
LEMMA RepartoStep == Reparto /\ [Next]_vars => Reparto'
<1> SUFFICES ASSUME Reparto, [Next]_vars PROVE Reparto'
  OBVIOUS
<1> USE DEF Reparto, broker
<1>1. ASSUME NEW w \in Worker, Toma(w) PROVE Reparto'
  BY <1>1 DEF Toma, Descarta, Responde
<1>2. ASSUME NEW w \in Worker, Comando(w) PROVE Reparto'
  BY <1>2 DEF Comando
<1>3. ASSUME NEW w \in Worker, ComandoRechazado(w) PROVE Reparto'
  BY <1>3 DEF ComandoRechazado, Adverso
<1>4. ASSUME NEW w \in Worker, ExecFalla(w) PROVE Reparto'
  BY <1>4 DEF ExecFalla, Adverso, Devuelve, Responde
<1>5. ASSUME NEW w \in Worker, ExecVuelve(w) PROVE Reparto'
  BY <1>5 DEF ExecVuelve, Exito, Fallo, Sigue, Devuelve, Responde
<1>6. ASSUME NEW w \in Worker, LeeModa(w) PROVE Reparto'
  BY <1>6 DEF LeeModa, Adverso
<1>7. ASSUME NEW w \in Worker, PoneModa(w) PROVE Reparto'
  BY <1>7 DEF PoneModa, Adverso
<1>8. ASSUME NEW w \in Worker, Ack(w) PROVE Reparto'
  BY <1>8 DEF Ack, Asienta, Responde
<1>9. ASSUME NEW w \in Worker, Termina(w) PROVE Reparto'
  BY <1>9 DEF Termina, Apaga
<1>10. CASE Publica
  BY <1>10 DEF Publica
<1>11. CASE Entrega
  BY <1>11 DEF Entrega
<1>12. CASE CaeConexion
  BY <1>12 DEF CaeConexion, Adverso, Reencola
<1>13. CASE CierraCanal
  BY <1>13 DEF CierraCanal
<1>14. CASE Muere
  BY <1>14 DEF Muere, Adverso, Apaga, Reencola
<1>15. CASE Arranca
  BY <1>15 DEF Arranca
<1>16. CASE ReiniciaBroker
  BY <1>16 DEF ReiniciaBroker, Adverso
<1>17. CASE UNCHANGED vars
  BY <1>17 DEF vars
<1> QED
  BY <1>1, <1>2, <1>3, <1>4, <1>5, <1>6, <1>7, <1>8,
     <1>9, <1>10, <1>11, <1>12, <1>13, <1>14, <1>15, <1>16, <1>17
     DEF Next, worker

----------------------------------------------------------------------------
(* How a step of one worker changes what the workers hold.                 *)
LEMMA ManoIgual ==
  ASSUME Forma, NEW w \in Worker, NEW h, h.rep = hilo[w].rep, Pasa(w, h)
  PROVE  EnMano' = EnMano /\ \A x \in Worker : hilo'[x].rep = hilo[x].rep
<1>1. \A x \in Worker : hilo'[x].rep = hilo[x].rep
  BY DEF Forma, Pasa
<1> QED
  BY <1>1 DEF EnMano

(* A worker lets go of its report.                                         *)
LEMMA ManoSuelta ==
  ASSUME Forma, Tenencia, NEW w \in Worker, Pasa(w, Ocioso)
  PROVE  /\ EnMano' = EnMano \ {hilo[w].rep}
         /\ \A x \in Worker : hilo'[x].rep = IF x = w THEN Nulo ELSE hilo[x].rep
<1>1. \A x \in Worker : hilo'[x].rep = IF x = w THEN Nulo ELSE hilo[x].rep
  BY DEF Forma, Pasa, Ocioso
<1>2. \A x \in Worker : hilo[x].rep = hilo[w].rep => x = w \/ hilo[x].rep = Nulo
  BY DEF Tenencia
<1>3. ASSUME NEW r PROVE r \in EnMano' <=> r \in EnMano \ {hilo[w].rep}
  BY <1>1, <1>2 DEF EnMano
<1> QED
  BY <1>1, <1>3

(* A worker without a report takes one.                                    *)
LEMMA ManoToma ==
  ASSUME Forma, NEW w \in Worker, NEW r \in Reporte, hilo[w].rep = Nulo, Pasa(w, Empieza(r))
  PROVE  /\ EnMano' = EnMano \cup {r}
         /\ \A x \in Worker : hilo'[x].rep = IF x = w THEN r ELSE hilo[x].rep
<1>1. \A x \in Worker : hilo'[x].rep = IF x = w THEN r ELSE hilo[x].rep
  BY DEF Forma, Pasa, Ocioso, Empieza
<1>2. ASSUME NEW q PROVE q \in EnMano' <=> q \in EnMano \cup {r}
  BY <1>1, ConsumerAssumption DEF EnMano
<1> QED
  BY <1>1, <1>2

(* Nobody holds anything when the process ends.                            *)
LEMMA ManoApaga ==
  ASSUME hilo' = [x \in Worker |-> Ocioso]
  PROVE  EnMano' = {} /\ \A x \in Worker : hilo'[x].rep = Nulo
BY DEF EnMano, Ocioso

(* Letting go of a report and answering for it.                            *)
LEMMA SueltaTenencia ==
  ASSUME Forma, Tenencia, NEW w \in Worker, hilo[w].fase # "ocioso", Pasa(w, Ocioso),
         sinAck' = sinAck \ {hilo[w].rep}, listos \subseteq listos', perdidos' = perdidos,
         UNCHANGED <<conectado, corre, bandeja>>
  PROVE  Tenencia'
<1>1. hilo[w].rep \in EnMano
  BY DEF EnMano, Forma, Bien
<1>2. /\ EnMano' = EnMano \ {hilo[w].rep}
      /\ \A x \in Worker : hilo'[x].rep = IF x = w THEN Nulo ELSE hilo[x].rep
  BY ManoSuelta
<1> QED
  BY <1>1, <1>2 DEF Tenencia

(* Every step keeps what the process holds within what the broker gave.    *)
LEMMA TenenciaStep == Forma /\ Reparto /\ Tenencia /\ [Next]_vars => Tenencia'
<1> SUFFICES ASSUME Forma, Reparto, Tenencia, [Next]_vars PROVE Tenencia'
  OBVIOUS
<1>1. ASSUME NEW w \in Worker, Toma(w) PROVE Tenencia'
  <2>1. PICK r \in bandeja : /\ bandeja' = bandeja \ {r}
                            /\ IF r \in Malformado THEN Descarta(r) /\ UNCHANGED hilo
                               ELSE Pasa(w, Empieza(r)) /\ UNCHANGED broker
    BY <1>1 DEF Toma
  <2>2. /\ hilo[w].rep = Nulo /\ r \in Reporte /\ r \notin EnMano
        /\ corre /\ UNCHANGED <<conectado, corre>>
    BY <1>1, <2>1 DEF Toma, Forma, Bien, Tenencia, Reparto
  <2>3. CASE r \in Malformado
    <3>1. EnMano' = EnMano /\ hilo' = hilo
      BY <2>1, <2>3 DEF EnMano
    <3> QED
      BY <2>1, <2>2, <2>3, <3>1 DEF Tenencia, Descarta
  <2>4. CASE r \notin Malformado
    <3>1. /\ EnMano' = EnMano \cup {r}
          /\ \A x \in Worker : hilo'[x].rep = IF x = w THEN r ELSE hilo[x].rep
      BY <2>1, <2>2, <2>4, ManoToma
    <3>2. \A x \in Worker : hilo[x].rep # r
      BY <2>2, ConsumerAssumption DEF EnMano
    <3> QED
      BY <2>1, <2>2, <2>4, <3>1, <3>2 DEF Tenencia, broker
  <2> QED
    BY <2>3, <2>4
<1>2. ASSUME NEW w \in Worker, Comando(w) PROVE Tenencia'
  <2>1. EnMano' = EnMano /\ \A x \in Worker : hilo'[x].rep = hilo[x].rep
    BY <1>2, ManoIgual DEF Comando, Forma, Bien, Partes
  <2> QED
    BY <1>2, <2>1 DEF Comando, Tenencia, broker
<1>3. ASSUME NEW w \in Worker, ComandoRechazado(w) PROVE Tenencia'
  <2>1. EnMano' = EnMano /\ \A x \in Worker : hilo'[x].rep = hilo[x].rep
    BY <1>3, ManoIgual DEF ComandoRechazado, Forma, Bien, Partes
  <2> QED
    BY <1>3, <2>1 DEF ComandoRechazado, Tenencia, broker
<1>4. ASSUME NEW w \in Worker, ExecFalla(w) PROVE Tenencia'
  <2>1. CASE Pasa(w, Empieza(hilo[w].rep)) /\ UNCHANGED broker
    <3>1. Empieza(hilo[w].rep).rep = hilo[w].rep
      BY DEF Empieza, Ocioso
    <3>2. EnMano' = EnMano /\ \A x \in Worker : hilo'[x].rep = hilo[x].rep
      BY <2>1, <3>1, ManoIgual
    <3> QED
      BY <1>4, <2>1, <3>2 DEF ExecFalla, Tenencia, broker
  <2>2. CASE Pasa(w, Ocioso) /\ Devuelve(hilo[w].rep)
    BY <1>4, <2>2, SueltaTenencia DEF ExecFalla, Devuelve, Responde
  <2> QED
    BY <1>4, <2>1, <2>2 DEF ExecFalla
<1>5. ASSUME NEW w \in Worker, ExecVuelve(w) PROVE Tenencia'
  <2>1. CASE Fallo(w)
    BY <1>5, <2>1, SueltaTenencia DEF ExecVuelve, Fallo, Devuelve, Responde
  <2>2. CASE Exito(w)
    <3>1. EnMano' = EnMano /\ \A x \in Worker : hilo'[x].rep = hilo[x].rep
      <4>1. CASE Pasa(w, [hilo[w] EXCEPT !.fase = "ack"])
        BY <4>1, ManoIgual DEF Forma, Bien, Partes
      <4>2. CASE Pasa(w, [hilo[w] EXCEPT !.fase = "moda", !.resto = <<"planes", "ships">>])
        BY <4>2, ManoIgual DEF Forma, Bien, Partes
      <4> QED
        BY <2>2, <4>1, <4>2 DEF Exito, Sigue
    <3> QED
      BY <1>5, <2>2, <3>1 DEF ExecVuelve, Exito, Tenencia, broker
  <2> QED
    BY <1>5, <2>1, <2>2 DEF ExecVuelve
<1>6. ASSUME NEW w \in Worker, LeeModa(w) PROVE Tenencia'
  <2>1. Siguiente(hilo[w]).rep = hilo[w].rep
    BY DEF Siguiente, Forma, Bien, Partes
  <2>2. \A v : [hilo[w] EXCEPT !.mejor = v].rep = hilo[w].rep
    BY DEF Forma, Bien, Partes
  <2>3. EnMano' = EnMano /\ \A x \in Worker : hilo'[x].rep = hilo[x].rep
    BY <1>6, <2>1, <2>2, ManoIgual DEF LeeModa
  <2> QED
    BY <1>6, <2>3 DEF LeeModa, Tenencia, broker
<1>7. ASSUME NEW w \in Worker, PoneModa(w) PROVE Tenencia'
  <2>1. Siguiente(hilo[w]).rep = hilo[w].rep
    BY DEF Siguiente, Forma, Bien, Partes
  <2>2. EnMano' = EnMano /\ \A x \in Worker : hilo'[x].rep = hilo[x].rep
    BY <1>7, <2>1, ManoIgual DEF PoneModa
  <2> QED
    BY <1>7, <2>2 DEF PoneModa, Tenencia, broker
<1>8. ASSUME NEW w \in Worker, Ack(w) PROVE Tenencia'
  BY <1>8, SueltaTenencia DEF Ack, Asienta, Responde
<1>9. ASSUME NEW w \in Worker, Termina(w) PROVE Tenencia'
  BY <1>9, ManoApaga DEF Termina, Apaga, Tenencia, broker
<1>10. CASE Publica
  <2>1. EnMano' = EnMano /\ hilo' = hilo
    BY <1>10 DEF Publica, EnMano
  <2> QED
    BY <1>10, <2>1 DEF Publica, Tenencia, Reparto, broker
<1>11. CASE Entrega
  <2>1. EnMano' = EnMano /\ hilo' = hilo
    BY <1>11 DEF Entrega, EnMano
  <2> QED
    BY <1>11, <2>1 DEF Entrega, Tenencia, Reparto, broker
<1>12. CASE CaeConexion
  <2>1. EnMano' = EnMano /\ hilo' = hilo
    BY <1>12 DEF CaeConexion, EnMano
  <2> QED
    BY <1>12, <2>1 DEF CaeConexion, Adverso, Reencola, Tenencia, Reparto, broker
<1>13. CASE CierraCanal
  <2>1. EnMano' = EnMano /\ hilo' = hilo
    BY <1>13 DEF CierraCanal, EnMano
  <2> QED
    BY <1>13, <2>1 DEF CierraCanal, Tenencia, Reparto, broker
<1>14. CASE Muere
  BY <1>14, ManoApaga DEF Muere, Apaga, Tenencia, Reencola
<1>15. CASE Arranca
  <2>1. EnMano' = EnMano /\ hilo' = hilo
    BY <1>15 DEF Arranca, EnMano
  <2> QED
    BY <1>15, <2>1 DEF Arranca, Tenencia, Reparto, broker
<1>16. CASE ReiniciaBroker
  <2>1. EnMano' = EnMano /\ hilo' = hilo
    BY <1>16 DEF ReiniciaBroker, EnMano
  <2> QED
    BY <1>16, <2>1 DEF ReiniciaBroker, Adverso, Tenencia, Reparto, broker
<1>17. CASE UNCHANGED vars
  BY <1>17 DEF vars, Tenencia, EnMano, broker
<1> QED
  BY <1>1, <1>2, <1>3, <1>4, <1>5, <1>6, <1>7, <1>8,
     <1>9, <1>10, <1>11, <1>12, <1>13, <1>14, <1>15, <1>16, <1>17
     DEF Next, worker

----------------------------------------------------------------------------
(* A step that counts nothing, by a worker that was past process already   *)
(* or does not get there.                                                  *)
LEMMA PasaContado ==
  ASSUME Forma, Contado, NEW w \in Worker, NEW h, Pasa(w, h),
         h.fase \in {"moda", "ack"} => hilo[w].fase \in {"moda", "ack"} /\ h.rep = hilo[w].rep,
         EnMano' \cap Malformado = {}, descartados' \subseteq Malformado,
         asentados' \subseteq asentados \cup {r \in Reporte : hechas[r] > 0}, UNCHANGED hechas
  PROVE  Contado'
BY DEF Contado, Forma, Pasa

(* Letting go of a report: settling it is for a worker past process.       *)
LEMMA SueltaContado ==
  ASSUME Forma, Tenencia, Contado, NEW w \in Worker, Pasa(w, Ocioso),
         UNCHANGED <<hechas, descartados>>,
         \/ asentados' = asentados
         \/ hilo[w].fase = "ack" /\ asentados' \subseteq asentados \cup {hilo[w].rep}
  PROVE  Contado'
<1>1. EnMano' \subseteq EnMano
  BY ManoSuelta
<1>2. Ocioso.fase = "ocioso"
  BY DEF Ocioso
<1>3. hilo[w].fase = "ack" => hilo[w].rep \in Reporte /\ hechas[hilo[w].rep] > 0
  BY DEF Forma, Bien, Contado
<1>4. asentados' \subseteq asentados \cup {r \in Reporte : hechas[r] > 0}
  BY <1>3
<1> QED
  BY <1>1, <1>2, <1>4, PasaContado DEF Contado

(* Every step keeps the settled reports counted.                           *)
LEMMA ContadoStep == Forma /\ Reparto /\ Tenencia /\ Contado /\ [Next]_vars => Contado'
<1> SUFFICES ASSUME Forma, Reparto, Tenencia, Contado, [Next]_vars PROVE Contado'
  OBVIOUS
<1>1. ASSUME NEW w \in Worker, Toma(w) PROVE Contado'
  <2>1. PICK r \in bandeja : /\ bandeja' = bandeja \ {r}
                            /\ IF r \in Malformado THEN Descarta(r) /\ UNCHANGED hilo
                               ELSE Pasa(w, Empieza(r)) /\ UNCHANGED broker
    BY <1>1 DEF Toma
  <2>2. hilo[w].rep = Nulo /\ r \in Reporte /\ hechas' = hechas
    BY <1>1 DEF Toma, Forma, Bien, Tenencia, Reparto
  <2>3. CASE r \in Malformado
    BY <2>1, <2>2, <2>3 DEF Contado, EnMano, Descarta, Responde
  <2>4. CASE r \notin Malformado
    <3>1. EnMano' = EnMano \cup {r} /\ UNCHANGED broker
      BY <2>1, <2>2, <2>4, ManoToma
    <3>2. Empieza(r).fase = "exec"
      BY DEF Empieza, Ocioso
    <3>3. EnMano' \cap Malformado = {} /\ descartados' \subseteq Malformado /\ asentados' = asentados
      BY <2>4, <3>1 DEF Contado, broker
    <3> QED
      BY <2>1, <2>2, <2>4, <3>2, <3>3, PasaContado
  <2> QED
    BY <2>3, <2>4
<1>2. ASSUME NEW w \in Worker, Comando(w) PROVE Contado'
  <2>1. EnMano' = EnMano /\ UNCHANGED <<broker, hechas>>
    BY <1>2, ManoIgual DEF Comando, Forma, Bien, Partes
  <2>2. [hilo[w] EXCEPT !.resto = Tail(@)].fase = "exec"
    BY <1>2 DEF Comando, Forma, Bien, Partes
  <2> QED
    BY <1>2, <2>1, <2>2, PasaContado DEF Comando, Contado, broker
<1>3. ASSUME NEW w \in Worker, ComandoRechazado(w) PROVE Contado'
  <2>1. EnMano' = EnMano /\ UNCHANGED <<broker, hechas>>
    BY <1>3, ManoIgual DEF ComandoRechazado, Forma, Bien, Partes
  <2>2. [hilo[w] EXCEPT !.resto = Tail(@), !.malo = TRUE].fase = "exec"
    BY <1>3 DEF ComandoRechazado, Forma, Bien, Partes
  <2> QED
    BY <1>3, <2>1, <2>2, PasaContado DEF ComandoRechazado, Contado, broker
<1>4. ASSUME NEW w \in Worker, ExecFalla(w) PROVE Contado'
  <2>1. /\ hechas' = hechas
        /\ Empieza(hilo[w].rep).rep = hilo[w].rep /\ Empieza(hilo[w].rep).fase = "exec"
    BY <1>4 DEF ExecFalla, Empieza, Ocioso
  <2>2. CASE Pasa(w, Empieza(hilo[w].rep)) /\ UNCHANGED broker
    <3>1. EnMano' \cap Malformado = {} /\ descartados' \subseteq Malformado /\ asentados' = asentados
      BY <2>1, <2>2, ManoIgual DEF Contado, broker
    <3> QED
      BY <2>1, <2>2, <3>1, PasaContado
  <2>3. CASE Pasa(w, Ocioso) /\ Devuelve(hilo[w].rep)
    BY <2>1, <2>3, SueltaContado DEF Devuelve
  <2> QED
    BY <1>4, <2>2, <2>3 DEF ExecFalla
<1>5. ASSUME NEW w \in Worker, ExecVuelve(w) PROVE Contado'
  <2>1. CASE Fallo(w)
    BY <2>1, SueltaContado DEF Fallo, Devuelve
  <2>2. CASE Exito(w)
    <3>1. PICK h : /\ Pasa(w, h) /\ h.rep = hilo[w].rep
      <4>1. /\ [hilo[w] EXCEPT !.fase = "ack"].rep = hilo[w].rep
            /\ [hilo[w] EXCEPT !.fase = "moda", !.resto = <<"planes", "ships">>].rep = hilo[w].rep
        BY DEF Forma, Bien, Partes
      <4> QED
        BY <2>2, <4>1, Zenon DEF Exito, Sigue
    <3>2. EnMano' = EnMano /\ \A x \in Worker : hilo'[x].rep = hilo[x].rep
      BY <3>1, ManoIgual
    <3>3. hilo[w].rep \in Reporte /\ \A x \in Worker : x # w => hilo'[x] = hilo[x]
      BY <1>5, <3>1 DEF ExecVuelve, Forma, Bien, Pasa
    <3>4. /\ hechas' \in [Reporte -> Nat] /\ hechas'[hilo[w].rep] > 0
          /\ \A r \in Reporte : hechas[r] > 0 => hechas'[r] > 0
      BY <2>2, <3>3 DEF Exito, Contado
    <3>5. asentados' = asentados /\ descartados' = descartados /\ asentados \subseteq Reporte
      BY <2>2 DEF Exito, broker, Reparto
    <3>6. \A x \in Worker : hilo'[x].fase \in {"moda", "ack"} => hechas'[hilo'[x].rep] > 0
      BY <3>2, <3>3, <3>4 DEF Contado, Forma, Bien
    <3> QED
      BY <3>2, <3>4, <3>5, <3>6 DEF Contado
  <2> QED
    BY <1>5, <2>1, <2>2 DEF ExecVuelve
<1>6. ASSUME NEW w \in Worker, LeeModa(w) PROVE Contado'
  <2>1. Siguiente(hilo[w]).rep = hilo[w].rep
    BY DEF Siguiente, Forma, Bien, Partes
  <2>2. \A v : [hilo[w] EXCEPT !.mejor = v].rep = hilo[w].rep
    BY DEF Forma, Bien, Partes
  <2>3. EnMano' = EnMano /\ UNCHANGED <<broker, hechas>>
    BY <1>6, <2>1, <2>2, ManoIgual DEF LeeModa
  <2>4. PICK h : Pasa(w, h) /\ h.rep = hilo[w].rep
    BY <1>6, <2>1, <2>2 DEF LeeModa
  <2> QED
    BY <1>6, <2>3, <2>4, PasaContado DEF LeeModa, Contado, broker
<1>7. ASSUME NEW w \in Worker, PoneModa(w) PROVE Contado'
  <2>1. Siguiente(hilo[w]).rep = hilo[w].rep
    BY DEF Siguiente, Forma, Bien, Partes
  <2>2. EnMano' = EnMano /\ UNCHANGED <<broker, hechas>>
    BY <1>7, <2>1, ManoIgual DEF PoneModa
  <2> QED
    BY <1>7, <2>1, <2>2, PasaContado DEF PoneModa, Contado, broker
<1>8. ASSUME NEW w \in Worker, Ack(w) PROVE Contado'
  BY <1>8, SueltaContado DEF Ack, Asienta, Responde
<1>9. ASSUME NEW w \in Worker, Termina(w) PROVE Contado'
  <2>1. EnMano' = {} /\ \A x \in Worker : hilo'[x].fase = "ocioso"
    BY <1>9, ManoApaga DEF Termina, Apaga, Ocioso
  <2> QED
    BY <1>9, <2>1 DEF Termina, Contado, broker
<1>10. CASE Publica
  BY <1>10 DEF Publica, Contado, EnMano, broker
<1>11. CASE Entrega
  BY <1>11 DEF Entrega, Contado, EnMano, broker
<1>12. CASE CaeConexion
  BY <1>12 DEF CaeConexion, Adverso, Reencola, Contado, EnMano, broker
<1>13. CASE CierraCanal
  BY <1>13 DEF CierraCanal, Contado, EnMano, broker
<1>14. CASE Muere
  <2>1. EnMano' = {} /\ \A x \in Worker : hilo'[x].fase = "ocioso"
    BY <1>14, ManoApaga DEF Muere, Apaga, Ocioso
  <2> QED
    BY <1>14, <2>1 DEF Muere, Contado, Reencola
<1>15. CASE Arranca
  BY <1>15 DEF Arranca, Contado, EnMano, broker
<1>16. CASE ReiniciaBroker
  BY <1>16 DEF ReiniciaBroker, Adverso, Contado, EnMano, broker
<1>17. CASE UNCHANGED vars
  BY <1>17 DEF vars, Contado, EnMano, broker
<1> QED
  BY <1>1, <1>2, <1>3, <1>4, <1>5, <1>6, <1>7, <1>8,
     <1>9, <1>10, <1>11, <1>12, <1>13, <1>14, <1>15, <1>16, <1>17
     DEF Next, worker

(* The two flags are Booleans.                                             *)
LEMMA BanderasStep == Banderas /\ [Next]_vars => Banderas'
<1> SUFFICES ASSUME Banderas, [Next]_vars PROVE Banderas'
  OBVIOUS
<1> USE DEF Banderas
<1>1. ASSUME NEW w \in Worker, Toma(w) PROVE Banderas'
  BY <1>1 DEF Toma, Descarta, Responde
<1>2. ASSUME NEW w \in Worker, Comando(w) PROVE Banderas'
  BY <1>2 DEF Comando
<1>3. ASSUME NEW w \in Worker, ComandoRechazado(w) PROVE Banderas'
  BY <1>3 DEF ComandoRechazado, Adverso
<1>4. ASSUME NEW w \in Worker, ExecFalla(w) PROVE Banderas'
  BY <1>4 DEF ExecFalla, Adverso, Devuelve, Responde
<1>5. ASSUME NEW w \in Worker, ExecVuelve(w) PROVE Banderas'
  BY <1>5 DEF ExecVuelve, Exito, Fallo, Sigue, Devuelve, Responde
<1>6. ASSUME NEW w \in Worker, LeeModa(w) PROVE Banderas'
  BY <1>6 DEF LeeModa, Adverso
<1>7. ASSUME NEW w \in Worker, PoneModa(w) PROVE Banderas'
  BY <1>7 DEF PoneModa, Adverso
<1>8. ASSUME NEW w \in Worker, Ack(w) PROVE Banderas'
  BY <1>8 DEF Ack, Asienta, Responde
<1>9. ASSUME NEW w \in Worker, Termina(w) PROVE Banderas'
  BY <1>9 DEF Termina, Apaga
<1>10. CASE Publica
  BY <1>10 DEF Publica
<1>11. CASE Entrega
  BY <1>11 DEF Entrega
<1>12. CASE CaeConexion
  BY <1>12 DEF CaeConexion, Adverso, Reencola
<1>13. CASE CierraCanal
  BY <1>13 DEF CierraCanal
<1>14. CASE Muere
  BY <1>14 DEF Muere, Adverso, Apaga, Reencola
<1>15. CASE Arranca
  BY <1>15 DEF Arranca
<1>16. CASE ReiniciaBroker
  BY <1>16 DEF ReiniciaBroker, Adverso
<1>17. CASE UNCHANGED vars
  BY <1>17 DEF vars
<1> QED
  BY <1>1, <1>2, <1>3, <1>4, <1>5, <1>6, <1>7, <1>8,
     <1>9, <1>10, <1>11, <1>12, <1>13, <1>14, <1>15, <1>16, <1>17
     DEF Next, worker

(* Letting go of deliveries keeps the prefetch; the broker respects it.    *)
LEMMA MenosSinAck ==
  ASSUME Reparto, Tope, sinAck' \subseteq sinAck
  PROVE  Cardinality(sinAck') <= Prefetch
<1>1. IsFiniteSet(sinAck)
  BY FS_Subset, ConsumerAssumption DEF Reparto
<1>2. /\ Cardinality(sinAck') <= Cardinality(sinAck)
      /\ Cardinality(sinAck) \in Nat /\ Cardinality(sinAck') \in Nat
  BY <1>1, FS_Subset, FS_CardinalityType
<1> QED
  BY <1>2, ConsumerAssumption DEF Tope

(* Every step keeps to the prefetch and to the bound on failures.          *)
LEMMA TopeStep == Reparto /\ Tope /\ [Next]_vars => Tope'
<1> SUFFICES ASSUME Reparto, Tope, [Next]_vars PROVE Tope'
  OBVIOUS
<1>1. fallos' = fallos \/ (fallos < MaxFallos /\ fallos' = fallos + 1)
  BY DEF Next, vars, worker, Publica, Entrega, CaeConexion, CierraCanal, Muere, Arranca,
         ReiniciaBroker, Toma, Comando, ExecVuelve, LeeModa, PoneModa, Ack, Termina,
         ComandoRechazado, ExecFalla, Adverso
<1>2. fallos' \in 0..MaxFallos
  BY <1>1, ConsumerAssumption DEF Tope
<1>3. CASE Entrega
  <2>1. PICK r \in listos : sinAck' = sinAck \cup {r}
    BY <1>3 DEF Entrega
  <2>2. IsFiniteSet(sinAck)
    BY FS_Subset, ConsumerAssumption DEF Reparto
  <2>3. /\ Cardinality(sinAck) \in Nat /\ r \notin sinAck
        /\ Cardinality(sinAck') = Cardinality(sinAck) + 1
    BY <2>1, <2>2, FS_CardinalityType, FS_AddElement DEF Reparto
  <2> QED
    BY <1>2, <1>3, <2>3, ConsumerAssumption DEF Entrega, Tope
<1>4. CASE ~Entrega
  <2>1. sinAck' \subseteq sinAck
    BY <1>4 DEF Next, vars, broker, worker, Publica, CaeConexion, CierraCanal, Muere, Arranca,
           ReiniciaBroker, Reencola, Toma, Comando, ExecVuelve, Exito, Fallo, LeeModa, PoneModa,
           Ack, Termina, ComandoRechazado, ExecFalla, Devuelve, Descarta, Asienta
  <2> QED
    BY <1>2, <2>1, MenosSinAck DEF Tope
<1> QED
  BY <1>3, <1>4

----------------------------------------------------------------------------
(* IInv holds at the start,                                                *)
LEMMA IInvInit == Init => IInv
<1> SUFFICES ASSUME Init PROVE IInv
  OBVIOUS
<1>1. Forma
  BY BienFacts DEF Init, Forma
<1>2. EnMano = {} /\ \A w \in Worker : hilo[w].rep = Nulo /\ hilo[w].fase = "ocioso"
  BY DEF Init, EnMano, Ocioso
<1>3. Reparto
  BY DEF Init, Reparto
<1>4. Tenencia
  BY <1>2 DEF Init, Tenencia
<1>5. Contado
  BY <1>2 DEF Init, Contado
<1>6. Banderas
  BY Zenon DEF Init, Banderas
<1>7. Tope
  BY FS_EmptySet, ConsumerAssumption DEF Init, Tope
<1> QED
  BY <1>1, <1>3, <1>4, <1>5, <1>6, <1>7 DEF IInv

(* every step keeps it,                                                    *)
LEMMA IInvStep == IInv /\ [Next]_vars => IInv'
<1>1. IInv => bandeja \subseteq Reporte
  BY DEF IInv, Tenencia, Reparto
<1> QED
  BY <1>1, FormaStep, RepartoStep, TenenciaStep, ContadoStep, BanderasStep, TopeStep DEF IInv

(* and it holds in every state.                                            *)
LEMMA IInvAlways == Spec => []IInv
BY IInvInit, IInvStep, PTL DEF Spec

(* Every variable keeps its type; in particular a worker is never without  *)
(* a report in process, nor with one out of it.                            *)
THEOREM ConsumerTypeCorrect == Spec => []TypeOK
<1>1. ASSUME IInv PROVE TypeOK
  <2>1. \A S \in {nuevos, listos, sinAck, asentados, descartados, perdidos, bandeja} : S \subseteq Reporte
    BY <1>1 DEF IInv, Reparto, Tenencia
  <2>2. \A w \in Worker :
          /\ hilo[w].fase \in {"ocioso", "exec", "moda", "ack"}
          /\ hilo[w].rep \in IF hilo[w].fase = "ocioso" THEN {Nulo} ELSE Reporte
          /\ hilo[w].malo => hilo[w].fase = "exec"
          /\ hilo[w].fase = "moda" => hilo[w].resto # <<>>
    <3> TAKE w \in Worker
    <3>1. Bien(hilo[w])
      BY <1>1 DEF IInv, Forma
    <3>2. \A x \in {<<"planes", "ships">>, <<"ships">>} : x # <<>>
      OBVIOUS
    <3>3. hilo[w].rep \in IF hilo[w].fase = "ocioso" THEN {Nulo} ELSE Reporte
      BY <3>1 DEF Bien
    <3>4. hilo[w].malo => hilo[w].fase = "exec"
      BY <3>1, Zenon DEF Bien
    <3>5. hilo[w].fase = "moda" => hilo[w].resto # <<>>
      BY <3>1, <3>2, Zenon DEF Bien
    <3>6. hilo[w].fase \in {"ocioso", "exec", "moda", "ack"}
      BY <3>1, Zenon DEF Bien
    <3> QED
      BY <3>3, <3>4, <3>5, <3>6, Zenon
  <2>3. /\ conectado \in BOOLEAN /\ corre \in BOOLEAN /\ fallos \in 0..MaxFallos
        /\ hechas \in [Reporte -> Nat] /\ DOMAIN hilo = Worker
    BY <1>1, Zenon DEF IInv, Forma, Contado, Banderas, Tope
  <2> QED
    BY <1>1, <2>1, <2>2, <2>3, Zenon DEF TypeOK
<1> QED
  BY <1>1, IInvAlways, PTL

(* The reports in six disjoint places add up.                              *)
LEMMA SumaDeReparto ==
  ASSUME Reparto
  PROVE  Cardinality(nuevos) + Cardinality(listos) + Cardinality(sinAck) + Cardinality(asentados)
         + Cardinality(descartados) + Cardinality(perdidos) = Cardinality(Reporte)
<1> DEFINE A == nuevos
           B == A \cup listos
           C == B \cup sinAck
           D == C \cup asentados
           E == D \cup descartados
<1>1. Reporte = E \cup perdidos
  BY DEF Reparto
<1>2. /\ IsFiniteSet(A) /\ IsFiniteSet(B) /\ IsFiniteSet(C) /\ IsFiniteSet(D) /\ IsFiniteSet(E)
      /\ IsFiniteSet(listos) /\ IsFiniteSet(sinAck) /\ IsFiniteSet(asentados)
      /\ IsFiniteSet(descartados) /\ IsFiniteSet(perdidos)
  <2>1. \A S : S \subseteq Reporte => IsFiniteSet(S)
    BY FS_Subset, ConsumerAssumption
  <2> QED
    BY <1>1, <2>1
<1>3. \A S, T : IsFiniteSet(S) /\ IsFiniteSet(T) /\ S \cap T = {} =>
        Cardinality(S \cup T) = Cardinality(S) + Cardinality(T)
  <2>1. ASSUME NEW S, NEW T, IsFiniteSet(S), IsFiniteSet(T), S \cap T = {}
        PROVE  Cardinality(S \cup T) = Cardinality(S) + Cardinality(T)
    <3>1. Cardinality(S \cup T) = Cardinality(S) + Cardinality(T) - Cardinality(S \cap T)
      BY <2>1, FS_Union
    <3>2. Cardinality(S \cap T) = 0 /\ Cardinality(S) \in Nat /\ Cardinality(T) \in Nat
      BY <2>1, FS_EmptySet, FS_CardinalityType
    <3> QED
      BY <3>1, <3>2
  <2> QED
    BY <2>1
<1>4. /\ A \cap listos = {} /\ B \cap sinAck = {} /\ C \cap asentados = {}
      /\ D \cap descartados = {} /\ E \cap perdidos = {}
  BY DEF Reparto
<1>5. Cardinality(B) = Cardinality(A) + Cardinality(listos)
  BY <1>2, <1>3, <1>4
<1>6. Cardinality(C) = Cardinality(B) + Cardinality(sinAck)
  BY <1>2, <1>3, <1>4
<1>7. Cardinality(D) = Cardinality(C) + Cardinality(asentados)
  BY <1>2, <1>3, <1>4
<1>8. Cardinality(E) = Cardinality(D) + Cardinality(descartados)
  BY <1>2, <1>3, <1>4
<1>9. Cardinality(Reporte) = Cardinality(E) + Cardinality(perdidos)
  BY <1>1, <1>2, <1>3, <1>4
<1> HIDE DEF A, B, C, D, E
<1> QED
  BY <1>5, <1>6, <1>7, <1>8, <1>9 DEF A

(* No report is mislaid or duplicated between the broker, the channel of   *)
(* deliveries and the workers (main.go 138, 150-162).                      *)
THEOREM CustodyHolds == Spec => []Custody
<1>1. ASSUME IInv PROVE Custody
  <2>1. UNION {nuevos, listos, sinAck, asentados, descartados, perdidos} = Reporte
    BY <1>1 DEF IInv, Reparto
  <2>2. conectado => sinAck = bandeja \cup EnMano /\ bandeja \cap EnMano = {}
    BY <1>1 DEF IInv, Tenencia
  <2>3. \A w, x \in Worker : hilo[w].rep = hilo[x].rep => w = x \/ hilo[w].rep = Nulo
    BY <1>1 DEF IInv, Tenencia
  <2>4. Cardinality(sinAck) <= Prefetch /\ descartados \subseteq Malformado
    BY <1>1 DEF IInv, Tope, Contado
  <2> QED
    BY <1>1, <2>1, <2>2, <2>3, <2>4, SumaDeReparto DEF IInv, Custody
<1> QED
  BY <1>1, IInvAlways, PTL

----------------------------------------------------------------------------
(* The ledger: where a report is decides what EstadoDe says.               *)
LEMMA EstadoFacts ==
  ASSUME Reparto
  PROVE  \A r \in Reporte :
           /\ r \in nuevos <=> EstadoDe(r) = "fuera"
           /\ r \in listos \cup sinAck <=> EstadoDe(r) = "cola"
           /\ r \in asentados <=> EstadoDe(r) = "asentado"
           /\ r \in descartados <=> EstadoDe(r) = "descartado"
           /\ r \in perdidos <=> EstadoDe(r) = "perdido"
BY DEF Reparto, EstadoDe

(* A step that leaves every report in its place.                           *)
LEMMA LibroQuieto ==
  ASSUME Reparto, Reparto',
         UNCHANGED <<nuevos, asentados, descartados, perdidos, hechas>>
  PROVE  UNCHANGED Libro!libro
<1>1. listos' \cup sinAck' = listos \cup sinAck
  BY DEF Reparto
<1>2. \A r \in Reporte : EstadoDe(r)' = EstadoDe(r)
  BY <1>1 DEF EstadoDe
<1> QED
  BY <1>2 DEF Libro!libro

(* A report goes from one place to another.                                *)
LEMMA LibroMueve ==
  ASSUME Reparto, Reparto', NEW r \in Reporte, NEW de, NEW a, EstadoDe(r) = de, EstadoDe(r)' = a,
         \A q \in Reporte : q # r => EstadoDe(q)' = EstadoDe(q), hechas' = hechas
  PROVE  Libro!Mueve(r, de, a)
BY DEF Libro!Mueve

(* The ledger at the start: every report is still outside.                 *)
LEMMA LibroInit == Init => Libro!Init
<1> SUFFICES ASSUME Init PROVE Libro!Init
  OBVIOUS
<1>1. \A r \in Reporte : EstadoDe(r) = "fuera"
  BY DEF Init, EstadoDe
<1> QED
  BY <1>1 DEF Init, Libro!Init

(* Every step of the consumer is one of the ledger, or none.               *)
LEMMA LibroStep ==
  Forma /\ Reparto /\ Tenencia /\ Contado /\ Reparto' /\ [Next]_vars =>
    Libro!Next \/ UNCHANGED Libro!libro
<1> SUFFICES ASSUME Forma, Reparto, Tenencia, Contado, Reparto', [Next]_vars
             PROVE  Libro!Next \/ UNCHANGED Libro!libro
  OBVIOUS
<1>1. ASSUME NEW w \in Worker, Toma(w) PROVE Libro!Next \/ UNCHANGED Libro!libro
  <2>1. CASE UNCHANGED broker
    BY <1>1, <2>1, LibroQuieto DEF Toma, broker
  <2>2. ASSUME NEW r \in bandeja, r \in Malformado, Descarta(r) PROVE Libro!Next \/ UNCHANGED Libro!libro
    <3>1. CASE r \notin sinAck
      BY <1>1, <2>2, <3>1, LibroQuieto DEF Toma, Descarta, Responde
    <3>2. CASE r \in sinAck
      <4>1. /\ r \in Reporte /\ EstadoDe(r) = "cola" /\ EstadoDe(r)' = "descartado" /\ hechas' = hechas
            /\ \A q \in Reporte : q # r => EstadoDe(q)' = EstadoDe(q)
        BY <1>1, <2>2, <3>2 DEF Toma, Descarta, Responde, Reparto, EstadoDe
      <4>2. Libro!Descarta(r)
        BY <2>2, <4>1, LibroMueve DEF Libro!Descarta
      <4> QED
        BY <4>1, <4>2 DEF Libro!Next
    <3> QED
      BY <3>1, <3>2
  <2> QED
    BY <1>1, <2>1, <2>2 DEF Toma
<1>2. ASSUME NEW w \in Worker, Comando(w) PROVE Libro!Next \/ UNCHANGED Libro!libro
  BY <1>2, LibroQuieto DEF Comando, broker
<1>3. ASSUME NEW w \in Worker, ComandoRechazado(w) PROVE Libro!Next \/ UNCHANGED Libro!libro
  BY <1>3, LibroQuieto DEF ComandoRechazado, Adverso, broker
<1>4. ASSUME NEW w \in Worker, ExecFalla(w) PROVE Libro!Next \/ UNCHANGED Libro!libro
  BY <1>4, LibroQuieto DEF ExecFalla, Adverso, Devuelve, Responde, broker
<1>5. ASSUME NEW w \in Worker, ExecVuelve(w) PROVE Libro!Next \/ UNCHANGED Libro!libro
  <2>0. PICK r : r = hilo[w].rep
    OBVIOUS
  <2>1. CASE Fallo(w)
    BY <1>5, <2>1, LibroQuieto DEF ExecVuelve, Fallo, Devuelve
  <2>2. CASE Exito(w)
    <3>1. r \in EnMano /\ r \in Reporte /\ r \notin Malformado
      BY <1>5, <2>0 DEF ExecVuelve, Forma, Bien, EnMano, Contado
    <3>2. EstadoDe(r) \in {"cola", "perdido"}
      BY <3>1, EstadoFacts DEF Tenencia
    <3>3. \A q \in Reporte : EstadoDe(q)' = EstadoDe(q)
      BY <2>2 DEF Exito, broker, EstadoDe
    <3>4. hechas' = [hechas EXCEPT ![r] = @ + 1]
      BY <2>0, <2>2 DEF Exito
    <3>5. Libro!Cuenta(r)
      BY <3>1, <3>2, <3>3, <3>4 DEF Libro!Cuenta
    <3> QED
      BY <3>1, <3>5 DEF Libro!Next
  <2> QED
    BY <1>5, <2>1, <2>2 DEF ExecVuelve
<1>6. ASSUME NEW w \in Worker, LeeModa(w) PROVE Libro!Next \/ UNCHANGED Libro!libro
  BY <1>6, LibroQuieto DEF LeeModa, Adverso, broker
<1>7. ASSUME NEW w \in Worker, PoneModa(w) PROVE Libro!Next \/ UNCHANGED Libro!libro
  BY <1>7, LibroQuieto DEF PoneModa, Adverso, broker
<1>8. ASSUME NEW w \in Worker, Ack(w) PROVE Libro!Next \/ UNCHANGED Libro!libro
  <2>0. PICK r : r = hilo[w].rep
    OBVIOUS
  <2>1. CASE r \notin sinAck
    BY <1>8, <2>0, <2>1, LibroQuieto DEF Ack, Asienta, Responde
  <2>2. CASE r \in sinAck
    <3>1. r \in Reporte /\ hechas[r] > 0 /\ hechas' = hechas
      BY <1>8, <2>0 DEF Ack, Forma, Bien, Contado
    <3>2. /\ EstadoDe(r) = "cola" /\ EstadoDe(r)' = "asentado"
          /\ \A q \in Reporte : q # r => EstadoDe(q)' = EstadoDe(q)
      BY <1>8, <2>0, <2>2, <3>1 DEF Ack, Asienta, Responde, Reparto, EstadoDe
    <3>3. Libro!Asienta(r)
      BY <3>1, <3>2, LibroMueve DEF Libro!Asienta
    <3> QED
      BY <3>1, <3>3 DEF Libro!Next
  <2> QED
    BY <2>1, <2>2
<1>9. ASSUME NEW w \in Worker, Termina(w) PROVE Libro!Next \/ UNCHANGED Libro!libro
  BY <1>9, LibroQuieto DEF Termina, Apaga, broker
<1>10. CASE Publica
  <2>1. PICK r \in nuevos : nuevos' = nuevos \ {r} /\ listos' = listos \cup {r}
    BY <1>10 DEF Publica
  <2>2. /\ r \in Reporte /\ EstadoDe(r) = "fuera" /\ EstadoDe(r)' = "cola" /\ hechas' = hechas
        /\ \A q \in Reporte : q # r => EstadoDe(q)' = EstadoDe(q)
    BY <1>10, <2>1 DEF Publica, Reparto, EstadoDe
  <2>3. Libro!Publica(r)
    BY <2>2, LibroMueve DEF Libro!Publica
  <2> QED
    BY <2>2, <2>3 DEF Libro!Next
<1>11. CASE Entrega
  BY <1>11, LibroQuieto DEF Entrega, broker
<1>12. CASE CaeConexion
  BY <1>12, LibroQuieto DEF CaeConexion, Adverso, Reencola, broker
<1>13. CASE CierraCanal
  BY <1>13, LibroQuieto DEF CierraCanal, broker
<1>14. CASE Muere
  BY <1>14, LibroQuieto DEF Muere, Adverso, Apaga, Reencola, broker
<1>15. CASE Arranca
  BY <1>15, LibroQuieto DEF Arranca, broker
<1>16. CASE ReiniciaBroker
  <2>1. \A r \in Reporte : EstadoDe(r)' = IF EstadoDe(r) = "cola" THEN "perdido" ELSE EstadoDe(r)
    BY <1>16 DEF ReiniciaBroker, Reparto, EstadoDe
  <2>2. Libro!Pierde
    BY <1>16, <2>1 DEF ReiniciaBroker, Libro!Pierde
  <2> QED
    BY <2>2 DEF Libro!Next
<1>17. CASE UNCHANGED vars
  BY <1>17, LibroQuieto DEF vars, broker
<1> QED
  BY <1>1, <1>2, <1>3, <1>4, <1>5, <1>6, <1>7, <1>8,
     <1>9, <1>10, <1>11, <1>12, <1>13, <1>14, <1>15, <1>16, <1>17
     DEF Next, worker

(* The consumer implements the ledger: whatever crashes, is lost or fails, *)
(* it settles no report it has not counted, counts none it has settled,    *)
(* and drops only what does not decode (main.go 145-168).                  *)
THEOREM ConsumerImplementsEntrega == Spec => ImplementaEntrega
<1>1. IInv /\ IInv' /\ [Next]_vars => [Libro!Next]_(Libro!libro)
  BY LibroStep DEF IInv
<1> QED
  BY <1>1, LibroInit, IInvAlways, PTL DEF Spec, ImplementaEntrega, Libro!Spec

----------------------------------------------------------------------------
(* Sums over finite sets.  The folds of the model are recursive functions  *)
(* on the subsets of a set: the recursion has a solution, and the order in *)
(* which it visits the elements does not matter.                           *)

(* A nonempty set of naturals has a least element.                         *)
LEMMA MenorNatural ==
  ASSUME NEW T \in SUBSET Nat, T # {}
  PROVE  \E m \in T : \A k \in T : m <= k
<1> DEFINE R == OpToRel(<, Nat)
<1>1. IsWellFoundedOn(R, Nat) /\ R = {ss \in Nat \X Nat : ss[1] < ss[2]}
  BY NatLessThanWellFounded DEF OpToRel
<1> HIDE DEF R
<1>2. PICK m \in T : \A y \in T : ~(<<y, m>> \in R)
  BY <1>1, WFMin
<1>3. \A y \in T : ~(y < m)
  BY <1>1, <1>2
<1> QED
  BY <1>3

(* Induction over the naturals, for a set instead of a predicate.          *)
LEMMA InduccionNat ==
  ASSUME NEW T \in SUBSET Nat, 0 \in T, \A n \in T : n + 1 \in T
  PROVE  T = Nat
<1> SUFFICES ASSUME T # Nat PROVE FALSE
  OBVIOUS
<1>1. PICK m \in Nat \ T : \A k \in Nat \ T : m <= k
  BY MenorNatural
<1>2. m - 1 \in Nat /\ m - 1 < m
  BY <1>1
<1>3. m - 1 \in T
  BY <1>1, <1>2
<1> QED
  BY <1>1, <1>2, <1>3

(* Induction over the subsets of a finite set, for a set of them.          *)
LEMMA InduccionPartes ==
  ASSUME NEW S, IsFiniteSet(S), NEW F \in SUBSET SUBSET S, {} \in F,
         \A T \in SUBSET S : T # {} /\ (\A x \in T : T \ {x} \in F) => T \in F
  PROVE  F = SUBSET S
<1> DEFINE N == {n \in Nat : \A T \in SUBSET S : Cardinality(T) = n => T \in F}
<1>1. \A T \in SUBSET S : /\ IsFiniteSet(T) /\ Cardinality(T) \in Nat
                          /\ Cardinality(T) = 0 => T = {}
                          /\ \A x \in T : Cardinality(T \ {x}) = Cardinality(T) - 1
  BY FS_Subset, FS_CardinalityType, FS_EmptySet, FS_RemoveElement
<1>2. 0 \in N
  BY <1>1
<1>3. ASSUME NEW n \in N PROVE n + 1 \in N
  <2>1. n \in Nat /\ \A U \in SUBSET S : Cardinality(U) = n => U \in F
    BY <1>3
  <2>2. ASSUME NEW T \in SUBSET S, Cardinality(T) = n + 1 PROVE T \in F
    <3>1. T # {}
      BY <2>1, <2>2, FS_EmptySet
    <3>2. ASSUME NEW x \in T PROVE T \ {x} \in F
      BY <1>1, <2>1, <2>2
    <3> QED
      BY <3>1, <3>2
  <2> QED
    BY <2>1, <2>2
<1>4. N \in SUBSET Nat
  OBVIOUS
<1> HIDE DEF N
<1>5. N = Nat
  BY <1>2, <1>3, <1>4, InduccionNat
<1> USE DEF N
<1> QED
  BY <1>1, <1>5

(* The fold behind a sum, with the summand as a function.                  *)
Suma1(g, f, s) == IF s = {} THEN 0
                  ELSE LET x == CHOOSE x \in s : TRUE IN g[x] + f[s \ {x}]
EsSuma(S, g, f) == f = [s \in SUBSET S |-> Suma1(g, f, s)]
SumaDe(g, S) == (CHOOSE f : EsSuma(S, g, f))[S]

(* The recursion by which a finite set is summed has a solution.           *)
LEMMA SumaExiste ==
  ASSUME NEW S, IsFiniteSet(S), NEW g, \A x \in S : g[x] \in Int
  PROVE  \E f : EsSuma(S, g, f)
<1> DEFINE ch(s) == CHOOSE x \in s : TRUE
           Hasta(n, f) == \A T \in SUBSET S : Cardinality(T) <= n => f[T] = Suma1(g, f, T)
           N == {n \in Nat : \E f \in [SUBSET S -> Int] : Hasta(n, f)}
<1>0. \A T \in SUBSET S : IsFiniteSet(T) /\ Cardinality(T) \in Nat /\ (Cardinality(T) = 0 <=> T = {})
  BY FS_Subset, FS_CardinalityType, FS_EmptySet
<1>1. 0 \in N
  <2> DEFINE f == [s \in SUBSET S |-> 0]
  <2>1. f \in [SUBSET S -> Int] /\ Hasta(0, f)
    BY <1>0 DEF Suma1
  <2> HIDE DEF f
  <2> QED
    BY <2>1
<1>5. \A s \in SUBSET S : s # {} => ch(s) \in s /\ Cardinality(s \ {ch(s)}) = Cardinality(s) - 1
  BY <1>0, FS_RemoveElement
<1>2. ASSUME NEW n \in N PROVE n + 1 \in N
  <2>1. n \in Nat
    OBVIOUS
  <2>2. PICK f \in [SUBSET S -> Int] : Hasta(n, f)
    BY <1>2
  <2> DEFINE h == [s \in SUBSET S |-> IF Cardinality(s) <= n THEN f[s] ELSE Suma1(g, f, s)]
  <2> HIDE DEF ch
  <2>7. \A s \in SUBSET S : \A k : Suma1(g, k, s) = IF s = {} THEN 0 ELSE g[ch(s)] + k[s \ {ch(s)}]
    BY DEF Suma1, ch
  <2>3. h \in [SUBSET S -> Int]
    <3>1. ASSUME NEW s \in SUBSET S PROVE Suma1(g, f, s) \in Int
      <4>1. CASE s = {}
        BY <4>1 DEF Suma1
      <4>2. CASE s # {}
        <5>1. ch(s) \in S /\ s \ {ch(s)} \in SUBSET S
          BY <1>5, <4>2
        <5>2. g[ch(s)] \in Int /\ f[s \ {ch(s)}] \in Int
          BY <5>1
        <5> QED
          BY <2>7, <4>2, <5>2
      <4> QED
        BY <4>1, <4>2
    <3> QED
      BY <3>1
  <2>4. ASSUME NEW s \in SUBSET S, Cardinality(s) <= n + 1 PROVE h[s] = Suma1(g, h, s)
    <3>1. CASE s = {}
      <4>1. h[s] = f[s] /\ f[s] = 0
        BY <1>0, <2>1, <2>2, <2>7, <3>1
      <4> QED
        BY <2>7, <3>1, <4>1
    <3>2. CASE s # {}
      <4> DEFINE t == s \ {ch(s)}
      <4>1. t \in SUBSET S /\ Cardinality(t) <= n /\ Cardinality(t) \in Nat
        BY <1>0, <1>5, <2>1, <2>4, <3>2
      <4>2. h[t] = f[t]
        BY <4>1
      <4>3. h[s] = Suma1(g, f, s)
        BY <2>2
      <4>4. Suma1(g, f, s) = g[ch(s)] + f[t] /\ Suma1(g, h, s) = g[ch(s)] + h[t]
        BY <2>7, <3>2
      <4> QED
        BY <4>2, <4>3, <4>4
    <3> QED
      BY <3>1, <3>2
  <2>5. Hasta(n + 1, h)
    BY <2>4
  <2> HIDE DEF h, Hasta
  <2>6. \E k \in [SUBSET S -> Int] : Hasta(n + 1, k)
    BY <2>3, <2>5
  <2>8. n + 1 \in Nat
    BY <2>1
  <2> QED
    BY <2>6, <2>8
<1>3. N = Nat
  <2>1. N \in SUBSET Nat
    OBVIOUS
  <2> HIDE DEF N
  <2> QED
    BY <1>1, <1>2, <2>1, InduccionNat
<1>4. PICK f \in [SUBSET S -> Int] : Hasta(Cardinality(S), f)
  BY <1>3, FS_CardinalityType
<1>6. \A T \in SUBSET S : Cardinality(T) <= Cardinality(S)
  BY FS_Subset
<1>7. EsSuma(S, g, f)
  BY <1>4, <1>6 DEF EsSuma
<1> QED
  BY <1>7

(* Any solution gives integers, and takes the elements in any order.       *)
LEMMA SumaOrden ==
  ASSUME NEW S, IsFiniteSet(S), NEW g, \A x \in S : g[x] \in Int, NEW f, EsSuma(S, g, f)
  PROVE  /\ f[{}] = 0
         /\ \A T \in SUBSET S : f[T] \in Int /\ \A x \in T : f[T] = f[T \ {x}] + g[x]
<1> DEFINE N == {T \in SUBSET S : f[T] \in Int}
           F == {T \in SUBSET S : \A x \in T : f[T] = f[T \ {x}] + g[x]}
<1>1. \A T \in SUBSET S : f[T] = Suma1(g, f, T)
  BY Zenon DEF EsSuma
<1>2. f[{}] = 0
  <2>1. {} \in SUBSET S /\ Suma1(g, f, {}) = 0
    BY DEF Suma1
  <2> QED
    BY <1>1, <2>1
<1>3. {} \in N /\ {} \in F /\ N \in SUBSET SUBSET S /\ F \in SUBSET SUBSET S
  BY <1>2
<1>4. ASSUME NEW T \in SUBSET S, T # {}
      PROVE  \E y \in T : f[T] = f[T \ {y}] + g[y] \/ f[T] = g[y] + f[T \ {y}]
  <2>1. PICK y \in T : y = CHOOSE z \in T : TRUE
    BY <1>4
  <2> QED
    BY <1>1, <1>4, <2>1 DEF Suma1
<1>5. ASSUME NEW T \in SUBSET S, T # {}, \A x \in T : T \ {x} \in N PROVE T \in N
  <2>1. PICK y \in T : f[T] = f[T \ {y}] + g[y] \/ f[T] = g[y] + f[T \ {y}]
    BY <1>4, <1>5
  <2>2. T \ {y} \in N
    BY <1>5
  <2>3. f[T \ {y}] \in Int /\ g[y] \in Int
    BY <2>2
  <2> QED
    BY <2>1, <2>3
<1>6. N = SUBSET S
  <2> HIDE DEF N
  <2> QED
    BY <1>3, <1>5, InduccionPartes
<1>7. \A T \in SUBSET S : f[T] \in Int
  BY <1>6
<1>8. ASSUME NEW T \in SUBSET S, T # {}, \A x \in T : T \ {x} \in F PROVE T \in F
  <2>1. PICK y \in T : f[T] = f[T \ {y}] + g[y]
    BY <1>4, <1>7, <1>8
  <2>2. ASSUME NEW x \in T, x # y PROVE f[T] = f[T \ {x}] + g[x]
    <3>1. f[T \ {y}] = f[(T \ {y}) \ {x}] + g[x] /\ f[T \ {x}] = f[(T \ {x}) \ {y}] + g[y]
      BY <1>8, <2>2
    <3>2. (T \ {y}) \ {x} = (T \ {x}) \ {y}
      OBVIOUS
    <3>3. (T \ {x}) \ {y} \in SUBSET S
      OBVIOUS
    <3>4. f[(T \ {x}) \ {y}] \in Int /\ g[x] \in Int /\ g[y] \in Int
      BY <1>7, <3>3
    <3>5. f[T \ {y}] = f[(T \ {x}) \ {y}] + g[x]
      BY <3>1, <3>2
    <3> QED
      BY <2>1, <3>1, <3>4, <3>5
  <2>3. \A x \in T : f[T] = f[T \ {x}] + g[x]
    BY <2>1, <2>2
  <2> QED
    BY <2>3
<1>9. F = SUBSET S
  <2> HIDE DEF F
  <2> QED
    BY <1>3, <1>8, InduccionPartes
<1> QED
  BY <1>2, <1>7, <1>9

(* The sum of a part is read off any solution for the whole.               *)
LEMMA SumaUnica ==
  ASSUME NEW S, IsFiniteSet(S), NEW g, \A x \in S : g[x] \in Int,
         NEW f, EsSuma(S, g, f), NEW T \in SUBSET S
  PROVE  f[T] = SumaDe(g, T)
<1> DEFINE h == CHOOSE k : EsSuma(T, g, k)
           F == {U \in SUBSET T : f[U] = h[U]}
<1>1. IsFiniteSet(T) /\ \A x \in T : g[x] \in Int
  BY FS_Subset
<1>2. EsSuma(T, g, h)
  BY <1>1, SumaExiste
<1> HIDE DEF h
<1>3. \A U \in SUBSET T : f[U] = Suma1(g, f, U) /\ h[U] = Suma1(g, h, U)
  BY <1>2, Zenon DEF EsSuma
<1>4. {} \in F
  BY <1>3 DEF Suma1
<1>5. ASSUME NEW U \in SUBSET T, U # {}, \A x \in U : U \ {x} \in F PROVE U \in F
  <2>1. PICK y \in U : y = CHOOSE z \in U : TRUE
    BY <1>5
  <2> QED
    BY <1>3, <1>5, <2>1 DEF Suma1
<1>6. F \in SUBSET SUBSET T
  OBVIOUS
<1>7. F = SUBSET T
  <2> HIDE DEF F
  <2> QED
    BY <1>1, <1>4, <1>5, <1>6, InduccionPartes
<1>8. f[T] = h[T]
  BY <1>7
<1> QED
  BY <1>8 DEF SumaDe, h

(* What a sum does not say in its definition: it is an integer, and it may *)
(* be taken apart at any element.                                          *)
LEMMA SumaQuita ==
  ASSUME NEW S, IsFiniteSet(S), NEW g, \A x \in S : g[x] \in Int
  PROVE  /\ SumaDe(g, {}) = 0 /\ SumaDe(g, S) \in Int
         /\ \A x \in S : SumaDe(g, S) = SumaDe(g, S \ {x}) + g[x]
<1>1. PICK f : EsSuma(S, g, f)
  BY SumaExiste
<1>2. \A T \in SUBSET S : SumaDe(g, T) = f[T]
  BY <1>1, SumaUnica
<1>3. {} \in SUBSET S /\ S \in SUBSET S /\ \A x \in S : S \ {x} \in SUBSET S
  OBVIOUS
<1>4. f[{}] = 0 /\ f[S] \in Int /\ \A x \in S : f[S] = f[S \ {x}] + g[x]
  <2>1. f[{}] = 0
    BY <1>1, SumaOrden
  <2>2. \A T \in SUBSET S : f[T] \in Int /\ \A x \in T : f[T] = f[T \ {x}] + g[x]
    BY <1>1, SumaOrden
  <2> QED
    BY <1>3, <2>1, <2>2
<1> QED
  BY <1>2, <1>3, <1>4

(* The same about the parts of a set, in the form the inductions use.      *)
LEMMA SumaDePartes ==
  ASSUME NEW S, IsFiniteSet(S), NEW g, \A x \in S : g[x] \in Int
  PROVE  /\ SumaDe(g, {}) = 0
         /\ \A T \in SUBSET S :
              /\ IsFiniteSet(T) /\ SumaDe(g, T) \in Int
              /\ \A x \in T : SumaDe(g, T) = SumaDe(g, T \ {x}) + g[x]
<1>1. ASSUME NEW T \in SUBSET S PROVE IsFiniteSet(T) /\ \A x \in T : g[x] \in Int
  BY FS_Subset
<1> QED
  BY <1>1, SumaQuita

(* Natural summands have natural sums.                                     *)
LEMMA SumaNatural ==
  ASSUME NEW S, IsFiniteSet(S), NEW g, \A x \in S : g[x] \in Nat
  PROVE  \A T \in SUBSET S : SumaDe(g, T) \in Nat
<1> DEFINE F == {T \in SUBSET S : SumaDe(g, T) \in Nat}
<1>1. /\ SumaDe(g, {}) = 0
      /\ \A T \in SUBSET S : \A x \in T : SumaDe(g, T) = SumaDe(g, T \ {x}) + g[x]
  BY SumaDePartes
<1>2. {} \in F
  BY <1>1
<1>3. ASSUME NEW T \in SUBSET S, T # {}, \A x \in T : T \ {x} \in F PROVE T \in F
  <2>1. PICK x \in T : TRUE
    BY <1>3
  <2>2. SumaDe(g, T) = SumaDe(g, T \ {x}) + g[x] /\ SumaDe(g, T \ {x}) \in Nat /\ g[x] \in Nat
    BY <1>1, <1>3, <2>1
  <2> QED
    BY <2>2
<1>4. F \in SUBSET SUBSET S
  OBVIOUS
<1>5. F = SUBSET S
  <2> HIDE DEF F
  <2> QED
    BY <1>2, <1>3, <1>4, InduccionPartes
<1> QED
  BY <1>5

(* A part sums no more than the whole.                                     *)
LEMMA SumaMonotona ==
  ASSUME NEW S, IsFiniteSet(S), NEW g, \A x \in S : g[x] \in Nat, NEW T \in SUBSET S
  PROVE  SumaDe(g, T) \in Nat /\ SumaDe(g, T) <= SumaDe(g, S)
<1> DEFINE F == {U \in SUBSET S : SumaDe(g, T \cap U) <= SumaDe(g, U)}
<1>1. /\ SumaDe(g, {}) = 0
      /\ \A U \in SUBSET S : /\ SumaDe(g, U) \in Nat
                             /\ \A x \in U : SumaDe(g, U) = SumaDe(g, U \ {x}) + g[x]
  BY SumaDePartes, SumaNatural
<1>2. {} \in F
  BY <1>1
<1>3. ASSUME NEW U \in SUBSET S, U # {}, \A x \in U : U \ {x} \in F PROVE U \in F
  <2>1. PICK x \in U : TRUE
    BY <1>3
  <2>2. /\ SumaDe(g, U) = SumaDe(g, U \ {x}) + g[x]
        /\ SumaDe(g, U \ {x}) \in Nat /\ g[x] \in Nat /\ SumaDe(g, T \cap (U \ {x})) \in Nat
        /\ SumaDe(g, T \cap (U \ {x})) <= SumaDe(g, U \ {x})
    BY <1>1, <1>3, <2>1
  <2>3. CASE x \in T
    <3>1. T \cap U \in SUBSET S /\ x \in T \cap U /\ (T \cap U) \ {x} = T \cap (U \ {x})
      BY <2>1, <2>3
    <3>2. SumaDe(g, T \cap U) = SumaDe(g, T \cap (U \ {x})) + g[x]
      BY <1>1, <3>1
    <3>3. SumaDe(g, T \cap U) <= SumaDe(g, U)
      BY <2>2, <3>2
    <3> QED
      BY <3>3
  <2>4. CASE x \notin T
    <3>1. T \cap U = T \cap (U \ {x})
      BY <2>4
    <3>2. SumaDe(g, T \cap U) <= SumaDe(g, U)
      BY <2>2, <3>1
    <3> QED
      BY <3>2
  <2> QED
    BY <2>3, <2>4
<1>4. F \in SUBSET SUBSET S
  OBVIOUS
<1>5. F = SUBSET S
  <2> HIDE DEF F
  <2> QED
    BY <1>2, <1>3, <1>4, InduccionPartes
<1>6. T \cap S = T /\ S \in F
  BY <1>5
<1> QED
  BY <1>1, <1>6

(* The sum of a sum.                                                       *)
LEMMA SumaLineal ==
  ASSUME NEW S, IsFiniteSet(S), NEW g, NEW h, NEW k,
         \A x \in S : g[x] \in Int /\ h[x] \in Int /\ k[x] = g[x] + h[x]
  PROVE  SumaDe(k, S) = SumaDe(g, S) + SumaDe(h, S)
<1> DEFINE F == {U \in SUBSET S : SumaDe(k, U) = SumaDe(g, U) + SumaDe(h, U)}
<1>1. ASSUME NEW j, \A x \in S : j[x] \in Int
      PROVE  /\ SumaDe(j, {}) = 0
             /\ \A U \in SUBSET S : /\ SumaDe(j, U) \in Int
                                    /\ \A x \in U : SumaDe(j, U) = SumaDe(j, U \ {x}) + j[x]
  <2>1. \A U \in SUBSET S : /\ IsFiniteSet(U) /\ SumaDe(j, U) \in Int
                            /\ \A x \in U : SumaDe(j, U) = SumaDe(j, U \ {x}) + j[x]
    <3> TAKE U \in SUBSET S
    <3>1. IsFiniteSet(U) /\ \A x \in U : j[x] \in Int
      BY <1>1, FS_Subset
    <3> QED
      BY <3>1, SumaQuita
  <2>2. SumaDe(j, {}) = 0
    BY <1>1, SumaQuita
  <2> QED
    BY <2>1, <2>2
<1>2. \A x \in S : k[x] \in Int
  OBVIOUS
<1>3. {} \in F
  BY <1>1, <1>2
<1>4. ASSUME NEW U \in SUBSET S, U # {}, \A x \in U : U \ {x} \in F PROVE U \in F
  <2>1. PICK x \in U : TRUE
    BY <1>4
  <2>2. U \ {x} \in SUBSET S /\ SumaDe(k, U \ {x}) = SumaDe(g, U \ {x}) + SumaDe(h, U \ {x})
    BY <1>4, <2>1
  <2>3. /\ SumaDe(g, U) = SumaDe(g, U \ {x}) + g[x] /\ SumaDe(g, U \ {x}) \in Int
        /\ SumaDe(h, U) = SumaDe(h, U \ {x}) + h[x] /\ SumaDe(h, U \ {x}) \in Int
        /\ SumaDe(k, U) = SumaDe(k, U \ {x}) + k[x]
    BY <1>1, <1>2, <2>1, <2>2
  <2>4. SumaDe(k, U) = SumaDe(g, U) + SumaDe(h, U)
    BY <2>1, <2>2, <2>3
  <2> QED
    BY <2>4
<1>5. F \in SUBSET SUBSET S
  OBVIOUS
<1>6. F = SUBSET S
  <2> HIDE DEF F
  <2> QED
    BY <1>3, <1>4, <1>5, InduccionPartes
<1>7. S \in F
  BY <1>6
<1> QED
  BY <1>7

(* Larger summands give no less, and equal ones the same.                  *)
LEMMA SumaMayor ==
  ASSUME NEW S, IsFiniteSet(S), NEW g, NEW h,
         \A x \in S : g[x] \in Int /\ h[x] \in Int /\ g[x] <= h[x]
  PROVE  SumaDe(g, S) <= SumaDe(h, S)
<1> DEFINE d == [x \in S |-> h[x] - g[x]]
<1>1. \A x \in S : d[x] \in Nat /\ h[x] = g[x] + d[x]
  OBVIOUS
<1> HIDE DEF d
<1>2. SumaDe(h, S) = SumaDe(g, S) + SumaDe(d, S)
  BY <1>1, SumaLineal
<1>3. SumaDe(g, S) \in Int /\ SumaDe(d, S) \in Nat
  BY <1>1, SumaQuita, SumaNatural
<1> QED
  BY <1>2, <1>3

(* One summand grows.                                                      *)
LEMMA SumaPunto ==
  ASSUME NEW S, IsFiniteSet(S), NEW g, NEW h, NEW c \in S, NEW n \in Int,
         \A x \in S : g[x] \in Int /\ h[x] = IF x = c THEN g[x] + n ELSE g[x]
  PROVE  SumaDe(h, S) = SumaDe(g, S) + n
<1>1. IsFiniteSet(S \ {c}) /\ \A x \in S : h[x] \in Int
  BY FS_Subset
<1>2. \A x \in S \ {c} : g[x] \in Int /\ h[x] \in Int /\ g[x] <= h[x] /\ h[x] <= g[x]
  OBVIOUS
<1>3. SumaDe(g, S \ {c}) <= SumaDe(h, S \ {c}) /\ SumaDe(h, S \ {c}) <= SumaDe(g, S \ {c})
  BY <1>1, <1>2, SumaMayor
<1>4. /\ SumaDe(g, S) = SumaDe(g, S \ {c}) + g[c] /\ SumaDe(h, S) = SumaDe(h, S \ {c}) + h[c]
      /\ SumaDe(g, S \ {c}) \in Int /\ SumaDe(h, S \ {c}) \in Int
  BY <1>1, SumaDePartes
<1> QED
  BY <1>3, <1>4

----------------------------------------------------------------------------
(* The commands of a pipeline.                                             *)
Incr == Op("incr", Nulo)
Xadd == Op("xadd", Nulo)
Ops(r) == ToSet(Operaciones(r))
Dobles == {"zincrby", "hincrby", "freq", "max", "min"}
Operacion == {Incr, Xadd} \cup {Op(n, m) : n \in Dobles \cup {"hset"}, m \in Magnitud}

(* Two commands are one when they have the same parts.                     *)
LEMMA OpIgual == \A n, k, m, q : Op(n, m) = Op(k, q) <=> n = k /\ m = q
<1> SUFFICES ASSUME NEW n, NEW k, NEW m, NEW q PROVE Op(n, m) = Op(k, q) <=> n = k /\ m = q
  OBVIOUS
<1>1. Op(n, m).op = n /\ Op(n, m).mag = m /\ Op(k, q).op = k /\ Op(k, q).mag = q
  BY DEF Op
<1> QED
  BY <1>1

(* A sequence that visits each element of a set once.                      *)
Recorre(s, A) == s \in Seq(A) /\ IsInjective(s) /\ ToSet(s) = A
(* The tuples of which the pipeline is made.                               *)
LEMMA RecorreTuplas ==
  /\ Recorre(<<>>, {})
  /\ \A a : Recorre(<<a>>, {a})
  /\ \A a, b : a # b => Recorre(<<a, b>>, {a, b})
  /\ \A a, b, c, d : a # b /\ a # c /\ a # d /\ b # c /\ b # d /\ c # d
                       => Recorre(<<a, b, c, d>>, {a, b, c, d})
<1>1. Recorre(<<>>, {}) /\ \A a : Recorre(<<a>>, {a})
  BY DEF Recorre, ToSet, IsInjective
<1>2. \A a, b : a # b => Recorre(<<a, b>>, {a, b})
  BY DEF Recorre, ToSet, IsInjective
<1>3. ASSUME NEW a, NEW b, NEW c, NEW d,
             a # b /\ a # c /\ a # d /\ b # c /\ b # d /\ c # d
      PROVE  Recorre(<<a, b, c, d>>, {a, b, c, d})
  <2> DEFINE s == <<a, b, c, d>>
  <2>1. s \in Seq({a, b, c, d})
    OBVIOUS
  <2>2. /\ DOMAIN s = 1..4 /\ s[1] = a /\ s[2] = b /\ s[3] = c /\ s[4] = d
        /\ \A i \in 1..4 : i = 1 \/ i = 2 \/ i = 3 \/ i = 4
        /\ 1 \in 1..4 /\ 2 \in 1..4 /\ 3 \in 1..4 /\ 4 \in 1..4
    OBVIOUS
  <2> HIDE DEF s
  <2>3. IsInjective(s)
    BY <1>3, <2>2 DEF IsInjective
  <2>4. ToSet(s) = {a, b, c, d}
    BY <2>2 DEF ToSet
  <2> QED
    BY <2>1, <2>3, <2>4 DEF Recorre, s
<1> QED
  BY <1>1, <1>2, <1>3

(* Two such sequences of disjoint sets make another.                       *)
LEMMA RecorreJuntos ==
  ASSUME NEW A, NEW B, A \cap B = {}, NEW s, NEW t, Recorre(s, A), Recorre(t, B)
  PROVE  Recorre(s \o t, A \cup B)
<1> DEFINE u == s \o t
           n == Len(s)
           k == Len(t)
<1>1. /\ s \in Seq(A \cup B) /\ t \in Seq(A \cup B) /\ n \in Nat /\ k \in Nat
      /\ DOMAIN s = 1..n /\ DOMAIN t = 1..k
      /\ \A i \in 1..n : s[i] \in A
      /\ \A i \in 1..k : t[i] \in B
  <2>1. s \in Seq(A) /\ t \in Seq(B)
    BY DEF Recorre
  <2>2. s \in Seq(A \cup B) /\ t \in Seq(A \cup B)
    BY <2>1, SeqMonotonic
  <2> QED
    BY <2>1, <2>2, LenProperties, ElementOfSeq
<1>2. /\ u \in Seq(A \cup B) /\ Len(u) = n + k
      /\ \A i \in 1..n + k : u[i] = IF i <= n THEN s[i] ELSE t[i - n]
  BY <1>1, ConcatProperties
<1>3. DOMAIN u = 1..n + k
  BY <1>2, LenProperties
<1>4. /\ \A i, j \in 1..n : s[i] = s[j] => i = j
      /\ \A i, j \in 1..k : t[i] = t[j] => i = j
      /\ \A a \in A : \E i \in 1..n : s[i] = a
      /\ \A b \in B : \E i \in 1..k : t[i] = b
  BY <1>1 DEF Recorre, IsInjective, ToSet
<1> HIDE DEF u, n, k
<1>5. \A i \in 1..n : i \in 1..n + k /\ u[i] = s[i]
  BY <1>1, <1>2
<1>6. \A i \in 1..k : n + i \in 1..n + k /\ u[n + i] = t[i]
  BY <1>1, <1>2
<1>7. \A i \in 1..n + k : i \in 1..n \/ \E j \in 1..k : i = n + j
  <2> SUFFICES ASSUME NEW i \in 1..n + k, i \notin 1..n PROVE \E j \in 1..k : i = n + j
    OBVIOUS
  <2>1. i - n \in 1..k /\ i = n + (i - n)
    BY <1>1
  <2> QED
    BY <2>1
<1>8. \A i \in 1..n + k : IF i \in 1..n THEN u[i] \in A ELSE u[i] \in B
  BY <1>1, <1>5, <1>6, <1>7
<1>9. ASSUME NEW i \in 1..n + k, NEW j \in 1..n + k, u[i] = u[j] PROVE i = j
  <2>1. CASE i \in 1..n /\ j \in 1..n
    BY <1>4, <1>5, <1>9, <2>1
  <2>2. CASE i \in 1..n /\ j \notin 1..n
    BY <1>9, <1>8, <2>2
  <2>3. CASE i \notin 1..n /\ j \in 1..n
    BY <1>9, <1>8, <2>3
  <2>4. CASE i \notin 1..n /\ j \notin 1..n
    <3>1. PICK x \in 1..k, y \in 1..k : i = n + x /\ j = n + y
      BY <1>7, <2>4
    <3>2. u[i] = t[x] /\ u[j] = t[y]
      BY <1>6, <3>1
    <3>3. t[x] = t[y]
      BY <1>9, <3>2
    <3>4. x = y
      BY <1>4, <3>3
    <3> QED
      BY <3>1, <3>4
  <2> QED
    BY <2>1, <2>2, <2>3, <2>4
<1>10. ToSet(u) = A \cup B
  <2>1. ASSUME NEW x \in A \cup B PROVE \E i \in 1..n + k : u[i] = x
    BY <1>4, <1>5, <1>6
  <2>2. \A i \in 1..n + k : u[i] \in A \cup B
    BY <1>8
  <2> QED
    BY <1>3, <2>1, <2>2 DEF ToSet
<1>11. IsInjective(u)
  BY <1>3, <1>9 DEF IsInjective
<1> QED
  BY <1>2, <1>10, <1>11 DEF Recorre, u

(* What is left of one after its first element.                            *)
LEMMA RecorreResto ==
  ASSUME NEW A, NEW s, Recorre(s, A), s # <<>>
  PROVE  Head(s) \in A /\ Recorre(Tail(s), A \ {Head(s)})
<1> DEFINE n == Len(s)
           t == Tail(s)
<1>1. /\ s \in Seq(A) /\ n \in Nat /\ n > 0 /\ DOMAIN s = 1..n /\ Head(s) = s[1]
      /\ \A i \in 1..n : s[i] \in A
  <2>1. s \in Seq(A)
    BY DEF Recorre
  <2>2. n \in Nat /\ DOMAIN s = 1..n
    BY <2>1, LenProperties
  <2>3. n # 0
    BY <2>1, EmptySeq
  <2> QED
    BY <2>1, <2>2, <2>3, ElementOfSeq, HeadTailProperties
<1>2. /\ t \in Seq(A) /\ Len(t) = n - 1 /\ \A i \in 1..n - 1 : t[i] = s[i + 1]
  BY <1>1, HeadTailProperties
<1>3. DOMAIN t = 1..n - 1
  BY <1>2, LenProperties
<1>4. /\ \A i, j \in 1..n : s[i] = s[j] => i = j
      /\ \A a \in A : \E i \in 1..n : s[i] = a
  BY <1>1 DEF Recorre, IsInjective, ToSet
<1> HIDE DEF n, t
<1>5. \A i \in 1..n - 1 : i + 1 \in 1..n /\ i + 1 # 1
  BY <1>1
<1>6. \A i \in 1..n : i = 1 \/ \E j \in 1..n - 1 : i = j + 1
  <2> SUFFICES ASSUME NEW i \in 1..n, i # 1 PROVE \E j \in 1..n - 1 : i = j + 1
    OBVIOUS
  <2>1. i - 1 \in 1..n - 1 /\ i = (i - 1) + 1
    BY <1>1
  <2> QED
    BY <2>1
<1>7. 1 \in 1..n
  BY <1>1
<1>8. \A i \in 1..n - 1 : t[i] \in A \ {Head(s)}
  BY <1>1, <1>2, <1>4, <1>5, <1>7
<1>9. \A i, j \in 1..n - 1 : t[i] = t[j] => i = j
  <2> SUFFICES ASSUME NEW i \in 1..n - 1, NEW j \in 1..n - 1, t[i] = t[j] PROVE i = j
    OBVIOUS
  <2>2. s[i + 1] = s[j + 1] /\ i + 1 \in 1..n /\ j + 1 \in 1..n
    BY <1>2, <1>5
  <2>1. i + 1 = j + 1
    BY <1>4, <2>2
  <2> QED
    BY <2>1
<1>10. ASSUME NEW a \in A \ {Head(s)} PROVE \E i \in 1..n - 1 : t[i] = a
  <2>1. PICK i \in 1..n : s[i] = a /\ i # 1
    BY <1>1, <1>4
  <2>2. PICK j \in 1..n - 1 : i = j + 1
    BY <1>6, <2>1
  <2>3. t[j] = a
    BY <1>2, <2>1, <2>2
  <2> QED
    BY <2>3
<1>11. t \in Seq(A \ {Head(s)})
  <2>1. t \in [1..n - 1 -> A \ {Head(s)}]
    <3>1. t = [i \in 1..n - 1 |-> t[i]]
      BY <1>2, <1>3, LenProperties
    <3> QED
      BY <1>8, <3>1
  <2> QED
    BY <1>1, <1>2, <2>1, SeqDef
<1>12. IsInjective(t) /\ ToSet(t) = A \ {Head(s)}
  BY <1>3, <1>8, <1>9, <1>10 DEF IsInjective, ToSet
<1> QED
  BY <1>1, <1>7, <1>11, <1>12 DEF Recorre, t

(* The first of a concatenation is the first of the first.                 *)
LEMMA CabezaDe ==
  ASSUME NEW A, NEW B, NEW s, NEW t, Recorre(s, A), Recorre(t, B), s # <<>>
  PROVE  s \o t # <<>> /\ Head(s \o t) = Head(s)
<1>1. s \in Seq(A \cup B) /\ t \in Seq(A \cup B)
  <2>1. s \in Seq(A) /\ t \in Seq(B)
    BY DEF Recorre
  <2> QED
    BY <2>1, SeqMonotonic
<1>2. Len(s) \in Nat /\ Len(s) > 0 /\ Len(t) \in Nat
  BY <1>1, EmptySeq, LenProperties
<1>3. /\ s \o t \in Seq(A \cup B) /\ Len(s \o t) = Len(s) + Len(t)
      /\ \A i \in 1..Len(s) + Len(t) : (s \o t)[i] = IF i <= Len(s) THEN s[i] ELSE t[i - Len(s)]
  BY <1>1, ConcatProperties
<1>4. s \o t # <<>> /\ 1 \in 1..Len(s) + Len(t) /\ 1 <= Len(s)
  BY <1>2, <1>3, EmptySeq
<1>5. Head(s \o t) = (s \o t)[1] /\ Head(s) = s[1]
  BY <1>1, <1>3, <1>4, HeadTailProperties
<1> QED
  BY <1>3, <1>4, <1>5

(* The pipeline of a report runs each of its commands once: the common     *)
(* ones, and three more for the assigned country.                          *)
LEMMA OperacionesFacts ==
  ASSUME NEW r
  PROVE  /\ Recorre(Operaciones(r), Ops(r)) /\ Ops(r) \subseteq Operacion
         /\ Incr \in Ops(r) /\ \A n \in Dobles, m \in Magnitud : Op(n, m) \in Ops(r)
         /\ Xadd \in Ops(r) <=> pais[r] = Asignado
         /\ Operaciones(r) # <<>> /\ Head(Operaciones(r)) = Incr
<1> DEFINE C(n) == {Op(n, "planes"), Op(n, "ships")}
           comunes == <<Incr>> \o Cada("zincrby") \o Cada("hincrby") \o Cada("freq")
                        \o <<Op("max", "planes"), Op("min", "planes"), Op("max", "ships"), Op("min", "ships")>>
           cola == IF pais[r] = Asignado THEN <<Xadd>> \o Cada("hset") ELSE <<>>
           A == {Incr} \cup C("zincrby") \cup C("hincrby") \cup C("freq")
                  \cup {Op("max", "planes"), Op("min", "planes"), Op("max", "ships"), Op("min", "ships")}
           B == IF pais[r] = Asignado THEN {Xadd} \cup C("hset") ELSE {}
<1>1. \A n : Recorre(Cada(n), C(n))
  BY RecorreTuplas, OpIgual DEF Cada
<1>2. Recorre(comunes, A) /\ comunes # <<>> /\ Head(comunes) = Incr
  <2>1. {Incr} \cap C("zincrby") = {}
    BY OpIgual DEF Incr
  <2>2. ({Incr} \cup C("zincrby")) \cap C("hincrby") = {}
    BY OpIgual DEF Incr
  <2>3. ({Incr} \cup C("zincrby") \cup C("hincrby")) \cap C("freq") = {}
    BY OpIgual DEF Incr
  <2> DEFINE X == {Op("max", "planes"), Op("min", "planes"), Op("max", "ships"), Op("min", "ships")}
  <2>4. ({Incr} \cup C("zincrby") \cup C("hincrby") \cup C("freq")) \cap X = {}
    BY OpIgual DEF Incr
  <2>5. Recorre(<<Op("max", "planes"), Op("min", "planes"), Op("max", "ships"), Op("min", "ships")>>, X)
    BY RecorreTuplas, OpIgual
  <2>6. Recorre(<<Incr>>, {Incr})
    BY RecorreTuplas
  <2> HIDE DEF C, X
  <2>7. Recorre(<<Incr>> \o Cada("zincrby"), {Incr} \cup C("zincrby"))
    BY <1>1, <2>1, <2>6, RecorreJuntos
  <2>8. Recorre(<<Incr>> \o Cada("zincrby") \o Cada("hincrby"),
                {Incr} \cup C("zincrby") \cup C("hincrby"))
    BY <1>1, <2>2, <2>7, RecorreJuntos
  <2>9. Recorre(<<Incr>> \o Cada("zincrby") \o Cada("hincrby") \o Cada("freq"),
                {Incr} \cup C("zincrby") \cup C("hincrby") \cup C("freq"))
    BY <1>1, <2>3, <2>8, RecorreJuntos
  <2>10. <<Incr>> # <<>> /\ Head(<<Incr>>) = Incr
    OBVIOUS
  <2>11. /\ <<Incr>> \o Cada("zincrby") # <<>> /\ Head(<<Incr>> \o Cada("zincrby")) = Incr
    BY <1>1, <2>6, <2>10, CabezaDe
  <2>12. /\ <<Incr>> \o Cada("zincrby") \o Cada("hincrby") # <<>>
         /\ Head(<<Incr>> \o Cada("zincrby") \o Cada("hincrby")) = Incr
    BY <1>1, <2>7, <2>11, CabezaDe
  <2>13. /\ <<Incr>> \o Cada("zincrby") \o Cada("hincrby") \o Cada("freq") # <<>>
         /\ Head(<<Incr>> \o Cada("zincrby") \o Cada("hincrby") \o Cada("freq")) = Incr
    BY <1>1, <2>8, <2>12, CabezaDe
  <2>14. comunes # <<>> /\ Head(comunes) = Incr
    BY <2>5, <2>9, <2>13, CabezaDe
  <2>15. Recorre(comunes, A)
    BY <2>4, <2>5, <2>9, RecorreJuntos DEF X
  <2> QED
    BY <2>14, <2>15
<1>3. Recorre(cola, B)
  <2>1. CASE pais[r] = Asignado
    <3>1. {Xadd} \cap C("hset") = {} /\ Recorre(<<Xadd>>, {Xadd})
      BY RecorreTuplas, OpIgual DEF Xadd
    <3> HIDE DEF C
    <3>2. Recorre(<<Xadd>> \o Cada("hset"), {Xadd} \cup C("hset"))
      BY <1>1, <3>1, RecorreJuntos
    <3> QED
      BY <2>1, <3>2
  <2>2. CASE pais[r] # Asignado
    BY <2>2, RecorreTuplas
  <2> QED
    BY <2>1, <2>2
<1>4. A \cap ({Xadd} \cup C("hset")) = {} /\ B \subseteq {Xadd} \cup C("hset")
  BY OpIgual DEF Incr, Xadd
<1>5. Xadd \in B <=> pais[r] = Asignado
  BY OpIgual DEF Xadd
<1>6. /\ A \cup B \subseteq Operacion /\ Incr \in A
      /\ \A n \in Dobles, m \in Magnitud : Op(n, m) \in A
  <2>1. A \subseteq Operacion /\ B \subseteq Operacion
    BY DEF Operacion, Dobles, Magnitud
  <2>2. \A n \in Dobles, m \in Magnitud : Op(n, m) \in A
    BY DEF Dobles, Magnitud
  <2> QED
    BY <2>1, <2>2
<1>7. Operaciones(r) = comunes \o cola
  BY Zenon DEF Operaciones, Incr, Xadd
<1>8. Xadd \notin A
  BY <1>4
<1> HIDE DEF A, B, C, comunes, cola
<1>9. Recorre(comunes \o cola, A \cup B)
  <2>1. A \cap B = {}
    BY <1>4
  <2> QED
    BY <1>2, <1>3, <2>1, RecorreJuntos
<1>10. Ops(r) = A \cup B
  BY <1>7, <1>9 DEF Ops, Recorre
<1>11. Operaciones(r) # <<>> /\ Head(Operaciones(r)) = Incr
  BY <1>2, <1>3, <1>7, CabezaDe
<1> QED
  BY <1>5, <1>6, <1>7, <1>8, <1>9, <1>10, <1>11

(* The totals of the properties are these sums.                            *)
LEMMA TotalEsSuma ==
  ASSUME NEW S \in SUBSET Reporte, NEW m \in Magnitud
  PROVE  Total(S, m) = SumaDe([r \in Reporte |-> valor[r][m]], S)
<1> DEFINE g == [r \in Reporte |-> valor[r][m]]
           Ec(f) == f = [s \in SUBSET S |-> IF s = {} THEN 0
                    ELSE LET x == CHOOSE x \in s : TRUE IN valor[x][m] + f[s \ {x}]]
           F == CHOOSE f : Ec(f)
<1>1. Total(S, m) = F[S]
  BY DEF Total, MapThenSumSet, MapThenFoldSet
<1>2. IsFiniteSet(S) /\ \A x \in S : g[x] \in Int /\ g[x] = valor[x][m]
  BY ConsumerAssumption, FS_Subset
<1> HIDE DEF g
<1>3. ASSUME NEW f PROVE Ec(f) <=> EsSuma(S, g, f)
  <2>1. ASSUME NEW s \in SUBSET S
        PROVE  Suma1(g, f, s) = IF s = {} THEN 0
                    ELSE LET x == CHOOSE x \in s : TRUE IN valor[x][m] + f[s \ {x}]
    <3>1. CASE s = {}
      BY <3>1 DEF Suma1
    <3>2. CASE s # {}
      <4>1. PICK x \in s : x = CHOOSE y \in s : TRUE
        BY <3>2
      <4>2. Suma1(g, f, s) = g[x] + f[s \ {x}] /\ g[x] = valor[x][m]
        BY <1>2, <3>2, <4>1 DEF Suma1
      <4> QED
        BY <3>2, <4>1, <4>2
    <3> QED
      BY <3>1, <3>2
  <2>2. [s \in SUBSET S |-> Suma1(g, f, s)] =
          [s \in SUBSET S |-> IF s = {} THEN 0
                    ELSE LET x == CHOOSE x \in s : TRUE IN valor[x][m] + f[s \ {x}]]
    BY <2>1
  <2> QED
    BY <2>2 DEF EsSuma
<1> HIDE DEF Ec
<1>4. \E f : Ec(f)
  <2>1. PICK f : EsSuma(S, g, f)
    BY <1>2, SumaExiste
  <2>2. Ec(f)
    BY <1>3, <2>1
  <2> QED
    BY <2>2
<1>5. Ec(F)
  BY <1>4
<1>6. EsSuma(S, g, F)
  BY <1>3, <1>5
<1>7. F[S] = SumaDe(g, S)
  BY <1>2, <1>6, SumaUnica
<1> QED
  BY <1>1, <1>7 DEF g

----------------------------------------------------------------------------
(* How much a set of reports adds to each key, one report more.            *)
LEMMA MedidaMas ==
  ASSUME NEW S \in SUBSET Reporte, NEW r \in Reporte, r \notin S
  PROVE  /\ \A c : Cardinality(De(S \cup {r}, c)) =
                     Cardinality(De(S, c)) + IF c = pais[r] THEN 1 ELSE 0
         /\ \A m \in Magnitud : \A c : Total(De(S \cup {r}, c), m) =
                     Total(De(S, c), m) + IF c = pais[r] THEN valor[r][m] ELSE 0
         /\ \A m, v : Veces(S \cup {r}, m, v) =
                     Veces(S, m, v) + IF v = valor[r][m] THEN 1 ELSE 0
<1>1. \A T \in SUBSET Reporte : IsFiniteSet(T) /\ Cardinality(T) \in Nat
  BY ConsumerAssumption, FS_Subset, FS_CardinalityType
<1>2. \A T \in SUBSET Reporte : r \notin T => Cardinality(T \cup {r}) = Cardinality(T) + 1
  BY <1>1, FS_AddElement
<1>3. ASSUME NEW c PROVE /\ De(S, c) \in SUBSET Reporte /\ r \notin De(S, c)
                         /\ De(S \cup {r}, c) = IF c = pais[r] THEN De(S, c) \cup {r} ELSE De(S, c)
  BY DEF De
<1>4. ASSUME NEW c
      PROVE  Cardinality(De(S \cup {r}, c)) = Cardinality(De(S, c)) + IF c = pais[r] THEN 1 ELSE 0
  <2>1. Cardinality(De(S, c)) \in Nat
    BY <1>1, <1>3
  <2>2. CASE c = pais[r]
    <3>1. Cardinality(De(S, c) \cup {r}) = Cardinality(De(S, c)) + 1
      BY <1>2, <1>3
    <3> QED
      BY <1>3, <2>2, <3>1
  <2>3. CASE c # pais[r]
    <3>1. De(S \cup {r}, c) = De(S, c)
      BY <1>3, <2>3
    <3> QED
      BY <2>1, <2>3, <3>1
  <2> QED
    BY <2>2, <2>3
<1>5. ASSUME NEW m \in Magnitud, NEW c
      PROVE  Total(De(S \cup {r}, c), m) = Total(De(S, c), m) + IF c = pais[r] THEN valor[r][m] ELSE 0
  <2> DEFINE g == [x \in Reporte |-> valor[x][m]]
             T == De(S, c)
  <2>1. \A x \in Reporte : g[x] \in Int /\ g[x] = valor[x][m]
    BY ConsumerAssumption
  <2>2. T \in SUBSET Reporte /\ r \notin T
    BY <1>3
  <2> HIDE DEF g, T
  <2>3. IsFiniteSet(T) /\ IsFiniteSet(T \cup {r}) /\ T \cup {r} \in SUBSET Reporte
    BY <1>1, <2>2
  <2>4. SumaDe(g, T) \in Int
    BY <2>1, <2>2, <2>3, SumaQuita
  <2>5. SumaDe(g, T \cup {r}) = SumaDe(g, (T \cup {r}) \ {r}) + g[r]
    <3>1. \A x \in T \cup {r} : g[x] \in Int
      BY <2>1, <2>2
    <3>2. \A x \in T \cup {r} : SumaDe(g, T \cup {r}) = SumaDe(g, (T \cup {r}) \ {x}) + g[x]
      BY <2>3, <3>1, SumaQuita
    <3> QED
      BY <3>2
  <2>6. (T \cup {r}) \ {r} = T
    BY <2>2
  <2>7. Total(T, m) = SumaDe(g, T) /\ Total(T \cup {r}, m) = SumaDe(g, T \cup {r})
    BY <2>2, <2>3, TotalEsSuma DEF g
  <2>8. SumaDe(g, T \cup {r}) = SumaDe(g, T) + valor[r][m]
    BY <2>1, <2>5, <2>6
  <2>9. Total(T \cup {r}, m) = Total(T, m) + valor[r][m]
    BY <2>7, <2>8, Zenon
  <2>10. Total(T, m) = Total(T, m) + 0
    BY <2>4, <2>7
  <2>11. De(S \cup {r}, c) = IF c = pais[r] THEN T \cup {r} ELSE T
    BY <1>3 DEF T
  <2>12. CASE c = pais[r]
    BY <2>9, <2>11, <2>12 DEF T
  <2>13. CASE c # pais[r]
    BY <2>10, <2>11, <2>13 DEF T
  <2> QED
    BY <2>12, <2>13
<1>6. ASSUME NEW m, NEW v
      PROVE  Veces(S \cup {r}, m, v) = Veces(S, m, v) + IF v = valor[r][m] THEN 1 ELSE 0
  <2> DEFINE T == {x \in S : valor[x][m] = v}
  <2>1. T \in SUBSET Reporte /\ r \notin T /\ Cardinality(T) \in Nat
    BY <1>1
  <2>2. {x \in S \cup {r} : valor[x][m] = v} = IF v = valor[r][m] THEN T \cup {r} ELSE T
    OBVIOUS
  <2> HIDE DEF T
  <2>3. Cardinality({x \in S \cup {r} : valor[x][m] = v}) =
          Cardinality(T) + IF v = valor[r][m] THEN 1 ELSE 0
    <3>1. CASE v = valor[r][m]
      <4>1. Cardinality(T \cup {r}) = Cardinality(T) + 1
        BY <1>2, <2>1
      <4> QED
        BY <2>2, <3>1, <4>1
    <3>2. CASE v # valor[r][m]
      <4>1. {x \in S \cup {r} : valor[x][m] = v} = T
        BY <2>2, <3>2
      <4>2. Cardinality(T) = Cardinality(T) + 0
        BY <2>1
      <4> QED
        BY <3>2, <4>1, <4>2
    <3> QED
      BY <3>1, <3>2
  <2> QED
    BY <2>3 DEF Veces, T
<1> QED
  BY <1>4, <1>5, <1>6

(* And fewer reports add no more, to a total if no figure is negative.     *)
LEMMA MedidaMenos ==
  ASSUME NEW S \in SUBSET Reporte, NEW T \in SUBSET S
  PROVE  /\ \A c : /\ Cardinality(De(T, c)) \in Nat /\ Cardinality(De(S, c)) \in Nat
                   /\ Cardinality(De(T, c)) <= Cardinality(De(S, c))
         /\ \A m \in Magnitud : \A c :
              /\ Total(De(T, c), m) \in Int /\ Total(De(S, c), m) \in Int
              /\ SinNegativos(c, m) => Total(De(T, c), m) <= Total(De(S, c), m)
         /\ \A m, v : /\ Veces(T, m, v) \in Nat /\ Veces(S, m, v) \in Nat
                      /\ Veces(T, m, v) <= Veces(S, m, v)
<1>1. \A A \in SUBSET Reporte : /\ IsFiniteSet(A) /\ Cardinality(A) \in Nat
                                /\ \A B \in SUBSET A : Cardinality(B) <= Cardinality(A)
  BY ConsumerAssumption, FS_Subset, FS_CardinalityType
<1>2. \A c : De(S, c) \in SUBSET Reporte /\ De(T, c) \in SUBSET De(S, c) /\ De(T, c) \in SUBSET Reporte
  BY DEF De
<1>3. ASSUME NEW m \in Magnitud, NEW c
      PROVE  /\ Total(De(T, c), m) \in Int /\ Total(De(S, c), m) \in Int
             /\ SinNegativos(c, m) => Total(De(T, c), m) <= Total(De(S, c), m)
  <2> DEFINE g == [x \in Reporte |-> valor[x][m]]
  <2>1. \A x \in De(S, c) : g[x] \in Int
    BY <1>2, ConsumerAssumption
  <2>2. SinNegativos(c, m) => \A x \in De(S, c) : g[x] \in Nat
    BY <2>1 DEF SinNegativos, De
  <2>3. Total(De(T, c), m) = SumaDe(g, De(T, c)) /\ Total(De(S, c), m) = SumaDe(g, De(S, c))
    BY <1>2, TotalEsSuma
  <2> HIDE DEF g
  <2>4. \A x \in De(T, c) : g[x] \in Int
    BY <1>2, <2>1
  <2>5. SumaDe(g, De(S, c)) \in Int /\ SumaDe(g, De(T, c)) \in Int
    BY <1>1, <1>2, <2>1, <2>4, SumaQuita
  <2>6. SinNegativos(c, m) => SumaDe(g, De(T, c)) <= SumaDe(g, De(S, c))
    <3> HAVE SinNegativos(c, m)
    <3> QED
      BY <1>1, <1>2, <2>2, SumaMonotona
  <2> QED
    BY <2>3, <2>5, <2>6
<1>4. ASSUME NEW m, NEW v
      PROVE  /\ Veces(T, m, v) \in Nat /\ Veces(S, m, v) \in Nat
             /\ Veces(T, m, v) <= Veces(S, m, v)
  <2>1. {r \in S : valor[r][m] = v} \in SUBSET Reporte
        /\ {r \in T : valor[r][m] = v} \in SUBSET {r \in S : valor[r][m] = v}
        /\ {r \in T : valor[r][m] = v} \in SUBSET Reporte
    OBVIOUS
  <2> QED
    BY <1>1, <2>1 DEF Veces
<1> QED
  BY <1>1, <1>2, <1>3, <1>4

----------------------------------------------------------------------------
(* The Valkey keys, and what each command adds to each of them.            *)
Claves == {"count", "zset", "top", "freq", "max", "min", "ts", "tsmin", "mode"}
DBTipo(d) == /\ DOMAIN d = Claves
             /\ d.count \in [Pais -> Nat]
             /\ d.zset \in [Magnitud -> [Pais -> Int]] /\ d.top \in [Magnitud -> [Pais -> Int]]
             /\ d.freq \in [Magnitud -> [Valores -> Nat]]
             /\ d.max \in [Magnitud -> Int \cup {Nulo}] /\ d.min \in [Magnitud -> Int \cup {Nulo}]
             /\ d.ts \in Nat
Suma(b, x) == IF b THEN x ELSE 0
Efecto(d, e, o, r) ==
  /\ \A c \in Pais : e.count[c] = d.count[c] + Suma(o = Incr /\ c = pais[r], 1)
  /\ \A m \in Magnitud, c \in Pais :
       /\ e.zset[m][c] = d.zset[m][c] + Suma(o = Op("zincrby", m) /\ c = pais[r], valor[r][m])
       /\ e.top[m][c] = d.top[m][c] + Suma(o = Op("hincrby", m) /\ c = pais[r], valor[r][m])
  /\ \A m \in Magnitud, v \in Valores :
       e.freq[m][v] = d.freq[m][v] + Suma(o = Op("freq", m) /\ v = valor[r][m], 1)
  /\ e.ts = d.ts + Suma(o = Xadd, 1)
  /\ \A m \in Magnitud :
       /\ e.max[m] = IF o = Op("max", m) THEN maxScript(d.max[m], valor[r][m]) ELSE d.max[m]
       /\ e.min[m] = IF o = Op("min", m) THEN minScript(d.min[m], valor[r][m]) ELSE d.min[m]

(* The commands do what their names say and nothing else.                  *)
LEMMA AplicaEfecto ==
  ASSUME NEW d, DBTipo(d), NEW r \in Reporte, NEW o \in Operacion
  PROVE  DBTipo(Aplica(d, o, r)) /\ Efecto(d, Aplica(d, o, r), o, r)
<1> DEFINE e == Aplica(d, o, r)
           c0 == pais[r]
<1>1. c0 \in Pais /\ \A m \in Magnitud : valor[r][m] \in Int /\ valor[r][m] \in Valores
  BY ConsumerAssumption DEF Valores
<1>2. \A m, n : Op(n, m).op = n /\ Op(n, m).mag = m
  BY DEF Op
<1>3. CASE o = Incr
  <2>1. e = [d EXCEPT !.count[c0] = @ + 1]
    BY <1>2, <1>3 DEF Aplica, Incr
  <2>2. \A m \in Magnitud : \A n \in Dobles : o # Op(n, m)
    BY <1>3, OpIgual DEF Incr, Dobles
  <2>3. o # Xadd
    BY <1>3, OpIgual DEF Incr, Xadd
  <2> HIDE DEF e
  <2>4. DBTipo(e)
    BY <1>1, <2>1 DEF DBTipo, Claves
  <2>5. Efecto(d, e, o, r)
    BY <1>1, <1>3, <2>1, <2>2, <2>3 DEF DBTipo, Claves, Efecto, Suma, Dobles
  <2> QED
    BY <2>4, <2>5 DEF e
<1>4. CASE o = Xadd
  <2>1. e = [d EXCEPT !.ts = @ + 1]
    BY <1>2, <1>4 DEF Aplica, Xadd
  <2>2. \A m \in Magnitud : \A n \in Dobles : o # Op(n, m)
    BY <1>4, OpIgual DEF Xadd, Dobles
  <2>3. o # Incr
    BY <1>4, OpIgual DEF Incr, Xadd
  <2> HIDE DEF e
  <2>4. DBTipo(e)
    BY <1>1, <2>1 DEF DBTipo, Claves
  <2>5. Efecto(d, e, o, r)
    BY <1>1, <1>4, <2>1, <2>2, <2>3 DEF DBTipo, Claves, Efecto, Suma, Dobles
  <2> QED
    BY <2>4, <2>5 DEF e
<1>5. ASSUME NEW n \in Dobles \cup {"hset"}, NEW m0 \in Magnitud, o = Op(n, m0)
      PROVE  DBTipo(e) /\ Efecto(d, e, o, r)
  <2>0. o.op = n /\ o.mag = m0
    BY <1>2, <1>5
  <2>1. /\ o # Incr /\ o # Xadd
        /\ \A k, m : o = Op(k, m) <=> k = n /\ m = m0
    BY <1>5, OpIgual DEF Incr, Xadd, Dobles
  <2>2. CASE n = "zincrby"
    <3>1. e = [d EXCEPT !.zset[m0][c0] = @ + valor[r][m0]]
      BY <2>0, <2>2 DEF Aplica
    <3> HIDE DEF e
    <3>2. DBTipo(e)
      BY <1>1, <3>1 DEF DBTipo, Claves
    <3>3. Efecto(d, e, o, r)
      BY <1>1, <2>1, <2>2, <3>1 DEF DBTipo, Claves, Efecto, Suma
    <3> QED
      BY <3>2, <3>3
  <2>3. CASE n = "hincrby"
    <3>1. e = [d EXCEPT !.top[m0][c0] = @ + valor[r][m0]]
      BY <2>0, <2>3 DEF Aplica
    <3> HIDE DEF e
    <3>2. DBTipo(e)
      BY <1>1, <3>1 DEF DBTipo, Claves
    <3>3. Efecto(d, e, o, r)
      BY <1>1, <2>1, <2>3, <3>1 DEF DBTipo, Claves, Efecto, Suma
    <3> QED
      BY <3>2, <3>3
  <2>4. CASE n = "freq"
    <3>1. e = [d EXCEPT !.freq[m0][valor[r][m0]] = @ + 1]
      BY <2>0, <2>4 DEF Aplica
    <3> HIDE DEF e
    <3>2. DBTipo(e)
      BY <1>1, <3>1 DEF DBTipo, Claves
    <3>3. Efecto(d, e, o, r)
      BY <1>1, <2>1, <2>4, <3>1 DEF DBTipo, Claves, Efecto, Suma
    <3> QED
      BY <3>2, <3>3
  <2>5. CASE n = "max"
    <3>1. e = [d EXCEPT !.max[m0] = maxScript(@, valor[r][m0])]
      BY <2>0, <2>5 DEF Aplica
    <3> HIDE DEF e
    <3>2. DBTipo(e)
      BY <1>1, <3>1 DEF DBTipo, Claves, maxScript, minScript
    <3>3. Efecto(d, e, o, r)
      BY <1>1, <2>1, <2>5, <3>1 DEF DBTipo, Claves, Efecto, Suma
    <3> QED
      BY <3>2, <3>3
  <2>6. CASE n = "min"
    <3>1. e = [d EXCEPT !.min[m0] = minScript(@, valor[r][m0])]
      BY <2>0, <2>6 DEF Aplica
    <3> HIDE DEF e
    <3>2. DBTipo(e)
      BY <1>1, <3>1 DEF DBTipo, Claves, maxScript, minScript
    <3>3. Efecto(d, e, o, r)
      BY <1>1, <2>1, <2>6, <3>1 DEF DBTipo, Claves, Efecto, Suma
    <3> QED
      BY <3>2, <3>3
  <2>7. CASE n = "hset"
    <3>1. e = [d EXCEPT !.tsmin[m0] = valor[r][m0]]
      BY <2>0, <2>7 DEF Aplica
    <3> HIDE DEF e
    <3>2. DBTipo(e)
      BY <1>1, <3>1 DEF DBTipo, Claves
    <3>3. Efecto(d, e, o, r)
      BY <1>1, <2>1, <2>7, <3>1 DEF DBTipo, Claves, Efecto, Suma
    <3> QED
      BY <3>2, <3>3
  <2> QED
    BY <2>2, <2>3, <2>4, <2>5, <2>6, <2>7 DEF Dobles
<1> QED
  BY <1>3, <1>4, <1>5 DEF Operacion

----------------------------------------------------------------------------
(* What is left of a pipeline: commands of its report, each of them once;  *)
(* INCR is the first of all, so an error means that it is behind.          *)
Resta(h) == ToSet(h.resto)
Cola(h, f) == h.fase = "exec" =>
             /\ Recorre(h.resto, Resta(h)) /\ Resta(h) \subseteq Ops(h.rep)
             /\ Incr \in Resta(h) => Head(h.resto) = Incr
             /\ h.malo => f > 0 /\ Incr \notin Resta(h)
Colas == \A w \in Worker : Cola(hilo[w], fallos)

(* Without adverse events a process that runs is connected.                *)
Limpio == fallos = 0 /\ ~conectado => ~corre

(* A pipeline that starts.                                                 *)
LEMMA EmpiezaCola ==
  ASSUME NEW r, NEW f PROVE Cola(Empieza(r), f) /\ Resta(Empieza(r)) = Ops(r)
<1>1. /\ Empieza(r).rep = r /\ Empieza(r).fase = "exec" /\ Empieza(r).resto = Operaciones(r)
      /\ Empieza(r).malo = FALSE
  BY DEF Empieza, Ocioso
<1> QED
  BY <1>1, OperacionesFacts DEF Cola, Resta, Ops

(* A pipeline that runs its next command, with or without an error.        *)
LEMMA SigueCola ==
  ASSUME NEW h, DOMAIN h = Partes, h.fase = "exec", h.resto # <<>>, NEW f, Cola(h, f), NEW g,
         \/ g = [h EXCEPT !.resto = Tail(@)]
         \/ g = [h EXCEPT !.resto = Tail(@), !.malo = TRUE]
  PROVE  /\ g.rep = h.rep /\ g.fase = "exec" /\ Head(h.resto) \in Resta(h)
         /\ Resta(g) = Resta(h) \ {Head(h.resto)} /\ Incr \notin Resta(g)
         /\ Recorre(g.resto, Resta(g)) /\ Resta(g) \subseteq Ops(g.rep)
<1>1. g.rep = h.rep /\ g.fase = "exec" /\ g.resto = Tail(h.resto)
  BY DEF Partes
<1>2. /\ Recorre(h.resto, Resta(h)) /\ Resta(h) \subseteq Ops(h.rep)
      /\ Incr \in Resta(h) => Head(h.resto) = Incr
  BY DEF Cola
<1>3. Head(h.resto) \in Resta(h) /\ Recorre(Tail(h.resto), Resta(h) \ {Head(h.resto)})
  BY <1>2, RecorreResto
<1>4. Resta(g) = Resta(h) \ {Head(h.resto)}
  BY <1>1, <1>3 DEF Resta, Recorre
<1> QED
  BY <1>1, <1>2, <1>3, <1>4

(* One worker changes, and the adverse events do not decrease.             *)
LEMMA PasaCola ==
  ASSUME Forma, Colas, Tope, fallos' = fallos \/ fallos' = fallos + 1,
         NEW w \in Worker, NEW h, Pasa(w, h), Cola(h, fallos')
  PROVE  Colas'
<1>1. fallos > 0 => fallos' > 0
  BY DEF Tope
<1>2. \A x \in Worker : hilo'[x] = IF x = w THEN h ELSE hilo[x]
  BY DEF Forma, Pasa
<1>3. ASSUME NEW x \in Worker PROVE Cola(hilo'[x], fallos')
  <2>1. CASE x = w
    BY <1>2, <2>1
  <2>2. CASE x # w
    <3>1. Cola(hilo[x], fallos) /\ hilo'[x] = hilo[x]
      BY <1>2, <2>2 DEF Colas
    <3> QED
      BY <1>1, <3>1 DEF Cola
  <2> QED
    BY <2>1, <2>2
<1> QED
  BY <1>3 DEF Colas

(* Every step keeps the pipelines.                                         *)
LEMMA ColasStep == Forma /\ Tenencia /\ Tope /\ Colas /\ [Next]_vars => Colas'
<1> SUFFICES ASSUME Forma, Tenencia, Tope, Colas, [Next]_vars PROVE Colas'
  OBVIOUS
<1>0. /\ \A f : Cola(Ocioso, f)
      /\ \A h, f : h.fase # "exec" => Cola(h, f)
      /\ (hilo' = hilo /\ (fallos' = fallos \/ fallos' = fallos + 1)) => Colas'
      /\ hilo' = [x \in Worker |-> Ocioso] => Colas'
  <2>1. \A h, f : h.fase # "exec" => Cola(h, f)
    BY DEF Cola
  <2>2. Ocioso.fase = "ocioso"
    BY DEF Ocioso
  <2>3. \A f : Cola(Ocioso, f)
    BY <2>1, <2>2
  <2>4. ASSUME hilo' = hilo, fallos' = fallos \/ fallos' = fallos + 1 PROVE Colas'
    <3>1. fallos > 0 => fallos' > 0
      BY <2>4 DEF Tope
    <3> QED
      BY <2>4, <3>1 DEF Colas, Cola
  <2>5. hilo' = [x \in Worker |-> Ocioso] => Colas'
    BY <2>3 DEF Colas
  <2> QED
    BY <2>1, <2>3, <2>4, <2>5
<1>1. ASSUME NEW w \in Worker, Toma(w) PROVE Colas'
  <2>1. PICK r : UNCHANGED hilo \/ Pasa(w, Empieza(r))
    BY <1>1 DEF Toma
  <2>2. fallos' = fallos
    BY <1>1 DEF Toma
  <2>3. CASE UNCHANGED hilo
    BY <1>0, <2>2, <2>3
  <2>4. CASE Pasa(w, Empieza(r))
    BY <2>2, <2>4, EmpiezaCola, PasaCola
  <2> QED
    BY <2>1, <2>3, <2>4
<1>2. ASSUME NEW w \in Worker, Comando(w) PROVE Colas'
  <2>1. PICK h : h = hilo[w]
    OBVIOUS
  <2>2. DOMAIN h = Partes /\ h.fase = "exec" /\ h.resto # <<>> /\ Cola(h, fallos)
    BY <1>2, <2>1 DEF Comando, Forma, Bien, Colas
  <2>3. PICK g : g = [h EXCEPT !.resto = Tail(@)]
    OBVIOUS
  <2>4. Pasa(w, g) /\ fallos' = fallos
    BY <1>2, <2>1, <2>3 DEF Comando
  <2>5. /\ g.rep = h.rep /\ g.fase = "exec" /\ Head(h.resto) \in Resta(h)
        /\ Resta(g) = Resta(h) \ {Head(h.resto)} /\ Incr \notin Resta(g)
        /\ Recorre(g.resto, Resta(g)) /\ Resta(g) \subseteq Ops(g.rep)
    BY <2>2, <2>3, SigueCola
  <2>6. g.malo = h.malo
    BY <2>2, <2>3 DEF Partes
  <2>7. Cola(g, fallos)
    BY <2>2, <2>5, <2>6 DEF Cola
  <2> QED
    BY <2>4, <2>7, PasaCola
<1>3. ASSUME NEW w \in Worker, ComandoRechazado(w) PROVE Colas'
  <2>1. PICK h : h = hilo[w]
    OBVIOUS
  <2>2. DOMAIN h = Partes /\ h.fase = "exec" /\ h.resto # <<>> /\ Cola(h, fallos)
    BY <1>3, <2>1 DEF ComandoRechazado, Forma, Bien, Colas
  <2>3. PICK g : g = [h EXCEPT !.resto = Tail(@), !.malo = TRUE]
    OBVIOUS
  <2>4. Pasa(w, g) /\ fallos' = fallos + 1
    BY <1>3, <2>1, <2>3 DEF ComandoRechazado, Adverso
  <2>5. /\ g.rep = h.rep /\ g.fase = "exec" /\ Head(h.resto) \in Resta(h)
        /\ Resta(g) = Resta(h) \ {Head(h.resto)} /\ Incr \notin Resta(g)
        /\ Recorre(g.resto, Resta(g)) /\ Resta(g) \subseteq Ops(g.rep)
    BY <2>2, <2>3, SigueCola
  <2>6. fallos' > 0
    BY <2>4 DEF Tope
  <2>7. Cola(g, fallos')
    BY <2>5, <2>6 DEF Cola
  <2> QED
    BY <2>4, <2>7, PasaCola
<1>4. ASSUME NEW w \in Worker, ExecFalla(w) PROVE Colas'
  <2>1. fallos' = fallos + 1 /\ (Pasa(w, Ocioso) \/ Pasa(w, Empieza(hilo[w].rep)))
    BY <1>4 DEF ExecFalla, Adverso
  <2>2. CASE Pasa(w, Ocioso)
    BY <1>0, <2>1, <2>2, PasaCola
  <2>3. CASE Pasa(w, Empieza(hilo[w].rep))
    BY <2>1, <2>3, EmpiezaCola, PasaCola
  <2> QED
    BY <2>1, <2>2, <2>3
<1>5. ASSUME NEW w \in Worker, NEW h, Pasa(w, h), h.fase # "exec",
             fallos' = fallos \/ fallos' = fallos + 1
      PROVE  Colas'
  BY <1>0, <1>5, PasaCola
<1>6. ASSUME NEW w \in Worker, ExecVuelve(w) PROVE Colas'
  <2>1. fallos' = fallos
    BY <1>6 DEF ExecVuelve
  <2>2. DOMAIN hilo[w] = Partes
    BY DEF Forma, Bien
  <2>3. /\ [hilo[w] EXCEPT !.fase = "ack"].fase = "ack"
        /\ [hilo[w] EXCEPT !.fase = "moda", !.resto = <<"planes", "ships">>].fase = "moda"
        /\ Ocioso.fase = "ocioso"
    BY <2>2 DEF Partes, Ocioso
  <2>4. \/ Pasa(w, Ocioso) \/ Pasa(w, [hilo[w] EXCEPT !.fase = "ack"])
        \/ Pasa(w, [hilo[w] EXCEPT !.fase = "moda", !.resto = <<"planes", "ships">>])
    BY <1>6 DEF ExecVuelve, Exito, Sigue, Fallo
  <2> QED
    BY <1>5, <2>1, <2>3, <2>4
<1>7. ASSUME NEW w \in Worker, LeeModa(w) \/ PoneModa(w) PROVE Colas'
  <2>1. fallos' = fallos \/ fallos' = fallos + 1
    BY <1>7 DEF LeeModa, PoneModa, Adverso
  <2>2. DOMAIN hilo[w] = Partes /\ hilo[w].fase = "moda"
    BY <1>7 DEF Forma, Bien, LeeModa, PoneModa
  <2>3. Siguiente(hilo[w]).fase \in {"ack", "moda"} /\ \A v : [hilo[w] EXCEPT !.mejor = v].fase = "moda"
    BY <2>2 DEF Partes, Siguiente
  <2>4. Pasa(w, Siguiente(hilo[w])) \/ \E v : Pasa(w, [hilo[w] EXCEPT !.mejor = v])
    BY <1>7 DEF LeeModa, PoneModa
  <2> QED
    BY <1>5, <2>1, <2>3, <2>4
<1>8. ASSUME NEW w \in Worker, Ack(w) PROVE Colas'
  BY <1>0, <1>8, PasaCola DEF Ack
<1>9. ASSUME NEW w \in Worker, Termina(w) PROVE Colas'
  BY <1>0, <1>9 DEF Termina, Apaga
<1>10. CASE Publica
  BY <1>0, <1>10 DEF Publica
<1>11. CASE Entrega
  BY <1>0, <1>11 DEF Entrega
<1>12. CASE CaeConexion
  BY <1>0, <1>12 DEF CaeConexion, Adverso
<1>13. CASE CierraCanal
  BY <1>0, <1>13 DEF CierraCanal
<1>14. CASE Muere
  BY <1>0, <1>14 DEF Muere, Apaga
<1>15. CASE Arranca
  BY <1>0, <1>15 DEF Arranca
<1>16. CASE ReiniciaBroker
  BY <1>0, <1>16 DEF ReiniciaBroker, Adverso
<1>17. CASE UNCHANGED vars
  BY <1>0, <1>17 DEF vars
<1> QED
  BY <1>1, <1>2, <1>3, <1>4, <1>6, <1>7, <1>8,
     <1>9, <1>10, <1>11, <1>12, <1>13, <1>14, <1>15, <1>16, <1>17
     DEF Next, worker

(* Only an adverse event closes the connection of a process.               *)
LEMMA LimpioStep == Tenencia /\ Tope /\ Limpio /\ [Next]_vars => Limpio'
<1> SUFFICES ASSUME Tenencia, Tope, Limpio, [Next]_vars PROVE Limpio'
  OBVIOUS
<1> USE DEF Limpio, Tope
<1>1. ASSUME NEW w \in Worker, Toma(w) \/ Comando(w) \/ ExecVuelve(w) \/ LeeModa(w) \/ PoneModa(w)
                               \/ Ack(w) \/ ComandoRechazado(w) \/ ExecFalla(w)
      PROVE  Limpio'
  <2>1. UNCHANGED <<conectado, corre>> /\ (fallos' = fallos \/ fallos' = fallos + 1)
    BY <1>1 DEF Toma, Comando, ExecVuelve, LeeModa, PoneModa, Ack, ComandoRechazado, ExecFalla, Adverso
  <2> QED
    BY <2>1
<1>2. ASSUME NEW w \in Worker, Termina(w) PROVE Limpio'
  BY <1>2 DEF Termina, Apaga
<1>3. CASE Publica \/ Entrega \/ CierraCanal \/ Arranca \/ UNCHANGED vars
  BY <1>3 DEF Publica, Entrega, CierraCanal, Arranca, vars
<1>4. CASE CaeConexion \/ Muere \/ ReiniciaBroker
  BY <1>4 DEF CaeConexion, Muere, ReiniciaBroker, Adverso
<1> QED
  BY <1>1, <1>2, <1>3, <1>4 DEF Next, worker

----------------------------------------------------------------------------
(* The reports for which a command has been carried out for good: those    *)
(* acknowledged, and those of workers that are going to acknowledge them   *)
(* if nothing happens.                                                     *)
Pasado(h, o) == \/ h.fase \in {"moda", "ack"}
                \/ h.fase = "exec" /\ ~h.malo /\ o \notin Resta(h)
Llevan(o) == {r \in Reporte : conectado /\ \E w \in Worker : hilo[w].rep = r /\ Pasado(hilo[w], o)}
Contados(o) == {r \in asentados \cup Llevan(o) : o \in Ops(r)}

(* One worker changes: the others carry what they carried.                 *)
LEMMA LlevanUno ==
  ASSUME Forma, NEW w \in Worker, NEW h, Pasa(w, h), conectado' = conectado, NEW o
  PROVE  /\ \A r \in Llevan(o)' : \/ r \in Llevan(o)
                                  \/ r \in Reporte /\ h.rep = r /\ Pasado(h, o)
         /\ \A r \in Llevan(o) : \/ r \in Llevan(o)'
                                 \/ hilo[w].rep = r /\ Pasado(hilo[w], o)
         /\ conectado /\ h.rep \in Reporte /\ Pasado(h, o) => h.rep \in Llevan(o)'
         /\ conectado /\ hilo[w].rep \in Reporte /\ Pasado(hilo[w], o) => hilo[w].rep \in Llevan(o)
<1>1. \A x \in Worker : hilo'[x] = IF x = w THEN h ELSE hilo[x]
  BY DEF Forma, Pasa
<1>2. Llevan(o)' = {r \in Reporte : conectado /\ \E x \in Worker : hilo'[x].rep = r /\ Pasado(hilo'[x], o)}
  BY DEF Llevan, Pasado, Resta
<1>3. ASSUME NEW r \in Llevan(o)' PROVE r \in Llevan(o) \/ (r \in Reporte /\ h.rep = r /\ Pasado(h, o))
  <2>1. r \in Reporte /\ conectado
    BY <1>2, <1>3
  <2>2. PICK x \in Worker : hilo'[x].rep = r /\ Pasado(hilo'[x], o)
    BY <1>2, <1>3
  <2> QED
    BY <1>1, <2>1, <2>2 DEF Llevan
<1>4. ASSUME NEW r \in Llevan(o) PROVE r \in Llevan(o)' \/ (hilo[w].rep = r /\ Pasado(hilo[w], o))
  <2>1. r \in Reporte /\ conectado
    BY <1>4 DEF Llevan
  <2>2. PICK x \in Worker : hilo[x].rep = r /\ Pasado(hilo[x], o)
    BY <1>4 DEF Llevan
  <2> QED
    BY <1>1, <1>2, <2>1, <2>2
<1>5. conectado /\ h.rep \in Reporte /\ Pasado(h, o) => h.rep \in Llevan(o)'
  BY <1>1, <1>2
<1>6. conectado /\ hilo[w].rep \in Reporte /\ Pasado(hilo[w], o) => hilo[w].rep \in Llevan(o)
  BY DEF Llevan
<1> QED
  BY <1>3, <1>4, <1>5, <1>6

(* A worker that does not gain a command leaves no more behind it; one     *)
(* that does not lose any leaves the same.                                 *)
LEMMA ContadosUno ==
  ASSUME Forma, NEW w \in Worker, NEW h, Pasa(w, h), UNCHANGED <<conectado, asentados>>, NEW o,
         h.rep \in Reporte /\ Pasado(h, o) /\ o \in Ops(h.rep) => h.rep = hilo[w].rep /\ Pasado(hilo[w], o)
  PROVE  /\ Contados(o)' \subseteq Contados(o)
         /\ (Pasado(hilo[w], o) => h.rep = hilo[w].rep /\ Pasado(h, o)) => Contados(o)' = Contados(o)
<1>1. Contados(o)' = {r \in asentados \cup Llevan(o)' : o \in Ops(r)}
  BY DEF Contados
<1>2. ASSUME NEW r \in Contados(o)' PROVE r \in Contados(o)
  <2>1. CASE r \in asentados
    BY <1>1, <1>2, <2>1 DEF Contados
  <2>2. CASE r \in Llevan(o)'
    <3>1. r \in Reporte /\ o \in Ops(r) /\ conectado
      BY <1>1, <1>2, <2>2 DEF Llevan
    <3>2. r \in Llevan(o) \/ (h.rep = r /\ Pasado(h, o))
      BY <2>2, LlevanUno
    <3>3. r \in Llevan(o) \/ (hilo[w].rep = r /\ Pasado(hilo[w], o))
      BY <3>1, <3>2
    <3>4. r \in Llevan(o)
      BY <3>1, <3>3, LlevanUno
    <3> QED
      BY <3>1, <3>4 DEF Contados
  <2> QED
    BY <1>1, <1>2, <2>1, <2>2
<1>3. ASSUME Pasado(hilo[w], o) => h.rep = hilo[w].rep /\ Pasado(h, o), NEW r \in Contados(o)
      PROVE  r \in Contados(o)'
  <2>1. CASE r \in asentados
    BY <1>1, <1>3, <2>1 DEF Contados
  <2>2. CASE r \in Llevan(o)
    <3>1. r \in Reporte /\ o \in Ops(r) /\ conectado
      BY <1>3, <2>2 DEF Llevan, Contados
    <3>2. r \in Llevan(o)' \/ (hilo[w].rep = r /\ Pasado(hilo[w], o))
      BY <2>2, LlevanUno
    <3>3. r \in Llevan(o)' \/ (h.rep = r /\ Pasado(h, o))
      BY <1>3, <3>2
    <3>4. r \in Llevan(o)'
      BY <3>1, <3>3, LlevanUno
    <3> QED
      BY <1>1, <3>1, <3>4
  <2> QED
    BY <1>3, <2>1, <2>2 DEF Contados
<1> QED
  BY <1>2, <1>3

(* Nobody carries anything when the connection is closed.                  *)
LEMMA ContadosCerrado ==
  ASSUME asentados' = asentados, ~conectado' \/ EnMano' = {}, NEW o
  PROVE  /\ Contados(o)' \subseteq Contados(o)
         /\ ~conectado \/ EnMano = {} => Contados(o)' = Contados(o)
<1>0. \A r \in Reporte : r # Nulo
  BY ConsumerAssumption
<1>1. Llevan(o)' = {}
  <2> SUFFICES ASSUME NEW r \in Llevan(o)' PROVE FALSE
    OBVIOUS
  <2>1. PICK w \in Worker : conectado' /\ r \in Reporte /\ hilo'[w].rep = r
    BY DEF Llevan
  <2>2. r \in EnMano'
    BY <1>0, <2>1 DEF EnMano
  <2> QED
    BY <2>1, <2>2
<1>2. ASSUME ~conectado \/ EnMano = {} PROVE Llevan(o) = {}
  <2> SUFFICES ASSUME NEW r \in Llevan(o) PROVE FALSE
    OBVIOUS
  <2>1. PICK w \in Worker : conectado /\ r \in Reporte /\ hilo[w].rep = r
    BY DEF Llevan
  <2>2. r \in EnMano
    BY <1>0, <2>1 DEF EnMano
  <2> QED
    BY <1>2, <2>1, <2>2
<1> QED
  BY <1>1, <1>2 DEF Contados

(* The keys that the properties are about.                                 *)
DBIgual == /\ db'.count = db.count /\ db'.zset = db.zset /\ db'.top = db.top
           /\ db'.freq = db.freq /\ db'.max = db.max /\ db'.min = db.min /\ db'.ts = db.ts
(* What a step that runs no command does to them and to the counted.       *)
Mengua == /\ DBIgual /\ (fallos' = fallos \/ fallos' = fallos + 1)
          /\ \A o \in Operacion : /\ Contados(o)' \subseteq Contados(o)
                                  /\ fallos' = fallos => Contados(o)' = Contados(o)

(* One worker goes on, with the same commands behind it.                   *)
LEMMA ContadosIgual ==
  ASSUME Forma, UNCHANGED <<conectado, asentados>>, NEW o,
         hilo' = hilo \/ \E w \in Worker : \E h : /\ Pasa(w, h) /\ h.rep = hilo[w].rep
                                                  /\ Pasado(hilo[w], o) <=> Pasado(h, o)
  PROVE  Contados(o)' = Contados(o)
<1>1. CASE hilo' = hilo
  BY <1>1 DEF Contados, Llevan, Pasado, Resta
<1>2. ASSUME NEW w \in Worker, NEW h, Pasa(w, h), h.rep = hilo[w].rep,
             Pasado(hilo[w], o) <=> Pasado(h, o)
      PROVE  Contados(o)' = Contados(o)
  BY <1>2, ContadosUno
<1> QED
  BY <1>1, <1>2

(* Every step but that of a command leaves the keys alone, and the counted *)
(* as they were unless something adverse happened.                         *)
LEMMA MenguaStep ==
  ASSUME Forma, Reparto, Tenencia, Tope, Colas, DBTipo(db), [Next]_vars
  PROVE  (\E w \in Worker : Comando(w)) \/ Mengua
<1>1. ASSUME NEW w \in Worker, Toma(w) PROVE Mengua
  <2>1. PICK r \in bandeja : (Descarta(r) /\ UNCHANGED hilo) \/ (Pasa(w, Empieza(r)) /\ UNCHANGED broker)
    BY <1>1 DEF Toma
  <2>2. UNCHANGED <<conectado, db, fallos>> /\ asentados' = asentados /\ hilo[w].fase = "ocioso"
    BY <1>1, <2>1 DEF Toma, Descarta, broker
  <2>3. ASSUME NEW o PROVE Contados(o)' = Contados(o)
    <3>1. CASE UNCHANGED hilo
      BY <2>2, <3>1, ContadosIgual
    <3>2. CASE Pasa(w, Empieza(r))
      <4>1. Empieza(r).fase = "exec" /\ Empieza(r).rep = r /\ Resta(Empieza(r)) = Ops(r)
        BY EmpiezaCola DEF Empieza, Ocioso
      <4>2. o \in Ops(r) => ~Pasado(Empieza(r), o)
        BY <4>1 DEF Pasado
      <4>3. ~Pasado(hilo[w], o)
        BY <2>2 DEF Pasado
      <4> QED
        BY <2>2, <3>2, <4>1, <4>2, <4>3, ContadosUno
    <3> QED
      BY <2>1, <3>1, <3>2
  <2> QED
    BY <2>2, <2>3 DEF Mengua, DBIgual
<1>2. ASSUME NEW w \in Worker, ComandoRechazado(w) PROVE Mengua
  <2>1. PICK g : g = [hilo[w] EXCEPT !.resto = Tail(@), !.malo = TRUE]
    OBVIOUS
  <2>2. g.malo = TRUE /\ g.fase = "exec"
    BY <1>2, <2>1 DEF ComandoRechazado, Forma, Bien, Partes
  <2>3. Pasa(w, g) /\ UNCHANGED <<conectado, db>> /\ asentados' = asentados /\ fallos' = fallos + 1
    BY <1>2, <2>1 DEF ComandoRechazado, Adverso, broker
  <2>4. ASSUME NEW o PROVE Contados(o)' \subseteq Contados(o)
    <3>1. ~Pasado(g, o)
      BY <2>2 DEF Pasado
    <3> QED
      BY <2>3, <3>1, ContadosUno
  <2>5. fallos' # fallos
    BY <2>3 DEF Tope
  <2> QED
    BY <2>3, <2>4, <2>5 DEF Mengua, DBIgual
<1>3. ASSUME NEW w \in Worker, ExecFalla(w) PROVE Mengua
  <2>1. UNCHANGED <<conectado, db>> /\ asentados' = asentados /\ fallos' = fallos + 1 /\ fallos' # fallos
    BY <1>3 DEF ExecFalla, Adverso, Tope, Devuelve, broker
  <2>2. Pasa(w, Ocioso) \/ Pasa(w, Empieza(hilo[w].rep))
    BY <1>3 DEF ExecFalla
  <2>3. ASSUME NEW o PROVE Contados(o)' \subseteq Contados(o)
    <3>1. CASE Pasa(w, Ocioso)
      <4>1. Ocioso.fase = "ocioso"
        BY DEF Ocioso
      <4>2. ~Pasado(Ocioso, o)
        BY <4>1 DEF Pasado
      <4> QED
        BY <2>1, <3>1, <4>2, ContadosUno
    <3>2. CASE Pasa(w, Empieza(hilo[w].rep))
      <4> DEFINE g == Empieza(hilo[w].rep)
      <4>1. g.fase = "exec" /\ g.rep = hilo[w].rep /\ Resta(g) = Ops(hilo[w].rep)
        BY EmpiezaCola DEF Empieza, Ocioso
      <4> HIDE DEF g
      <4>2. o \in Ops(g.rep) => ~Pasado(g, o)
        BY <4>1 DEF Pasado
      <4>3. Pasa(w, g)
        BY <3>2 DEF g
      <4> QED
        BY <2>1, <4>2, <4>3, ContadosUno
    <3> QED
      BY <2>2, <3>1, <3>2
  <2> QED
    BY <2>1, <2>3 DEF Mengua, DBIgual
<1>4. ASSUME NEW w \in Worker, ExecVuelve(w) PROVE Mengua
  <2>1. UNCHANGED <<conectado, db, fallos>> /\ asentados' = asentados
    BY <1>4 DEF ExecVuelve, Exito, Fallo, Devuelve, broker
  <2>2. hilo[w].fase = "exec" /\ hilo[w].resto = <<>> /\ DOMAIN hilo[w] = Partes
    BY <1>4 DEF ExecVuelve, Forma, Bien
  <2>3. ASSUME NEW o PROVE Contados(o)' = Contados(o)
    <3>1. CASE hilo[w].malo
      <4>1. Pasa(w, Ocioso)
        BY <1>4, <3>1 DEF ExecVuelve, Fallo
      <4>2. Ocioso.fase = "ocioso"
        BY DEF Ocioso
      <4>3. ~Pasado(Ocioso, o) /\ ~Pasado(hilo[w], o)
        BY <2>2, <3>1, <4>2 DEF Pasado
      <4> QED
        BY <2>1, <4>1, <4>3, ContadosUno
    <3>2. CASE ~hilo[w].malo
      <4>1. PICK h : /\ Pasa(w, h)
                     /\ \/ h = [hilo[w] EXCEPT !.fase = "ack"]
                        \/ h = [hilo[w] EXCEPT !.fase = "moda", !.resto = <<"planes", "ships">>]
        BY <1>4, <3>2 DEF ExecVuelve, Exito, Sigue
      <4>2. h.rep = hilo[w].rep /\ h.fase \in {"moda", "ack"}
        BY <2>2, <4>1 DEF Partes
      <4>3. Resta(hilo[w]) = {}
        BY <2>2 DEF Resta, ToSet
      <4>4. Pasado(hilo[w], o) /\ Pasado(h, o)
        BY <2>2, <3>2, <4>2, <4>3 DEF Pasado
      <4> QED
        BY <2>1, <4>1, <4>2, <4>4, ContadosIgual
    <3> QED
      BY <3>1, <3>2
  <2> QED
    BY <2>1, <2>3 DEF Mengua, DBIgual
<1>5. ASSUME NEW w \in Worker, LeeModa(w) \/ PoneModa(w) PROVE Mengua
  <2>1. UNCHANGED conectado /\ asentados' = asentados /\ (fallos' = fallos \/ fallos' = fallos + 1)
    BY <1>5 DEF LeeModa, PoneModa, Adverso, broker
  <2>2. DBIgual
    <3>1. db' = db \/ \E x, m : db' = [db EXCEPT !.mode[m] = x]
      BY <1>5 DEF LeeModa, PoneModa
    <3> QED
      BY <3>1 DEF DBIgual, DBTipo, Claves
  <2>3. /\ hilo[w].fase = "moda" /\ DOMAIN hilo[w] = Partes
        /\ hilo[w].resto \in {<<"planes", "ships">>, <<"ships">>}
    BY <1>5 DEF LeeModa, PoneModa, Forma, Bien
  <2>4. PICK h : Pasa(w, h) /\ (h = Siguiente(hilo[w]) \/ \E v : h = [hilo[w] EXCEPT !.mejor = v])
    BY <1>5 DEF LeeModa, PoneModa
  <2>5. h.rep = hilo[w].rep /\ h.fase \in {"moda", "ack"}
    BY <2>3, <2>4 DEF Siguiente, Partes
  <2>6. \A o : Pasado(hilo[w], o) /\ Pasado(h, o)
    BY <2>3, <2>5 DEF Pasado
  <2>7. ASSUME NEW o PROVE Contados(o)' = Contados(o)
    BY <2>1, <2>4, <2>5, <2>6, ContadosIgual
  <2> QED
    BY <2>1, <2>2, <2>7 DEF Mengua
<1>6. ASSUME NEW w \in Worker, Ack(w) PROVE Mengua
  <2>1. /\ UNCHANGED <<conectado, db, fallos>> /\ hilo[w].fase = "ack" /\ Pasa(w, Ocioso)
        /\ asentados' = asentados \cup ({hilo[w].rep} \cap sinAck)
    BY <1>6 DEF Ack, Asienta, Responde
  <2>2. hilo[w].rep \in Reporte /\ hilo[w].rep \in EnMano
    BY <2>1, ConsumerAssumption DEF Forma, Bien, EnMano
  <2>3. ASSUME NEW o PROVE Contados(o)' = Contados(o)
    <3>1. Ocioso.fase = "ocioso" /\ Pasado(hilo[w], o)
      BY <2>1 DEF Ocioso, Pasado
    <3>2. ~Pasado(Ocioso, o)
      BY <3>1 DEF Pasado
    <3>3. /\ \A r \in Llevan(o)' : r \in Llevan(o)
          /\ \A r \in Llevan(o) : r \in Llevan(o)' \/ hilo[w].rep = r
          /\ conectado => hilo[w].rep \in Llevan(o)
      <4>1. Forma /\ Pasa(w, Ocioso) /\ conectado' = conectado
        BY <2>1
      <4> QED
        BY <2>2, <3>1, <3>2, <4>1, LlevanUno
    <3>4. CASE conectado
      <4>1. asentados' = asentados \cup {hilo[w].rep}
        BY <2>1, <2>2, <3>4 DEF Tenencia
      <4> QED
        BY <3>3, <3>4, <4>1 DEF Contados
    <3>5. CASE ~conectado
      <4>1. asentados' = asentados
        BY <2>1, <3>5 DEF Tenencia
      <4>2. Llevan(o) = {} /\ Llevan(o)' = {}
        BY <2>1, <3>5 DEF Llevan
      <4> QED
        BY <4>1, <4>2 DEF Contados
    <3> QED
      BY <3>4, <3>5
  <2> QED
    BY <2>1, <2>3 DEF Mengua, DBIgual
<1>7. ASSUME NEW w \in Worker, Termina(w) PROVE Mengua
  <2>1. UNCHANGED <<db, fallos>> /\ asentados' = asentados /\ ~conectado /\ ~conectado'
    BY <1>7 DEF Termina, Apaga, broker
  <2>2. \A o : Contados(o)' = Contados(o)
    BY <2>1, ContadosCerrado
  <2> QED
    BY <2>1, <2>2 DEF Mengua, DBIgual
<1>8. CASE Publica \/ Entrega \/ CierraCanal \/ UNCHANGED vars
  <2>1. UNCHANGED <<db, fallos, conectado, hilo>> /\ asentados' = asentados
    BY <1>8 DEF Publica, Entrega, CierraCanal, vars, broker
  <2>2. \A o : Contados(o)' = Contados(o)
    BY <2>1, ContadosIgual
  <2> QED
    BY <2>1, <2>2 DEF Mengua, DBIgual
<1>9. CASE Arranca
  <2>1. UNCHANGED <<db, fallos>> /\ asentados' = asentados /\ EnMano = {} /\ EnMano' = {}
    BY <1>9 DEF Arranca, broker, Tenencia, EnMano
  <2>2. \A o : Contados(o)' = Contados(o)
    BY <2>1, ContadosCerrado
  <2> QED
    BY <2>1, <2>2 DEF Mengua, DBIgual
<1>10. CASE CaeConexion \/ Muere \/ ReiniciaBroker
  <2>1. db' = db /\ fallos' = fallos + 1 /\ asentados' = asentados /\ ~conectado'
    BY <1>10 DEF CaeConexion, Muere, ReiniciaBroker, Adverso, Apaga, Reencola
  <2>2. fallos' # fallos
    BY <2>1 DEF Tope
  <2>3. \A o : Contados(o)' \subseteq Contados(o)
    BY <2>1, ContadosCerrado
  <2> QED
    BY <2>1, <2>2, <2>3 DEF Mengua, DBIgual
<1> QED
  BY <1>1, <1>2, <1>3, <1>4, <1>5, <1>6, <1>7, <1>8, <1>9, <1>10 DEF Next, worker

----------------------------------------------------------------------------
(* A command that is carried out: its report is counted for it, unless the *)
(* connection to the broker is gone or another command was rejected.       *)
LEMMA ComandoCuenta ==
  ASSUME Forma, Reparto, Tenencia, Tope, Colas, Limpio, NEW w \in Worker, Comando(w),
         NEW o0, o0 = Head(hilo[w].resto), NEW r, r = hilo[w].rep
  PROVE  /\ o0 \in Operacion /\ o0 \in Ops(r) /\ r \in Reporte /\ r \in EnMano
         /\ db' = Aplica(db, o0, r) /\ fallos' = fallos
         /\ \A o : o # o0 => Contados(o)' = Contados(o)
         /\ \/ conectado /\ r \notin Contados(o0) /\ Contados(o0)' = Contados(o0) \cup {r}
            \/ Contados(o0)' = Contados(o0) /\ fallos > 0 /\ (conectado => o0 # Incr)
<1>1. PICK h : h = hilo[w]
  OBVIOUS
<1>2. /\ DOMAIN h = Partes /\ h.fase = "exec" /\ h.resto # <<>> /\ Cola(h, fallos)
      /\ r \in Reporte /\ r \in EnMano /\ h.rep = r
  BY <1>1, ConsumerAssumption DEF Comando, Forma, Bien, Colas, EnMano
<1>3. PICK g : g = [h EXCEPT !.resto = Tail(@)]
  OBVIOUS
<1>4. /\ Pasa(w, g) /\ fallos' = fallos /\ UNCHANGED <<conectado, asentados>>
      /\ db' = Aplica(db, o0, r)
  BY <1>1, <1>3 DEF Comando, broker
<1>5. /\ g.rep = r /\ g.fase = "exec" /\ o0 \in Resta(h)
      /\ Resta(g) = Resta(h) \ {o0} /\ Incr \notin Resta(g)
  BY <1>1, <1>2, <1>3, SigueCola
<1>6. g.malo = h.malo
  BY <1>2, <1>3 DEF Partes
<1>7. o0 \in Operacion /\ o0 \in Ops(r)
  <2>1. Resta(h) \subseteq Ops(r)
    BY <1>2 DEF Cola
  <2> QED
    BY <1>5, <2>1, OperacionesFacts
<1>8. \A o : Pasado(g, o) <=> Pasado(h, o) \/ (o = o0 /\ ~h.malo)
  BY <1>2, <1>5, <1>6 DEF Pasado
<1>9. ASSUME NEW o, o # o0 PROVE Contados(o)' = Contados(o)
  <2>1. Pasado(g, o) <=> Pasado(h, o)
    BY <1>8, <1>9
  <2> QED
    BY <1>1, <1>2, <1>4, <1>5, <2>1, ContadosIgual
<1>10. ~Pasado(h, o0)
  BY <1>2, <1>5 DEF Pasado
<1>11. r \notin asentados
  BY <1>2 DEF Tenencia, Reparto
<1>12. CASE conectado /\ ~h.malo
  <2>1. r \notin Llevan(o0)
    <3>1. \A x \in Worker : hilo[x].rep = r => x = w
      BY <1>1, <1>2, ConsumerAssumption DEF Tenencia
    <3> QED
      BY <1>1, <1>10, <3>1 DEF Llevan
  <2>2. Pasado(g, o0)
    BY <1>8, <1>12
  <2>3. /\ \A q \in Llevan(o0)' : q \in Llevan(o0) \/ q = r
        /\ \A q \in Llevan(o0) : q \in Llevan(o0)'
        /\ r \in Llevan(o0)'
    <3>1. conectado' = conectado
      BY <1>4
    <3>2. \A q \in Llevan(o0)' : q \in Llevan(o0) \/ g.rep = q
      BY <1>4, <3>1, LlevanUno
    <3>3. \A q \in Llevan(o0) : q \in Llevan(o0)' \/ (h.rep = q /\ Pasado(h, o0))
      BY <1>1, <1>4, <3>1, LlevanUno
    <3>4. r \in Llevan(o0)'
      BY <1>2, <1>4, <1>5, <1>12, <2>2, <3>1, LlevanUno
    <3> QED
      BY <1>5, <1>10, <3>2, <3>3, <3>4
  <2>4. Contados(o0)' = {q \in asentados \cup Llevan(o0)' : o0 \in Ops(q)}
    BY <1>4 DEF Contados
  <2>5. Contados(o0)' = Contados(o0) \cup {r}
    BY <1>7, <2>3, <2>4 DEF Contados
  <2> QED
    BY <1>2, <1>4, <1>7, <1>9, <1>11, <1>12, <2>1, <2>5 DEF Contados
<1>13. CASE ~(conectado /\ ~h.malo)
  <2>1. Contados(o0)' = Contados(o0)
    <3>1. CASE h.malo
      <4>1. Pasado(g, o0) <=> Pasado(h, o0)
        BY <1>8, <3>1
      <4> QED
        BY <1>1, <1>2, <1>4, <1>5, <4>1, ContadosIgual
    <3>2. CASE ~conectado
      <4>1. asentados' = asentados /\ ~conectado'
        BY <1>4, <3>2
      <4> QED
        BY <3>2, <4>1, ContadosCerrado
    <3> QED
      BY <1>13, <3>1, <3>2
  <2>2. fallos > 0 /\ (conectado => o0 # Incr)
    <3>1. CASE h.malo
      BY <1>2, <1>5, <3>1 DEF Cola
    <3>2. CASE ~conectado
      <4>1. corre
        BY <1>2 DEF Tenencia
      <4> QED
        BY <3>2, <4>1 DEF Limpio, Tope
    <3> QED
      BY <1>13, <3>1, <3>2
  <2> QED
    BY <1>2, <1>4, <1>7, <1>9, <2>1, <2>2
<1> QED
  BY <1>12, <1>13

(* The keys at the start, and their types through every step.              *)
LEMMA DBTipoInit == Init => DBTipo(db)
BY DEF Init, DBTipo, VacioDB, Claves

(* Every step keeps the types of the keys.                                 *)
LEMMA DBTipoStep ==
  ASSUME Forma, Reparto, Tenencia, Tope, Colas, Limpio, DBTipo(db), [Next]_vars
  PROVE  DBTipo(db')
<1>1. ASSUME NEW w \in Worker, Comando(w) PROVE DBTipo(db')
  <2>1. PICK o, r : o = Head(hilo[w].resto) /\ r = hilo[w].rep
    OBVIOUS
  <2>2. o \in Operacion /\ r \in Reporte /\ db' = Aplica(db, o, r)
    BY <1>1, <2>1, ComandoCuenta
  <2> QED
    BY <2>2, AplicaEfecto
<1>2. CASE ~\E w \in Worker : Comando(w)
  <2>1. db' = db \/ \E x, m : db' = [db EXCEPT !.mode[m] = x]
    BY <1>2 DEF Next, vars, worker, Publica, Entrega, CaeConexion, CierraCanal, Muere, Arranca,
           ReiniciaBroker, Toma, ExecVuelve, LeeModa, PoneModa, Ack, Termina, ComandoRechazado, ExecFalla
  <2> QED
    BY <2>1 DEF DBTipo, Claves
<1> QED
  BY <1>1, <1>2

----------------------------------------------------------------------------
(* Each key holds at least what the reports counted for its command add up *)
(* to, and exactly that if nothing adverse has happened.  Of a key that    *)
(* adds figures the first half needs that none is negative.                *)
Acumula(x, y, f) == x >= y /\ (f = 0 => x = y)
AcumulaCifras(c, m, x, y, f) == (SinNegativos(c, m) => x >= y) /\ (f = 0 => x = y)
SumasDe(d, C, f) ==
  /\ \A c \in Pais : Acumula(d.count[c], Cardinality(De(C[Incr], c)), f)
  /\ \A m \in Magnitud, c \in Pais :
       /\ AcumulaCifras(c, m, d.zset[m][c], Total(De(C[Op("zincrby", m)], c), m), f)
       /\ AcumulaCifras(c, m, d.top[m][c], Total(De(C[Op("hincrby", m)], c), m), f)
  /\ \A m \in Magnitud, v \in Valores : Acumula(d.freq[m][v], Veces(C[Op("freq", m)], m, v), f)
  /\ Acumula(d.ts, Cardinality(C[Xadd]), f)
Cuenta == [o \in Operacion |-> Contados(o)]
Sumas == SumasDe(db, Cuenta, fallos)

(* The commands are commands.                                              *)
LEMMA Comandos ==
  /\ Incr \in Operacion /\ Xadd \in Operacion
  /\ \A n \in Dobles, m \in Magnitud : Op(n, m) \in Operacion
  /\ "zincrby" \in Dobles /\ "hincrby" \in Dobles /\ "freq" \in Dobles
  /\ "max" \in Dobles /\ "min" \in Dobles
BY DEF Operacion, Dobles

(* Only reports are counted.                                               *)
LEMMA CuentaTipo == Reparto => Cuenta \in [Operacion -> SUBSET Reporte]
<1> SUFFICES ASSUME Reparto PROVE \A o \in Operacion : Contados(o) \in SUBSET Reporte
  BY DEF Cuenta
<1> QED
  BY DEF Reparto, Contados, Llevan

(* Forgetting reports, with one adverse event more.                        *)
LEMMA SumasMenos ==
  ASSUME NEW d, NEW e, DBTipo(d), NEW C \in [Operacion -> SUBSET Reporte],
         NEW E \in [Operacion -> SUBSET Reporte], NEW f \in Nat, NEW g \in Nat,
         e.count = d.count, e.zset = d.zset, e.top = d.top, e.freq = d.freq, e.ts = d.ts,
         g = f \/ g = f + 1,
         \A o \in Operacion : E[o] \subseteq C[o] /\ (g = f => E[o] = C[o]),
         SumasDe(d, C, f)
  PROVE  SumasDe(e, E, g)
<1>1. ASSUME NEW x \in Nat, NEW y \in Nat, NEW z \in Nat, Acumula(x, y, f), z <= y, g = f => z = y
      PROVE  Acumula(x, z, g)
  BY <1>1 DEF Acumula
<1>2. \A o \in Operacion : C[o] \in SUBSET Reporte /\ E[o] \in SUBSET C[o]
  OBVIOUS
<1>3. ASSUME NEW c \in Pais PROVE Acumula(e.count[c], Cardinality(De(E[Incr], c)), g)
  <2>1. d.count[c] \in Nat /\ Acumula(d.count[c], Cardinality(De(C[Incr], c)), f)
    BY DEF DBTipo, SumasDe
  <2>2. C[Incr] \in SUBSET Reporte /\ E[Incr] \in SUBSET C[Incr] /\ (g = f => E[Incr] = C[Incr])
    BY <1>2, Comandos
  <2>3. /\ Cardinality(De(E[Incr], c)) \in Nat /\ Cardinality(De(C[Incr], c)) \in Nat
        /\ Cardinality(De(E[Incr], c)) <= Cardinality(De(C[Incr], c))
    BY <2>2, MedidaMenos
  <2> QED
    BY <1>1, <2>1, <2>2, <2>3
<1>4. ASSUME NEW m \in Magnitud, NEW c \in Pais, NEW n \in {"zincrby", "hincrby"},
             NEW x \in Int, AcumulaCifras(c, m, x, Total(De(C[Op(n, m)], c), m), f)
      PROVE  AcumulaCifras(c, m, x, Total(De(E[Op(n, m)], c), m), g)
  <2>1. PICK o \in Operacion : o = Op(n, m)
    BY Comandos
  <2>2. C[o] \in SUBSET Reporte /\ E[o] \in SUBSET C[o] /\ (g = f => E[o] = C[o])
    BY <1>2
  <2>3. PICK a, b : a = Total(De(C[o], c), m) /\ b = Total(De(E[o], c), m)
    OBVIOUS
  <2>4. a \in Int /\ b \in Int /\ (SinNegativos(c, m) => b <= a) /\ (g = f => b = a)
    BY <2>2, <2>3, MedidaMenos
  <2>5. AcumulaCifras(c, m, x, a, f) /\ x \in Int
    BY <1>4, <2>1, <2>3
  <2>6. AcumulaCifras(c, m, x, b, g)
    BY <2>4, <2>5 DEF AcumulaCifras
  <2> QED
    BY <2>1, <2>3, <2>6
<1>5. ASSUME NEW m \in Magnitud, NEW v \in Valores
      PROVE  Acumula(e.freq[m][v], Veces(E[Op("freq", m)], m, v), g)
  <2>1. PICK o \in Operacion : o = Op("freq", m)
    BY Comandos
  <2>2. C[o] \in SUBSET Reporte /\ E[o] \in SUBSET C[o] /\ (g = f => E[o] = C[o])
    BY <1>2
  <2>3. Veces(E[o], m, v) \in Nat /\ Veces(C[o], m, v) \in Nat /\ Veces(E[o], m, v) <= Veces(C[o], m, v)
    BY <2>2, MedidaMenos
  <2>4. d.freq[m][v] \in Nat /\ Acumula(d.freq[m][v], Veces(C[o], m, v), f)
    BY <2>1 DEF DBTipo, SumasDe
  <2> QED
    BY <1>1, <2>1, <2>2, <2>3, <2>4
<1>6. Acumula(e.ts, Cardinality(E[Xadd]), g)
  <2>1. d.ts \in Nat /\ Acumula(d.ts, Cardinality(C[Xadd]), f)
    BY DEF DBTipo, SumasDe
  <2>2. C[Xadd] \in SUBSET Reporte /\ E[Xadd] \in SUBSET C[Xadd] /\ (g = f => E[Xadd] = C[Xadd])
    BY <1>2, Comandos
  <2>3. /\ Cardinality(E[Xadd]) \in Nat /\ Cardinality(C[Xadd]) \in Nat
        /\ Cardinality(E[Xadd]) <= Cardinality(C[Xadd])
    BY <2>2, ConsumerAssumption, FS_Subset, FS_CardinalityType
  <2> QED
    BY <1>1, <2>1, <2>2, <2>3
<1>7. \A m \in Magnitud, c \in Pais :
        /\ AcumulaCifras(c, m, e.zset[m][c], Total(De(E[Op("zincrby", m)], c), m), g)
        /\ AcumulaCifras(c, m, e.top[m][c], Total(De(E[Op("hincrby", m)], c), m), g)
  <2> TAKE m \in Magnitud, c \in Pais
  <2>1. /\ d.zset[m][c] \in Int /\ d.top[m][c] \in Int
        /\ AcumulaCifras(c, m, d.zset[m][c], Total(De(C[Op("zincrby", m)], c), m), f)
        /\ AcumulaCifras(c, m, d.top[m][c], Total(De(C[Op("hincrby", m)], c), m), f)
    BY DEF DBTipo, SumasDe
  <2> QED
    BY <1>4, <2>1
<1> QED
  BY <1>3, <1>5, <1>6, <1>7 DEF SumasDe

(* One command more, counted or after an adverse event.                    *)
LEMMA SumasMas ==
  ASSUME NEW d, NEW e, DBTipo(d), NEW o \in Operacion, NEW r \in Reporte, Efecto(d, e, o, r),
         NEW C \in [Operacion -> SUBSET Reporte], NEW E \in [Operacion -> SUBSET Reporte],
         NEW f \in Nat, \A q \in Operacion : q # o => E[q] = C[q],
         \/ r \notin C[o] /\ E[o] = C[o] \cup {r}
         \/ E[o] = C[o] /\ f > 0,
         SumasDe(d, C, f)
  PROVE  SumasDe(e, E, f)
<1>1. ASSUME NEW a \in Nat, NEW b \in Nat, NEW k \in Nat, NEW u, NEW z, u = a + k,
             z = b + k \/ (z = b /\ f > 0), Acumula(a, b, f)
      PROVE  Acumula(u, z, f)
  BY <1>1 DEF Acumula
<1>2. \A q \in Operacion : C[q] \in SUBSET Reporte /\ C[q] \in SUBSET C[q]
  OBVIOUS
<1>3. \A m \in Magnitud : /\ valor[r][m] \in Int
                          /\ SinNegativos(pais[r], m) => valor[r][m] >= 0
  BY ConsumerAssumption DEF SinNegativos, De
<1>0. ASSUME NEW c, NEW m, NEW a \in Int, NEW b \in Int, NEW k \in Int, NEW u, NEW z, u = a + k,
             SinNegativos(c, m) => k >= 0, z = b + k \/ (z = b /\ f > 0),
             AcumulaCifras(c, m, a, b, f)
      PROVE  AcumulaCifras(c, m, u, z, f)
  BY <1>0 DEF AcumulaCifras
<1>4. ASSUME NEW c \in Pais PROVE Acumula(e.count[c], Cardinality(De(E[Incr], c)), f)
  <2>1. d.count[c] \in Nat /\ Acumula(d.count[c], Cardinality(De(C[Incr], c)), f)
    BY DEF DBTipo, SumasDe
  <2>2. C[Incr] \in SUBSET Reporte /\ C[Incr] \in SUBSET C[Incr] /\ Incr \in Operacion
    BY <1>2, Comandos
  <2>3. Cardinality(De(C[Incr], c)) \in Nat
    BY <2>2, MedidaMenos
  <2>4. e.count[c] = d.count[c] + Suma(o = Incr /\ c = pais[r], 1)
    BY DEF Efecto
  <2>5. CASE o = Incr /\ c = pais[r] /\ r \notin C[o]
    <3>1. E[Incr] = C[Incr] \cup {r} \/ (E[Incr] = C[Incr] /\ f > 0)
      BY <2>5
    <3>0. 1 \in Nat
      OBVIOUS
    <3>2. Cardinality(De(C[Incr] \cup {r}, c)) = Cardinality(De(C[Incr], c)) + 1
      <4>1. r \notin C[Incr] /\ c = pais[r]
        BY <2>5
      <4>2. \A j : Cardinality(De(C[Incr] \cup {r}, j)) =
                Cardinality(De(C[Incr], j)) + IF j = pais[r] THEN 1 ELSE 0
        BY <2>2, <4>1, MedidaMas, Zenon
      <4> QED
        BY <4>1, <4>2
    <3>3. e.count[c] = d.count[c] + 1
      BY <2>4, <2>5 DEF Suma
    <3>4. \/ Cardinality(De(E[Incr], c)) = Cardinality(De(C[Incr], c)) + 1
          \/ Cardinality(De(E[Incr], c)) = Cardinality(De(C[Incr], c)) /\ f > 0
      BY <3>1, <3>2
    <3> QED
      BY <1>1, <2>1, <2>3, <3>0, <3>3, <3>4
  <2>6. CASE o = Incr /\ c = pais[r] /\ r \in C[o]
    <3>1. E[Incr] = C[Incr] /\ f > 0 /\ e.count[c] = d.count[c] + 1
      BY <2>4, <2>6 DEF Suma
    <3> QED
      BY <1>1, <2>1, <2>3, <3>1
  <2>7. CASE o # Incr \/ c # pais[r]
    <3>1. e.count[c] = d.count[c] + 0
      BY <2>4, <2>7 DEF Suma
    <3>2. De(E[Incr], c) = De(C[Incr], c)
      BY <2>2, <2>7 DEF De
    <3> QED
      BY <1>1, <2>1, <2>3, <3>1, <3>2
  <2> QED
    BY <2>5, <2>6, <2>7, Zenon
<1>5. ASSUME NEW m \in Magnitud, NEW c \in Pais, NEW n \in {"zincrby", "hincrby"},
             NEW x \in Int, NEW y, y = x + Suma(o = Op(n, m) /\ c = pais[r], valor[r][m]),
             AcumulaCifras(c, m, x, Total(De(C[Op(n, m)], c), m), f)
      PROVE  AcumulaCifras(c, m, y, Total(De(E[Op(n, m)], c), m), f)
  <2>1. PICK q \in Operacion : q = Op(n, m)
    BY Comandos
  <2>2. C[q] \in SUBSET Reporte /\ C[q] \in SUBSET C[q]
    BY <1>2
  <2>3. Total(De(C[q], c), m) \in Int
    BY <2>2, MedidaMenos
  <2>5. CASE o = q /\ c = pais[r] /\ r \notin C[o]
    <3>1. E[q] = C[q] \cup {r} \/ (E[q] = C[q] /\ f > 0)
      BY <2>5
    <3>2. Total(De(C[q] \cup {r}, c), m) = Total(De(C[q], c), m) + valor[r][m]
      <4>1. r \notin C[q] /\ c = pais[r]
        BY <2>5
      <4>2. \A k \in Magnitud : \A j : Total(De(C[q] \cup {r}, j), k) =
                Total(De(C[q], j), k) + IF j = pais[r] THEN valor[r][k] ELSE 0
        BY <2>2, <4>1, MedidaMas, Zenon
      <4>3. Total(De(C[q] \cup {r}, c), m) = Total(De(C[q], c), m) + IF c = pais[r] THEN valor[r][m] ELSE 0
        BY <4>2, Zenon
      <4> QED
        BY <4>1, <4>3
    <3>3. y = x + valor[r][m]
      BY <1>5, <2>1, <2>5 DEF Suma
    <3>4. \/ Total(De(E[q], c), m) = Total(De(C[q], c), m) + valor[r][m]
          \/ Total(De(E[q], c), m) = Total(De(C[q], c), m) /\ f > 0
      BY <3>1, <3>2
    <3>5. x \in Int /\ AcumulaCifras(c, m, x, Total(De(C[q], c), m), f)
      BY <1>5, <2>1
    <3>6. PICK k \in Int : k = valor[r][m] /\ (SinNegativos(c, m) => k >= 0)
      BY <1>3, <2>5
    <3>7. PICK a, b : a = Total(De(C[q], c), m) /\ b = Total(De(E[q], c), m)
      OBVIOUS
    <3>8. /\ y = x + k /\ (b = a + k \/ (b = a /\ f > 0)) /\ a \in Int
          /\ AcumulaCifras(c, m, x, a, f) /\ x \in Int
      BY <2>3, <3>3, <3>4, <3>5, <3>6, <3>7
    <3>9. AcumulaCifras(c, m, y, b, f)
      BY <1>0, <3>6, <3>8
    <3> QED
      BY <2>1, <3>7, <3>9
  <2>6. CASE o = q /\ c = pais[r] /\ r \in C[o]
    <3>1. E[q] = C[q] /\ f > 0 /\ y = x + valor[r][m]
      BY <1>5, <2>1, <2>6 DEF Suma
    <3>2. PICK k \in Int : k = valor[r][m] /\ (SinNegativos(c, m) => k >= 0)
      BY <1>3, <2>6
    <3>3. PICK a \in Int : a = Total(De(C[q], c), m) /\ AcumulaCifras(c, m, x, a, f) /\ x \in Int
      BY <1>5, <2>1, <2>3
    <3>4. y = x + k /\ f > 0 /\ AcumulaCifras(c, m, x, a, f) /\ x \in Int
      BY <3>1, <3>2, <3>3
    <3>5. AcumulaCifras(c, m, y, a, f)
      BY <1>0, <3>2, <3>4
    <3> QED
      BY <2>1, <3>1, <3>3, <3>5
  <2>7. CASE o # q \/ c # pais[r]
    <3>1. y = x + 0
      BY <1>5, <2>1, <2>7 DEF Suma
    <3>2. De(E[q], c) = De(C[q], c)
      BY <2>2, <2>7 DEF De
    <3>3. Total(De(E[q], c), m) = Total(De(C[q], c), m) + 0
      BY <2>3, <3>2
    <3>4. x \in Int /\ 0 \in Int /\ 0 >= 0 /\ AcumulaCifras(c, m, x, Total(De(C[q], c), m), f)
      BY <1>5, <2>1
    <3>5. AcumulaCifras(c, m, y, Total(De(E[q], c), m), f)
      BY <1>0, <2>3, <3>1, <3>3, <3>4
    <3> QED
      BY <2>1, <3>5
  <2> QED
    BY <2>5, <2>6, <2>7
<1>6. ASSUME NEW m \in Magnitud, NEW v \in Valores
      PROVE  Acumula(e.freq[m][v], Veces(E[Op("freq", m)], m, v), f)
  <2>1. PICK q \in Operacion : q = Op("freq", m)
    BY Comandos
  <2>2. C[q] \in SUBSET Reporte /\ C[q] \in SUBSET C[q]
    BY <1>2
  <2>3. Veces(C[q], m, v) \in Nat
    BY <2>2, MedidaMenos
  <2>4. /\ d.freq[m][v] \in Nat /\ Acumula(d.freq[m][v], Veces(C[q], m, v), f)
        /\ e.freq[m][v] = d.freq[m][v] + Suma(o = q /\ v = valor[r][m], 1)
    BY <2>1 DEF DBTipo, SumasDe, Efecto
  <2>5. CASE o = q /\ v = valor[r][m] /\ r \notin C[o]
    <3>1. E[q] = C[q] \cup {r} \/ (E[q] = C[q] /\ f > 0)
      BY <2>5
    <3>0. 1 \in Nat
      OBVIOUS
    <3>2. Veces(C[q] \cup {r}, m, v) = Veces(C[q], m, v) + 1
      <4>1. r \notin C[q] /\ v = valor[r][m]
        BY <2>5
      <4>2. Veces(C[q] \cup {r}, m, v) = Veces(C[q], m, v) + IF v = valor[r][m] THEN 1 ELSE 0
        <5>1. \A n, u : Veces(C[q] \cup {r}, n, u) = Veces(C[q], n, u) + IF u = valor[r][n] THEN 1 ELSE 0
          BY <2>2, <4>1, MedidaMas, Zenon
        <5> QED
          BY <5>1, Zenon
      <4> QED
        BY <4>1, <4>2
    <3>3. e.freq[m][v] = d.freq[m][v] + 1
      BY <2>4, <2>5 DEF Suma
    <3>4. \/ Veces(E[q], m, v) = Veces(C[q], m, v) + 1
          \/ Veces(E[q], m, v) = Veces(C[q], m, v) /\ f > 0
      BY <3>1, <3>2
    <3>5. Acumula(e.freq[m][v], Veces(E[q], m, v), f)
      BY <1>1, <2>3, <2>4, <3>0, <3>3, <3>4
    <3> QED
      BY <2>1, <3>5
  <2>6. CASE o = q /\ v = valor[r][m] /\ r \in C[o]
    <3>1. E[q] = C[q] /\ f > 0 /\ e.freq[m][v] = d.freq[m][v] + 1
      BY <2>4, <2>6 DEF Suma
    <3> QED
      BY <1>1, <2>1, <2>3, <2>4, <3>1
  <2>7. CASE o # q \/ v # valor[r][m]
    <3>1. e.freq[m][v] = d.freq[m][v] + 0
      BY <2>4, <2>7 DEF Suma
    <3>2. {x \in E[q] : valor[x][m] = v} = {x \in C[q] : valor[x][m] = v}
      BY <2>2, <2>7
    <3>3. Veces(E[q], m, v) = Veces(C[q], m, v)
      BY <3>2 DEF Veces
    <3> QED
      BY <1>1, <2>1, <2>3, <2>4, <3>1, <3>3
  <2> QED
    BY <2>5, <2>6, <2>7
<1>7. Acumula(e.ts, Cardinality(E[Xadd]), f)
  <2>1. /\ d.ts \in Nat /\ Acumula(d.ts, Cardinality(C[Xadd]), f)
        /\ e.ts = d.ts + Suma(o = Xadd, 1)
    BY DEF DBTipo, SumasDe, Efecto
  <2>2. C[Xadd] \in SUBSET Reporte
    BY <1>2, Comandos
  <2>3. Cardinality(C[Xadd]) \in Nat /\ (r \notin C[Xadd] => Cardinality(C[Xadd] \cup {r}) = Cardinality(C[Xadd]) + 1)
    BY <2>2, ConsumerAssumption, FS_Subset, FS_CardinalityType, FS_AddElement
  <2>4. CASE o = Xadd
    <3>1. e.ts = d.ts + 1 /\ 1 \in Nat
      BY <2>1, <2>4 DEF Suma
    <3>2. (r \notin C[Xadd] /\ E[Xadd] = C[Xadd] \cup {r}) \/ (E[Xadd] = C[Xadd] /\ f > 0)
      BY <2>4
    <3>3. \/ Cardinality(E[Xadd]) = Cardinality(C[Xadd]) + 1
          \/ Cardinality(E[Xadd]) = Cardinality(C[Xadd]) /\ f > 0
      BY <2>3, <3>2
    <3> QED
      BY <1>1, <2>1, <2>3, <3>1, <3>3
  <2>5. CASE o # Xadd
    <3>1. e.ts = d.ts + 0 /\ E[Xadd] = C[Xadd]
      BY <2>1, <2>5, Comandos DEF Suma
    <3> QED
      BY <1>1, <2>1, <2>3, <3>1
  <2> QED
    BY <2>4, <2>5
<1>8. \A m \in Magnitud, c \in Pais :
        /\ AcumulaCifras(c, m, e.zset[m][c], Total(De(E[Op("zincrby", m)], c), m), f)
        /\ AcumulaCifras(c, m, e.top[m][c], Total(De(E[Op("hincrby", m)], c), m), f)
  <2> TAKE m \in Magnitud, c \in Pais
  <2>1. /\ d.zset[m][c] \in Int /\ d.top[m][c] \in Int
        /\ AcumulaCifras(c, m, d.zset[m][c], Total(De(C[Op("zincrby", m)], c), m), f)
        /\ AcumulaCifras(c, m, d.top[m][c], Total(De(C[Op("hincrby", m)], c), m), f)
    BY DEF DBTipo, SumasDe
  <2>2. /\ e.zset[m][c] = d.zset[m][c] + Suma(o = Op("zincrby", m) /\ c = pais[r], valor[r][m])
        /\ e.top[m][c] = d.top[m][c] + Suma(o = Op("hincrby", m) /\ c = pais[r], valor[r][m])
    BY DEF Efecto
  <2> QED
    BY <1>5, <2>1, <2>2
<1> QED
  BY <1>4, <1>6, <1>7, <1>8 DEF SumasDe

(* Nothing is counted at the start.                                        *)
LEMMA SumasInit == Init => Sumas
<1> SUFFICES ASSUME Init PROVE Sumas
  OBVIOUS
<1>1. \A o \in Operacion : Cuenta[o] = {}
  BY DEF Init, Cuenta, Contados, Llevan
<1>2. \A c : De({}, c) = {}
  BY DEF De
<1>3. \A m \in Magnitud : Total({}, m) = 0
  <2>1. ASSUME NEW g PROVE SumaDe(g, {}) = 0
    BY FS_EmptySet, SumaQuita
  <2> QED
    BY <2>1, TotalEsSuma
<1>4. \A m, v : Veces({}, m, v) = 0
  <2>1. \A m, v : {r \in {} : valor[r][m] = v} = {}
    OBVIOUS
  <2> QED
    BY <2>1, FS_EmptySet DEF Veces
<1>5. /\ Cardinality({}) = 0
      /\ \A c \in Pais : db.count[c] = 0
      /\ \A m \in Magnitud, c \in Pais : db.zset[m][c] = 0 /\ db.top[m][c] = 0
      /\ \A m \in Magnitud, v \in Valores : db.freq[m][v] = 0
      /\ db.ts = 0
  BY FS_EmptySet DEF Init, VacioDB
<1>6. Acumula(0, 0, fallos) /\ \A c, m : AcumulaCifras(c, m, 0, 0, fallos)
  BY DEF Acumula, AcumulaCifras
<1>7. \A c \in Pais : Acumula(db.count[c], Cardinality(De(Cuenta[Incr], c)), fallos)
  BY <1>1, <1>2, <1>5, <1>6, Comandos
<1>8. \A m \in Magnitud, c \in Pais :
        /\ AcumulaCifras(c, m, db.zset[m][c], Total(De(Cuenta[Op("zincrby", m)], c), m), fallos)
        /\ AcumulaCifras(c, m, db.top[m][c], Total(De(Cuenta[Op("hincrby", m)], c), m), fallos)
  <2> TAKE m \in Magnitud, c \in Pais
  <2>1. Cuenta[Op("zincrby", m)] = {} /\ Cuenta[Op("hincrby", m)] = {}
    BY <1>1, Comandos
  <2> QED
    BY <1>2, <1>3, <1>5, <1>6, <2>1
<1>9. \A m \in Magnitud, v \in Valores : Acumula(db.freq[m][v], Veces(Cuenta[Op("freq", m)], m, v), fallos)
  <2> TAKE m \in Magnitud, v \in Valores
  <2>1. Cuenta[Op("freq", m)] = {}
    BY <1>1, Comandos
  <2>2. db.freq[m][v] = 0 /\ Veces({}, m, v) = 0
    BY <1>4, <1>5
  <2> QED
    BY <1>6, <2>1, <2>2
<1>10. Acumula(db.ts, Cardinality(Cuenta[Xadd]), fallos)
  BY <1>1, <1>5, <1>6, Comandos
<1> QED
  BY <1>7, <1>8, <1>9, <1>10 DEF Sumas, SumasDe

(* Every step keeps the sums.                                              *)
LEMMA SumasStep ==
  ASSUME Forma, Reparto, Reparto', Tenencia, Tope, Tope', Colas, Limpio, DBTipo(db), Sumas, [Next]_vars
  PROVE  Sumas'
<1>1. PICK C, E : C = Cuenta /\ E = Cuenta'
  OBVIOUS
<1>2. /\ C \in [Operacion -> SUBSET Reporte] /\ \A o \in Operacion : C[o] = Contados(o)
      /\ SumasDe(db, C, fallos) /\ fallos \in Nat
  BY <1>1, CuentaTipo DEF Cuenta, Sumas, Tope
<1>3. /\ E \in [Operacion -> SUBSET Reporte] /\ \A o \in Operacion : E[o] = Contados(o)'
      /\ fallos' \in Nat
  <2>1. E = [o \in Operacion |-> Contados(o)']
    BY <1>1 DEF Cuenta
  <2>2. ASSUME NEW o PROVE Contados(o)' \in SUBSET Reporte
    BY DEF Reparto, Contados, Llevan
  <2> QED
    BY <2>1, <2>2 DEF Tope
<1>4. ASSUME NEW w \in Worker, Comando(w) PROVE SumasDe(db', E, fallos')
  <2>1. PICK o, r : o = Head(hilo[w].resto) /\ r = hilo[w].rep
    OBVIOUS
  <2>2. /\ o \in Operacion /\ r \in Reporte /\ db' = Aplica(db, o, r) /\ fallos' = fallos
        /\ \A q : q # o => Contados(q)' = Contados(q)
        /\ \/ r \notin Contados(o) /\ Contados(o)' = Contados(o) \cup {r}
           \/ Contados(o)' = Contados(o) /\ fallos > 0
    BY <1>4, <2>1, ComandoCuenta
  <2>3. Efecto(db, db', o, r)
    BY <2>2, AplicaEfecto
  <2>4. /\ \A q \in Operacion : q # o => E[q] = C[q]
        /\ \/ r \notin C[o] /\ E[o] = C[o] \cup {r}
           \/ E[o] = C[o] /\ fallos > 0
    BY <1>2, <1>3, <2>2
  <2> QED
    BY <1>2, <1>3, <2>2, <2>3, <2>4, SumasMas
<1>5. ASSUME Mengua PROVE SumasDe(db', E, fallos')
  <2>1. /\ db'.count = db.count /\ db'.zset = db.zset /\ db'.top = db.top
        /\ db'.freq = db.freq /\ db'.ts = db.ts
        /\ fallos' = fallos \/ fallos' = fallos + 1
    BY <1>5 DEF Mengua, DBIgual
  <2>2. \A o \in Operacion : E[o] \subseteq C[o] /\ (fallos' = fallos => E[o] = C[o])
    BY <1>2, <1>3, <1>5 DEF Mengua
  <2> QED
    <3>1. PICK e, g : e = db' /\ g = fallos'
      OBVIOUS
    <3>2. /\ g \in Nat /\ (g = fallos \/ g = fallos + 1)
          /\ e.count = db.count /\ e.zset = db.zset /\ e.top = db.top
          /\ e.freq = db.freq /\ e.ts = db.ts
          /\ \A o \in Operacion : E[o] \subseteq C[o] /\ (g = fallos => E[o] = C[o])
      BY <1>3, <2>1, <2>2, <3>1
    <3>3. SumasDe(e, E, g)
      BY <1>2, <1>3, <3>2, SumasMenos
    <3> QED
      BY <3>1, <3>3
<1>6. SumasDe(db', E, fallos')
  <2>1. (\E w \in Worker : Comando(w)) \/ Mengua
    BY MenguaStep
  <2> QED
    BY <1>4, <1>5, <2>1
<1> QED
  <2>1. SumasDe(db, Cuenta, fallos)'
    BY <1>1, <1>6 DEF SumasDe
  <2> QED
    BY <2>1 DEF Sumas

(* The invariant of the keys.                                              *)
Datos == Colas /\ Limpio /\ DBTipo(db) /\ Sumas

(* It holds at the start.                                                  *)
LEMMA DatosInit == Init => Datos
<1> SUFFICES ASSUME Init PROVE Datos
  OBVIOUS
<1>1. Colas
  <2>1. \A w \in Worker : hilo[w].fase # "exec"
    BY DEF Init, Ocioso
  <2> QED
    BY <2>1 DEF Colas, Cola
<1>2. Limpio
  BY DEF Init, Limpio
<1> QED
  BY <1>1, <1>2, DBTipoInit, SumasInit DEF Datos

(* Every step keeps it,                                                    *)
LEMMA DatosStep == IInv /\ IInv' /\ Datos /\ [Next]_vars => Datos'
<1> SUFFICES ASSUME IInv, IInv', Datos, [Next]_vars PROVE Datos'
  OBVIOUS
<1>1. Forma /\ Reparto /\ Reparto' /\ Tenencia /\ Tope /\ Tope'
  BY DEF IInv
<1>2. Colas /\ Limpio /\ DBTipo(db) /\ Sumas
  BY DEF Datos
<1>3. Colas'
  BY <1>1, <1>2, ColasStep
<1>4. Limpio'
  BY <1>1, <1>2, LimpioStep
<1>5. DBTipo(db')
  BY <1>1, <1>2, DBTipoStep
<1>6. Sumas'
  BY <1>1, <1>2, SumasStep
<1> QED
  BY <1>3, <1>4, <1>5, <1>6 DEF Datos

(* and it holds in every state.                                            *)
LEMMA DatosAlways == Spec => []Datos
BY IInvAlways, IInvStep, DatosInit, DatosStep, PTL DEF Spec

(* The acknowledged reports are among those counted, for every command of  *)
(* their pipelines.                                                        *)
LEMMA AsentadosContados ==
  ASSUME Reparto
  PROVE  /\ asentados \in SUBSET Contados(Incr) /\ Contados(Incr) \in SUBSET Reporte
         /\ \A n \in Dobles, m \in Magnitud : /\ asentados \in SUBSET Contados(Op(n, m))
                                              /\ Contados(Op(n, m)) \in SUBSET Reporte
<1>1. \A r : Incr \in Ops(r) /\ \A n \in Dobles, m \in Magnitud : Op(n, m) \in Ops(r)
  BY OperacionesFacts
<1>2. \A o : Contados(o) \in SUBSET Reporte
  BY DEF Reparto, Contados, Llevan
<1> QED
  BY <1>1, <1>2 DEF Contados

(* Nothing is acknowledged before it is counted: whatever the consumer, its *)
(* connections or the broker lose, and whatever is rejected or sent again, *)
(* the counters and the frequencies include every acknowledged report, and *)
(* the sums of a country and a magnitude without negative figures do too.  *)
(* Valkey itself is taken to lose no key (main.go 156-162).                *)
THEOREM AckedAlwaysCounted == Spec => []AckedAreCounted
<1>1. ASSUME IInv, Datos PROVE AckedAreCounted
  <2>1. /\ Reparto /\ DBTipo(db) /\ SumasDe(db, Cuenta, fallos)
        /\ \A o \in Operacion : Cuenta[o] = Contados(o)
    BY <1>1 DEF IInv, Datos, Sumas, Cuenta
  <2>2. ASSUME NEW c \in Pais PROVE db.count[c] >= Cardinality(De(asentados, c))
    <3>1. PICK C : C = Contados(Incr)
      OBVIOUS
    <3>2. C \in SUBSET Reporte /\ asentados \in SUBSET C
      BY <2>1, <3>1, AsentadosContados
    <3>3. db.count[c] \in Nat /\ db.count[c] >= Cardinality(De(C, c))
      BY <2>1, <3>1, Comandos DEF DBTipo, SumasDe, Acumula
    <3>4. /\ Cardinality(De(asentados, c)) \in Nat /\ Cardinality(De(C, c)) \in Nat
          /\ Cardinality(De(asentados, c)) <= Cardinality(De(C, c))
      BY <3>2, MedidaMenos
    <3> QED
      BY <3>3, <3>4
  <2>3. ASSUME NEW c \in Pais, NEW m \in Magnitud
        PROVE  SinNegativos(c, m) => /\ db.zset[m][c] >= Total(De(asentados, c), m)
                                     /\ db.top[m][c] >= Total(De(asentados, c), m)
    <3>1. PICK C, E : C = Contados(Op("zincrby", m)) /\ E = Contados(Op("hincrby", m))
      OBVIOUS
    <3>2. C \in SUBSET Reporte /\ asentados \in SUBSET C /\ E \in SUBSET Reporte /\ asentados \in SUBSET E
      BY <2>1, <3>1, AsentadosContados, Comandos
    <3> HAVE SinNegativos(c, m)
    <3>3. /\ db.zset[m][c] \in Int /\ db.zset[m][c] >= Total(De(C, c), m)
          /\ db.top[m][c] \in Int /\ db.top[m][c] >= Total(De(E, c), m)
      BY <2>1, <3>1, Comandos DEF DBTipo, SumasDe, AcumulaCifras
    <3>4. /\ Total(De(asentados, c), m) \in Int /\ Total(De(C, c), m) \in Int /\ Total(De(E, c), m) \in Int
          /\ Total(De(asentados, c), m) <= Total(De(C, c), m)
          /\ Total(De(asentados, c), m) <= Total(De(E, c), m)
      BY <3>2, MedidaMenos
    <3> QED
      BY <3>3, <3>4
  <2>4. ASSUME NEW m \in Magnitud, NEW v \in Valores PROVE db.freq[m][v] >= Veces(asentados, m, v)
    <3>1. PICK C : C = Contados(Op("freq", m))
      OBVIOUS
    <3>2. C \in SUBSET Reporte /\ asentados \in SUBSET C
      BY <2>1, <3>1, AsentadosContados, Comandos
    <3>3. db.freq[m][v] \in Nat /\ db.freq[m][v] >= Veces(C, m, v)
      BY <2>1, <3>1, Comandos DEF DBTipo, SumasDe, Acumula
    <3>4. /\ Veces(asentados, m, v) \in Nat /\ Veces(C, m, v) \in Nat
          /\ Veces(asentados, m, v) <= Veces(C, m, v)
      BY <3>2, MedidaMenos
    <3> QED
      BY <3>3, <3>4
  <2> QED
    BY <2>2, <2>3, <2>4 DEF AckedAreCounted
<1> QED
  BY <1>1, IInvAlways, DatosAlways, PTL

(* When no worker is busy, only the acknowledged reports are counted.      *)
LEMMA QuietosContados ==
  ASSUME Forma, Reparto, Quietos
  PROVE  /\ Contados(Incr) = asentados
         /\ \A n \in Dobles, m \in Magnitud : Contados(Op(n, m)) = asentados
         /\ Contados(Xadd) = De(asentados, Asignado)
<1>1. \A o : Llevan(o) = {}
  BY DEF Llevan, Quietos, Pasado
<1>2. \A r : /\ Incr \in Ops(r) /\ \A n \in Dobles, m \in Magnitud : Op(n, m) \in Ops(r)
             /\ Xadd \in Ops(r) <=> pais[r] = Asignado
  BY OperacionesFacts
<1> QED
  BY <1>1, <1>2 DEF Contados, De

(* Without adverse events the aggregates are exactly those of the          *)
(* acknowledged reports, however the pipelines of the workers were         *)
(* interleaved (main.go process, lines 49-71).                             *)
THEOREM ExactAlways == Spec => []ExactWithoutFailures
<1>1. ASSUME IInv, Datos PROVE ExactWithoutFailures
  <2> SUFFICES ASSUME Quietos, fallos = 0
               PROVE  /\ \A c \in Pais :
                           /\ db.count[c] = Cardinality(De(asentados, c))
                           /\ \A m \in Magnitud : /\ db.zset[m][c] = Total(De(asentados, c), m)
                                                  /\ db.top[m][c] = Total(De(asentados, c), m)
                      /\ \A m \in Magnitud, v \in Valores : db.freq[m][v] = Veces(asentados, m, v)
                      /\ db.ts = Cardinality(De(asentados, Asignado))
    BY DEF ExactWithoutFailures
  <2>1. /\ SumasDe(db, Cuenta, fallos)
        /\ \A o \in Operacion : Cuenta[o] = Contados(o)
    BY <1>1 DEF IInv, Datos, Sumas, Cuenta
  <2>2. /\ Cuenta[Incr] = asentados /\ Cuenta[Xadd] = De(asentados, Asignado)
        /\ \A n \in Dobles, m \in Magnitud : Cuenta[Op(n, m)] = asentados
    BY <1>1, <2>1, QuietosContados, Comandos DEF IInv
  <2>3. \A x, y : /\ Acumula(x, y, fallos) => x = y
                  /\ \A c, m : AcumulaCifras(c, m, x, y, fallos) => x = y
    BY DEF Acumula, AcumulaCifras
  <2>4. ASSUME NEW c \in Pais PROVE db.count[c] = Cardinality(De(asentados, c))
    BY <2>1, <2>2, <2>3 DEF SumasDe
  <2>5. ASSUME NEW c \in Pais, NEW m \in Magnitud
        PROVE  db.zset[m][c] = Total(De(asentados, c), m) /\ db.top[m][c] = Total(De(asentados, c), m)
    <3>1. Cuenta[Op("zincrby", m)] = asentados /\ Cuenta[Op("hincrby", m)] = asentados
      BY <2>2, Comandos
    <3>2. /\ AcumulaCifras(c, m, db.zset[m][c], Total(De(asentados, c), m), fallos)
          /\ AcumulaCifras(c, m, db.top[m][c], Total(De(asentados, c), m), fallos)
      BY <2>1, <3>1 DEF SumasDe
    <3> QED
      BY <2>3, <3>2
  <2>6. ASSUME NEW m \in Magnitud, NEW v \in Valores PROVE db.freq[m][v] = Veces(asentados, m, v)
    <3>1. Cuenta[Op("freq", m)] = asentados
      BY <2>2, Comandos
    <3>2. Acumula(db.freq[m][v], Veces(asentados, m, v), fallos)
      BY <2>1, <3>1 DEF SumasDe
    <3> QED
      BY <2>3, <3>2
  <2>7. db.ts = Cardinality(De(asentados, Asignado))
    BY <2>1, <2>2, <2>3 DEF SumasDe
  <2> QED
    BY <2>4, <2>5, <2>6, <2>7
<1> QED
  BY <1>1, IInvAlways, DatosAlways, PTL

----------------------------------------------------------------------------
(* The extremes: each is missing or the figure of some report that has     *)
(* been published and decodes, and no report counted for it goes beyond.   *)
Publicados == Reporte \ (nuevos \cup Malformado)
ExtremosDe(d, C, P) ==
  \A m \in Magnitud :
    /\ d.max[m] = Nulo \/ \E r \in P : d.max[m] = valor[r][m]
    /\ d.min[m] = Nulo \/ \E r \in P : d.min[m] = valor[r][m]
    /\ \A r \in C[Op("max", m)] : d.max[m] # Nulo /\ valor[r][m] <= d.max[m]
    /\ \A r \in C[Op("min", m)] : d.min[m] # Nulo /\ valor[r][m] >= d.min[m]
Extremos == ExtremosDe(db, Cuenta, Publicados)

(* Fewer counted and more published.                                       *)
LEMMA ExtremosMenos ==
  ASSUME NEW d, NEW e, e.max = d.max, e.min = d.min, NEW C, NEW E, NEW P, NEW Q,
         \A o \in Operacion : E[o] \subseteq C[o], P \subseteq Q, ExtremosDe(d, C, P)
  PROVE  ExtremosDe(e, E, Q)
<1>1. \A m \in Magnitud : E[Op("max", m)] \subseteq C[Op("max", m)] /\ E[Op("min", m)] \subseteq C[Op("min", m)]
  BY Comandos
<1> QED
  BY <1>1 DEF ExtremosDe

(* One command more, of a published report: the scripts keep the extreme   *)
(* of what they have seen, in whatever order and however often.            *)
LEMMA ExtremosMas ==
  ASSUME NEW d, NEW e, DBTipo(d), NEW o \in Operacion, NEW r \in Reporte, Efecto(d, e, o, r),
         NEW C \in [Operacion -> SUBSET Reporte], NEW E \in [Operacion -> SUBSET Reporte],
         \A q \in Operacion : q # o => E[q] = C[q], E[o] \subseteq C[o] \cup {r},
         NEW P, r \in P, ExtremosDe(d, C, P)
  PROVE  ExtremosDe(e, E, P)
<1> SUFFICES ASSUME NEW m \in Magnitud
             PROVE  /\ e.max[m] = Nulo \/ \E q \in P : e.max[m] = valor[q][m]
                    /\ e.min[m] = Nulo \/ \E q \in P : e.min[m] = valor[q][m]
                    /\ \A q \in E[Op("max", m)] : e.max[m] # Nulo /\ valor[q][m] <= e.max[m]
                    /\ \A q \in E[Op("min", m)] : e.min[m] # Nulo /\ valor[q][m] >= e.min[m]
  BY DEF ExtremosDe
<1>1. /\ valor[r][m] \in Int /\ Nulo \notin Int
      /\ \A q \in Reporte : valor[q][m] \in Int
      /\ d.max[m] \in Int \cup {Nulo} /\ d.min[m] \in Int \cup {Nulo}
  BY ConsumerAssumption DEF DBTipo
<1>2. /\ d.max[m] = Nulo \/ \E q \in P : d.max[m] = valor[q][m]
      /\ d.min[m] = Nulo \/ \E q \in P : d.min[m] = valor[q][m]
      /\ \A q \in C[Op("max", m)] : d.max[m] # Nulo /\ valor[q][m] <= d.max[m]
      /\ \A q \in C[Op("min", m)] : d.min[m] # Nulo /\ valor[q][m] >= d.min[m]
  BY DEF ExtremosDe
<1>3. /\ e.max[m] = IF o = Op("max", m) THEN maxScript(d.max[m], valor[r][m]) ELSE d.max[m]
      /\ e.min[m] = IF o = Op("min", m) THEN minScript(d.min[m], valor[r][m]) ELSE d.min[m]
  BY DEF Efecto
<1>4. PICK a \in Operacion, b \in Operacion : a = Op("max", m) /\ b = Op("min", m)
  BY Comandos
<1>5. /\ e.max[m] = Nulo \/ \E q \in P : e.max[m] = valor[q][m]
      /\ \A q \in E[a] : e.max[m] # Nulo /\ valor[q][m] <= e.max[m]
  <2>1. CASE o = a
    <3>1. /\ e.max[m] \in Int /\ valor[r][m] <= e.max[m]
          /\ e.max[m] = valor[r][m] \/ (d.max[m] # Nulo /\ e.max[m] = d.max[m])
          /\ d.max[m] # Nulo => d.max[m] <= e.max[m]
      BY <1>1, <1>3, <1>4, <2>1 DEF maxScript
    <3>2. \E q \in P : e.max[m] = valor[q][m]
      BY <1>2, <3>1
    <3>3. ASSUME NEW q \in E[a] PROVE e.max[m] # Nulo /\ valor[q][m] <= e.max[m]
      <4>1. q = r \/ q \in C[a]
        BY <2>1
      <4>2. q \in Reporte /\ valor[q][m] \in Int
        BY <1>1
      <4>3. CASE q = r
        BY <1>1, <3>1, <4>3
      <4>4. CASE q \in C[a]
        <5>1. d.max[m] # Nulo /\ valor[q][m] <= d.max[m]
          BY <1>2, <1>4, <4>4
        <5> QED
          BY <1>1, <3>1, <4>2, <5>1
      <4> QED
        BY <4>1, <4>3, <4>4
    <3> QED
      BY <3>2, <3>3
  <2>2. CASE o # a
    BY <1>2, <1>3, <1>4, <2>2
  <2> QED
    BY <2>1, <2>2
<1>6. /\ e.min[m] = Nulo \/ \E q \in P : e.min[m] = valor[q][m]
      /\ \A q \in E[b] : e.min[m] # Nulo /\ valor[q][m] >= e.min[m]
  <2>1. CASE o = b
    <3>1. /\ e.min[m] \in Int /\ valor[r][m] >= e.min[m]
          /\ e.min[m] = valor[r][m] \/ (d.min[m] # Nulo /\ e.min[m] = d.min[m])
          /\ d.min[m] # Nulo => d.min[m] >= e.min[m]
      BY <1>1, <1>3, <1>4, <2>1 DEF minScript
    <3>2. \E q \in P : e.min[m] = valor[q][m]
      BY <1>2, <3>1
    <3>3. ASSUME NEW q \in E[b] PROVE e.min[m] # Nulo /\ valor[q][m] >= e.min[m]
      <4>1. q = r \/ q \in C[b]
        BY <2>1
      <4>2. q \in Reporte /\ valor[q][m] \in Int
        BY <1>1
      <4>3. CASE q = r
        BY <1>1, <3>1, <4>3
      <4>4. CASE q \in C[b]
        <5>1. d.min[m] # Nulo /\ valor[q][m] >= d.min[m]
          BY <1>2, <1>4, <4>4
        <5> QED
          BY <1>1, <3>1, <4>2, <5>1
      <4> QED
        BY <4>1, <4>3, <4>4
    <3> QED
      BY <3>2, <3>3
  <2>2. CASE o # b
    BY <1>2, <1>3, <1>4, <2>2
  <2> QED
    BY <2>1, <2>2
<1> QED
  BY <1>4, <1>5, <1>6

(* There are none at the start.                                            *)
LEMMA ExtremosInit == Init => Extremos
<1> SUFFICES ASSUME Init PROVE Extremos
  OBVIOUS
<1>1. \A o \in Operacion : Cuenta[o] = {}
  BY DEF Init, Cuenta, Contados, Llevan
<1>2. \A m \in Magnitud : /\ Cuenta[Op("max", m)] = {} /\ Cuenta[Op("min", m)] = {}
                          /\ db.max[m] = Nulo /\ db.min[m] = Nulo
  BY <1>1, Comandos DEF Init, VacioDB
<1> QED
  BY <1>2 DEF Extremos, ExtremosDe

(* Every step keeps the extremes.                                          *)
LEMMA ExtremosStep ==
  ASSUME Forma, Reparto, Reparto', Tenencia, Contado, Tope, Colas, Limpio, DBTipo(db),
         Extremos, [Next]_vars
  PROVE  Extremos'
<1>1. PICK C, E : C = Cuenta /\ E = Cuenta'
  OBVIOUS
<1>2. /\ C \in [Operacion -> SUBSET Reporte] /\ \A o \in Operacion : C[o] = Contados(o)
      /\ ExtremosDe(db, C, Publicados)
  BY <1>1, CuentaTipo DEF Cuenta, Extremos
<1>3. E \in [Operacion -> SUBSET Reporte] /\ \A o \in Operacion : E[o] = Contados(o)'
  <2>1. E = [o \in Operacion |-> Contados(o)']
    BY <1>1 DEF Cuenta
  <2>2. ASSUME NEW o PROVE Contados(o)' \in SUBSET Reporte
    BY DEF Reparto, Contados, Llevan
  <2> QED
    BY <2>1, <2>2
<1>4. Publicados \subseteq Publicados'
  <2>1. nuevos' \subseteq nuevos
    BY DEF Next, vars, broker, worker, Publica, Entrega, CaeConexion, CierraCanal, Muere, Arranca,
           ReiniciaBroker, Reencola, Toma, Comando, ExecVuelve, Exito, Fallo, LeeModa, PoneModa,
           Ack, Termina, ComandoRechazado, ExecFalla, Devuelve, Descarta, Asienta
  <2> QED
    BY <2>1 DEF Publicados
<1>5. ASSUME NEW w \in Worker, Comando(w) PROVE ExtremosDe(db', E, Publicados')
  <2>1. PICK o, r : o = Head(hilo[w].resto) /\ r = hilo[w].rep
    OBVIOUS
  <2>2. /\ o \in Operacion /\ r \in Reporte /\ r \in EnMano /\ db' = Aplica(db, o, r)
        /\ \A q : q # o => Contados(q)' = Contados(q)
        /\ Contados(o)' \subseteq Contados(o) \cup {r}
    BY <1>5, <2>1, ComandoCuenta
  <2>3. Efecto(db, db', o, r)
    BY <2>2, AplicaEfecto
  <2>4. r \in Publicados
    BY <2>2 DEF Publicados, Tenencia, Contado, Reparto
  <2>5. (\A q \in Operacion : q # o => E[q] = C[q]) /\ E[o] \subseteq C[o] \cup {r}
    BY <1>2, <1>3, <2>2
  <2>6. ExtremosDe(db', E, Publicados)
    BY <1>2, <1>3, <2>2, <2>3, <2>4, <2>5, ExtremosMas
  <2> QED
    BY <1>4, <2>6, ExtremosMenos
<1>6. ASSUME Mengua PROVE ExtremosDe(db', E, Publicados')
  <2>1. db'.max = db.max /\ db'.min = db.min /\ \A o \in Operacion : E[o] \subseteq C[o]
    BY <1>2, <1>3, <1>6 DEF Mengua, DBIgual
  <2> QED
    BY <1>2, <1>4, <2>1, ExtremosMenos
<1>7. ExtremosDe(db', E, Publicados')
  <2>1. (\E w \in Worker : Comando(w)) \/ Mengua
    BY MenguaStep
  <2> QED
    BY <1>5, <1>6, <2>1
<1> QED
  <2>1. ExtremosDe(db, Cuenta, Publicados)'
    BY <1>1, <1>7 DEF ExtremosDe
  <2> QED
    BY <2>1 DEF Extremos

(* The invariant of the extremes in every state.                           *)
LEMMA ExtremosAlways == Spec => []Extremos
<1>1. IInv /\ IInv' /\ Datos /\ Extremos /\ [Next]_vars => Extremos'
  BY ExtremosStep DEF IInv, Datos
<1> QED
  BY <1>1, ExtremosInit, IInvAlways, DatosAlways, PTL DEF Spec

(* The extremes are exact once everything is settled, whatever was         *)
(* repeated, reordered, rejected or left half done (main.go 27-35).        *)
THEOREM ExtremesAlwaysExact == Spec => []ExtremesExact
<1>1. ASSUME IInv, Extremos PROVE ExtremesExact
  <2> SUFFICES ASSUME Quietos, listos \cup sinAck \cup perdidos = {}, NEW m \in Magnitud, NEW S,
                      S = {valor[r][m] : r \in asentados}
               PROVE  Extremo(db.max[m], S, >) /\ Extremo(db.min[m], S, <)
    BY DEF ExtremesExact
  <2>1. Reparto /\ descartados \subseteq Malformado /\ ExtremosDe(db, Cuenta, Publicados)
    BY <1>1 DEF IInv, Contado, Extremos
  <2>2. PICK a \in Operacion, b \in Operacion : a = Op("max", m) /\ b = Op("min", m)
    BY Comandos
  <2>3. asentados \in SUBSET Cuenta[a] /\ asentados \in SUBSET Cuenta[b]
    BY <2>1, <2>2, AsentadosContados, Comandos DEF Cuenta
  <2>4. Publicados \subseteq asentados
    BY <2>1 DEF Publicados, Reparto
  <2>5. /\ db.max[m] = Nulo \/ \E r \in Publicados : db.max[m] = valor[r][m]
        /\ db.min[m] = Nulo \/ \E r \in Publicados : db.min[m] = valor[r][m]
        /\ \A r \in Cuenta[a] : db.max[m] # Nulo /\ valor[r][m] <= db.max[m]
        /\ \A r \in Cuenta[b] : db.min[m] # Nulo /\ valor[r][m] >= db.min[m]
    BY <2>1, <2>2 DEF ExtremosDe
  <2>6. /\ db.max[m] = Nulo \/ db.max[m] \in S
        /\ db.min[m] = Nulo \/ db.min[m] \in S
    BY <2>4, <2>5
  <2>7. \A v \in S : v \in Int /\ db.max[m] # Nulo /\ v <= db.max[m] /\ db.min[m] # Nulo /\ v >= db.min[m]
    <3>1. \A r \in asentados : r \in Reporte /\ valor[r][m] \in Int
      BY <2>1, ConsumerAssumption DEF Reparto
    <3> QED
      BY <2>3, <2>5, <3>1
  <2>8. CASE S = {}
    BY <2>6, <2>8 DEF Extremo
  <2>9. CASE S # {}
    <3>1. db.max[m] \in S /\ db.min[m] \in S
      BY <2>6, <2>7, <2>9
    <3>2. db.max[m] \in Int /\ db.min[m] \in Int
      BY <2>7, <3>1
    <3>3. ASSUME NEW v \in S PROVE ~(v > db.max[m]) /\ ~(v < db.min[m])
      <4>1. v \in Int /\ v <= db.max[m] /\ v >= db.min[m]
        BY <2>7, <3>3, Zenon
      <4>2. \A i, j, k \in Int : i <= j /\ i >= k => ~(i > j) /\ ~(i < k)
        OBVIOUS
      <4> QED
        BY <3>2, <4>1, <4>2, Zenon
    <3> QED
      BY <2>9, <3>1, <3>3 DEF Extremo
  <2> QED
    BY <2>8, <2>9
<1> QED
  BY <1>1, IInvAlways, ExtremosAlways, PTL

----------------------------------------------------------------------------
(* What is repeated.  The reports that a process which has lost its        *)
(* connection still has to count, though the broker has taken them back.   *)
Pendiente(h) == h.fase = "exec" /\ Incr \in Resta(h)
Pendientes ==
  IF conectado THEN {}
  ELSE bandeja \cup {r \in Reporte : \E w \in Worker : hilo[w].rep = r /\ Pendiente(hilo[w])}

(* One worker changes.                                                     *)
LEMMA PendientesUno ==
  ASSUME Forma, NEW w \in Worker, NEW h, Pasa(w, h), UNCHANGED <<conectado, bandeja>>
  PROVE  \A r \in Pendientes' : r \in Pendientes \/ (~conectado /\ r \in Reporte /\ h.rep = r /\ Pendiente(h))
<1>1. \A x \in Worker : hilo'[x] = IF x = w THEN h ELSE hilo[x]
  BY DEF Forma, Pasa
<1>2. Pendientes' = IF conectado THEN {}
        ELSE bandeja \cup {r \in Reporte : \E x \in Worker : hilo'[x].rep = r /\ Pendiente(hilo'[x])}
  BY DEF Pendientes, Pendiente, Resta
<1>3. ASSUME NEW r \in Pendientes', r \notin Pendientes
      PROVE  ~conectado /\ r \in Reporte /\ h.rep = r /\ Pendiente(h)
  <2>1. ~conectado /\ r \notin bandeja
    BY <1>2, <1>3 DEF Pendientes
  <2>2. PICK x \in Worker : r \in Reporte /\ hilo'[x].rep = r /\ Pendiente(hilo'[x])
    BY <1>2, <1>3, <2>1
  <2>3. x = w
    BY <1>1, <1>3, <2>1, <2>2 DEF Pendientes
  <2> QED
    BY <1>1, <2>1, <2>2, <2>3
<1> QED
  BY <1>3

(* Nothing becomes pending while nothing adverse happens.                  *)
LEMMA PendientesQuietos ==
  ASSUME Forma, Tenencia, Tope, Colas, [Next]_vars, fallos' = fallos
  PROVE  Pendientes' \subseteq Pendientes
<1>0. fallos \in Nat /\ ~Adverso
  BY DEF Tope, Adverso
<1>1. ASSUME NEW w \in Worker, NEW h, Pasa(w, h), UNCHANGED <<conectado, bandeja>>, ~Pendiente(h)
      PROVE  Pendientes' \subseteq Pendientes
  BY <1>1, PendientesUno
<1>2. ASSUME NEW w \in Worker, Toma(w) PROVE Pendientes' \subseteq Pendientes
  <2>1. PICK r \in bandeja : /\ bandeja' = bandeja \ {r}
                             /\ hilo' = hilo \/ Pasa(w, Empieza(r))
    BY <1>2 DEF Toma
  <2>2. conectado' = conectado
    BY <1>2 DEF Toma
  <2>3. CASE conectado
    BY <2>2, <2>3 DEF Pendientes
  <2>4. CASE ~conectado
    <3>1. \A x \in Worker : hilo'[x] = hilo[x] \/ hilo'[x] = Empieza(r)
      BY <2>1 DEF Forma, Pasa
    <3>2. Empieza(r).rep = r
      BY DEF Empieza, Ocioso
    <3>3. Pendientes' = bandeja' \cup {p \in Reporte : \E x \in Worker : hilo'[x].rep = p /\ Pendiente(hilo'[x])}
      BY <2>2, <2>4 DEF Pendientes, Pendiente, Resta
    <3>4. ASSUME NEW q \in Pendientes', q \notin bandeja PROVE q \in Pendientes
      <4>1. PICK x \in Worker : q \in Reporte /\ hilo'[x].rep = q /\ Pendiente(hilo'[x])
        <5>1. q \notin bandeja'
          BY <2>1, <3>4
        <5> QED
          BY <3>3, <3>4, <5>1
      <4>2. hilo'[x] = hilo[x]
        BY <2>1, <3>1, <3>2, <3>4, <4>1
      <4> QED
        BY <2>4, <4>1, <4>2 DEF Pendientes
    <3> QED
      BY <2>4, <3>4 DEF Pendientes
  <2> QED
    BY <2>3, <2>4
<1>3. ASSUME NEW w \in Worker, Comando(w) PROVE Pendientes' \subseteq Pendientes
  <2>1. PICK h : h = hilo[w]
    OBVIOUS
  <2>2. DOMAIN h = Partes /\ h.fase = "exec" /\ h.resto # <<>> /\ Cola(h, fallos)
    BY <1>3, <2>1 DEF Comando, Forma, Bien, Colas
  <2>3. PICK g : g = [h EXCEPT !.resto = Tail(@)]
    OBVIOUS
  <2>4. Pasa(w, g) /\ UNCHANGED <<conectado, bandeja>>
    BY <1>3, <2>1, <2>3 DEF Comando
  <2>5. ~Pendiente(g)
    BY <2>2, <2>3, SigueCola DEF Pendiente
  <2> QED
    BY <1>1, <2>4, <2>5
<1>4. ASSUME NEW w \in Worker, ExecVuelve(w) PROVE Pendientes' \subseteq Pendientes
  <2>1. UNCHANGED <<conectado, bandeja>> /\ DOMAIN hilo[w] = Partes
    BY <1>4 DEF ExecVuelve, Forma, Bien
  <2>2. \/ Pasa(w, Ocioso) \/ Pasa(w, [hilo[w] EXCEPT !.fase = "ack"])
        \/ Pasa(w, [hilo[w] EXCEPT !.fase = "moda", !.resto = <<"planes", "ships">>])
    BY <1>4 DEF ExecVuelve, Exito, Sigue, Fallo
  <2>3. /\ [hilo[w] EXCEPT !.fase = "ack"].fase = "ack"
        /\ [hilo[w] EXCEPT !.fase = "moda", !.resto = <<"planes", "ships">>].fase = "moda"
        /\ Ocioso.fase = "ocioso"
    BY <2>1 DEF Partes, Ocioso
  <2>4. PICK h : Pasa(w, h) /\ h.fase \in {"ack", "moda", "ocioso"}
    BY <2>2, <2>3
  <2>5. ~Pendiente(h)
    BY <2>4 DEF Pendiente
  <2> QED
    BY <1>1, <2>1, <2>4, <2>5
<1>5. ASSUME NEW w \in Worker, LeeModa(w) \/ PoneModa(w) PROVE Pendientes' \subseteq Pendientes
  <2>1. UNCHANGED <<conectado, bandeja>> /\ DOMAIN hilo[w] = Partes /\ hilo[w].fase = "moda"
    BY <1>5 DEF LeeModa, PoneModa, Forma, Bien
  <2>2. Siguiente(hilo[w]).fase \in {"ack", "moda"} /\ \A v : [hilo[w] EXCEPT !.mejor = v].fase = "moda"
    BY <2>1 DEF Partes, Siguiente
  <2>3. Pasa(w, Siguiente(hilo[w])) \/ \E v : Pasa(w, [hilo[w] EXCEPT !.mejor = v])
    BY <1>5 DEF LeeModa, PoneModa
  <2>4. PICK h : Pasa(w, h) /\ h.fase \in {"ack", "moda"}
    BY <2>2, <2>3
  <2>5. ~Pendiente(h)
    BY <2>4 DEF Pendiente
  <2> QED
    BY <1>1, <2>1, <2>4, <2>5
<1>6. ASSUME NEW w \in Worker, Ack(w) PROVE Pendientes' \subseteq Pendientes
  <2>1. Ocioso.fase = "ocioso"
    BY DEF Ocioso
  <2>2. ~Pendiente(Ocioso)
    BY <2>1 DEF Pendiente
  <2> QED
    BY <1>1, <1>6, <2>2 DEF Ack
<1>7. ASSUME NEW w \in Worker, Termina(w) PROVE Pendientes' \subseteq Pendientes
  <2>1. bandeja' = {} /\ hilo' = [x \in Worker |-> Ocioso]
    BY <1>7 DEF Termina, Apaga
  <2>2. \A x \in Worker : hilo'[x].fase = "ocioso"
    BY <2>1 DEF Ocioso
  <2> QED
    BY <2>1, <2>2 DEF Pendientes, Pendiente
<1>8. CASE Publica \/ UNCHANGED vars
  <2>1. UNCHANGED <<conectado, bandeja, hilo>>
    BY <1>8 DEF Publica, vars
  <2> QED
    BY <2>1 DEF Pendientes, Pendiente, Resta
<1>9. CASE Entrega \/ Arranca
  <2>1. conectado'
    BY <1>9 DEF Entrega, Arranca
  <2> QED
    BY <2>1 DEF Pendientes
<1>10. CASE CierraCanal
  <2>1. UNCHANGED <<conectado, hilo>> /\ bandeja' = {}
    BY <1>10 DEF CierraCanal
  <2> QED
    BY <2>1 DEF Pendientes, Pendiente, Resta
<1>11. ASSUME NEW w \in Worker PROVE ~ComandoRechazado(w) /\ ~ExecFalla(w)
  BY <1>0 DEF ComandoRechazado, ExecFalla
<1>12. ~CaeConexion /\ ~Muere /\ ~ReiniciaBroker
  BY <1>0 DEF CaeConexion, Muere, ReiniciaBroker
<1> QED
  BY <1>2, <1>3, <1>4, <1>5, <1>6, <1>7, <1>8, <1>9, <1>10, <1>11, <1>12 DEF Next, worker

(* An adverse event opens a gap of at most the prefetch: the reports that  *)
(* are no longer counted and those that become pending are among the       *)
(* unacknowledged deliveries, and none of them is both.                    *)
LEMMA AdversoAbre ==
  ASSUME Forma, Reparto, Tenencia, Tope, Colas, [Next]_vars, fallos' # fallos
  PROVE  \E X \in SUBSET Reporte :
           /\ Cardinality(X) <= Prefetch
           /\ Contados(Incr) \ Contados(Incr)' \subseteq X /\ Pendientes' \ Pendientes \subseteq X
           /\ (Contados(Incr) \ Contados(Incr)') \cap (Pendientes' \ Pendientes) = {}
<1>1. ASSUME NEW w \in Worker, NEW h, Pasa(w, h), UNCHANGED <<conectado, asentados, bandeja>>,
             hilo[w].rep \in Reporte, Pendiente(h) => h.rep = hilo[w].rep
      PROVE  \E X \in SUBSET Reporte :
               /\ Cardinality(X) <= Prefetch
               /\ Contados(Incr) \ Contados(Incr)' \subseteq X /\ Pendientes' \ Pendientes \subseteq X
               /\ (Contados(Incr) \ Contados(Incr)') \cap (Pendientes' \ Pendientes) = {}
  <2>1. PICK X : X = {hilo[w].rep}
    OBVIOUS
  <2>2. X \in SUBSET Reporte /\ Cardinality(X) <= Prefetch
    <3>1. Cardinality(X) = 1
      BY <2>1, FS_Singleton
    <3> QED
      BY <1>1, <2>1, <3>1, ConsumerAssumption
  <2>3. Pendientes' \ Pendientes \subseteq X
    BY <1>1, <2>1, PendientesUno
  <2>4. Contados(Incr) \ Contados(Incr)' \subseteq X
    <3>1. \A r \in Llevan(Incr) : r \in Llevan(Incr)' \/ hilo[w].rep = r
      BY <1>1, LlevanUno
    <3> QED
      BY <1>1, <2>1, <3>1 DEF Contados
  <2>5. CASE conectado
    <3>1. Pendientes' = {}
      BY <1>1, <2>5 DEF Pendientes
    <3> QED
      BY <2>2, <2>4, <3>1
  <2>6. CASE ~conectado
    <3>1. asentados' = asentados /\ ~conectado'
      BY <1>1, <2>6
    <3>2. Contados(Incr)' = Contados(Incr)
      BY <2>6, <3>1, ContadosCerrado
    <3> QED
      BY <2>2, <2>3, <3>2
  <2> QED
    BY <2>5, <2>6
<1>2. Ocioso.fase = "ocioso" /\ ~Pendiente(Ocioso)
  <2>1. Ocioso.fase = "ocioso"
    BY DEF Ocioso
  <2> QED
    BY <2>1 DEF Pendiente
<1>3. ASSUME NEW w \in Worker, ComandoRechazado(w) PROVE \E h : Pasa(w, h) /\ h.rep = hilo[w].rep
  <2>1. DOMAIN hilo[w] = Partes
    BY DEF Forma, Bien
  <2>2. [hilo[w] EXCEPT !.resto = Tail(@), !.malo = TRUE].rep = hilo[w].rep
    BY <2>1 DEF Partes
  <2> QED
    BY <1>3, <2>2 DEF ComandoRechazado
<1>4. ASSUME NEW w \in Worker, ExecFalla(w) PROVE \E h : Pasa(w, h) /\ (h = Ocioso \/ h.rep = hilo[w].rep)
  <2>1. Empieza(hilo[w].rep).rep = hilo[w].rep
    BY DEF Empieza, Ocioso
  <2> QED
    BY <1>4, <2>1 DEF ExecFalla
<1>5. ASSUME NEW w \in Worker, LeeModa(w) \/ PoneModa(w) PROVE \E h : Pasa(w, h) /\ h.rep = hilo[w].rep
  <2>1. DOMAIN hilo[w] = Partes
    BY DEF Forma, Bien
  <2>2. Siguiente(hilo[w]).rep = hilo[w].rep /\ \A v : [hilo[w] EXCEPT !.mejor = v].rep = hilo[w].rep
    BY <2>1 DEF Partes, Siguiente
  <2>3. Pasa(w, Siguiente(hilo[w])) \/ \E v : Pasa(w, [hilo[w] EXCEPT !.mejor = v])
    BY <1>5 DEF LeeModa, PoneModa
  <2> QED
    BY <2>2, <2>3
<1>6. ASSUME NEW w \in Worker, ComandoRechazado(w) \/ ExecFalla(w) \/ LeeModa(w) \/ PoneModa(w)
      PROVE  \E X \in SUBSET Reporte :
               /\ Cardinality(X) <= Prefetch
               /\ Contados(Incr) \ Contados(Incr)' \subseteq X /\ Pendientes' \ Pendientes \subseteq X
               /\ (Contados(Incr) \ Contados(Incr)') \cap (Pendientes' \ Pendientes) = {}
  <2>1. PICK h : Pasa(w, h) /\ (h = Ocioso \/ h.rep = hilo[w].rep)
    BY <1>3, <1>4, <1>5, <1>6
  <2>2. Pendiente(h) => h.rep = hilo[w].rep
    BY <1>2, <2>1
  <2>3. UNCHANGED <<conectado, bandeja>> /\ asentados' = asentados
    BY <1>6 DEF ComandoRechazado, ExecFalla, LeeModa, PoneModa, Devuelve, broker
  <2>4. hilo[w].rep \in Reporte
    BY <1>6 DEF ComandoRechazado, ExecFalla, LeeModa, PoneModa, Forma, Bien
  <2> QED
    BY <1>1, <2>1, <2>2, <2>3, <2>4
<1>7. CASE CaeConexion \/ Muere \/ ReiniciaBroker
  <2>1. asentados' = asentados /\ ~conectado'
    BY <1>7 DEF CaeConexion, Muere, ReiniciaBroker, Apaga, Reencola
  <2>2. \/ UNCHANGED <<hilo, bandeja>>
        \/ bandeja' = {} /\ hilo' = [x \in Worker |-> Ocioso]
    BY <1>7 DEF CaeConexion, Muere, ReiniciaBroker, Apaga
  <2>3. Pendientes' \subseteq
          bandeja \cup {r \in Reporte : \E x \in Worker : hilo[x].rep = r /\ Pendiente(hilo[x])}
    <3>1. CASE UNCHANGED <<hilo, bandeja>>
      BY <2>1, <3>1 DEF Pendientes, Pendiente, Resta
    <3>2. CASE bandeja' = {} /\ hilo' = [x \in Worker |-> Ocioso]
      <4>1. \A x \in Worker : hilo'[x].fase = "ocioso"
        BY <1>2, <3>2
      <4> QED
        BY <3>2, <4>1 DEF Pendientes, Pendiente
    <3> QED
      BY <2>2, <3>1, <3>2
  <2>4. CASE ~conectado
    <3>1. Pendientes' \ Pendientes = {}
      BY <2>3, <2>4 DEF Pendientes
    <3>2. Contados(Incr)' = Contados(Incr)
      BY <2>1, <2>4, ContadosCerrado
    <3>3. {} \in SUBSET Reporte /\ Cardinality({}) <= Prefetch
      BY FS_EmptySet, ConsumerAssumption
    <3> QED
      BY <3>1, <3>2, <3>3
  <2>5. CASE conectado
    <3>1. sinAck \in SUBSET Reporte /\ Cardinality(sinAck) <= Prefetch
      BY DEF Reparto, Tope
    <3>2. Contados(Incr) \ Contados(Incr)' \subseteq Llevan(Incr)
      BY <2>1 DEF Contados
    <3>3. Llevan(Incr) \subseteq EnMano
      BY ConsumerAssumption DEF Llevan, EnMano
    <3>4. sinAck = bandeja \cup EnMano /\ bandeja \cap EnMano = {}
      BY <2>5 DEF Tenencia
    <3>5. Pendientes' \subseteq sinAck
      BY <2>3, <3>4, ConsumerAssumption DEF EnMano
    <3>6. ASSUME NEW r \in Llevan(Incr) PROVE r \notin Pendientes'
      <4>1. PICK w \in Worker : r \in Reporte /\ hilo[w].rep = r /\ Pasado(hilo[w], Incr)
        BY <3>6 DEF Llevan
      <4>2. ~Pendiente(hilo[w])
        BY <4>1 DEF Pasado, Pendiente
      <4>3. \A x \in Worker : hilo[x].rep = r => x = w
        BY <4>1, ConsumerAssumption DEF Tenencia
      <4> QED
        BY <2>3, <3>3, <3>4, <3>6, <4>2, <4>3
    <3> QED
      BY <3>1, <3>2, <3>3, <3>4, <3>5, <3>6
  <2> QED
    BY <2>4, <2>5
<1>8. CASE UNCHANGED fallos
  BY <1>8
<1> QED
  BY <1>6, <1>7, <1>8 DEF Next, vars, worker, Publica, Entrega, CierraCanal, Arranca,
     Toma, Comando, ExecVuelve, Ack, Termina

(* What those gaps add up to.                                              *)
LEMMA Hueco ==
  ASSUME NEW C \in SUBSET Reporte, NEW D \in SUBSET Reporte, NEW P \in SUBSET Reporte,
         NEW Q \in SUBSET Reporte, NEW X \in SUBSET Reporte,
         C \ D \subseteq X, Q \ P \subseteq X, (C \ D) \cap (Q \ P) = {}
  PROVE  Cardinality(Q) + Cardinality(C) <= Cardinality(P) + Cardinality(D) + Cardinality(X)
<1>1. \A S \in SUBSET Reporte : IsFiniteSet(S) /\ Cardinality(S) \in Nat
  BY ConsumerAssumption, FS_Subset, FS_CardinalityType
<1>2. \A S, T \in SUBSET Reporte : S \subseteq T => Cardinality(S) <= Cardinality(T)
  BY <1>1, FS_Subset
<1>3. \A S, T \in SUBSET Reporte : S \cap T = {} => Cardinality(S \cup T) = Cardinality(S) + Cardinality(T)
  <2> TAKE S, T \in SUBSET Reporte
  <2> HAVE S \cap T = {}
  <2>1. Cardinality(S \cup T) = Cardinality(S) + Cardinality(T) - Cardinality(S \cap T)
    BY <1>1, FS_Union
  <2>2. Cardinality(S \cap T) = 0 /\ Cardinality(S) \in Nat /\ Cardinality(T) \in Nat
    BY <1>1, FS_EmptySet
  <2> QED
    BY <2>1, <2>2
<1>4. PICK U, V : U = C \ D /\ V = Q \ P
  OBVIOUS
<1>5. /\ U \in SUBSET Reporte /\ V \in SUBSET Reporte /\ U \cup V \in SUBSET Reporte
      /\ U \cap V = {} /\ U \cup V \subseteq X /\ D \cap U = {} /\ P \cap V = {}
      /\ C \subseteq D \cup U /\ Q \subseteq P \cup V
      /\ D \cup U \in SUBSET Reporte /\ P \cup V \in SUBSET Reporte
  BY <1>4
<1>6. Cardinality(U) + Cardinality(V) <= Cardinality(X)
  <2>1. Cardinality(U \cup V) = Cardinality(U) + Cardinality(V)
    BY <1>3, <1>5
  <2>2. Cardinality(U \cup V) <= Cardinality(X)
    BY <1>2, <1>5
  <2> QED
    BY <2>1, <2>2
<1>7. Cardinality(C) <= Cardinality(D) + Cardinality(U)
  <2>1. Cardinality(D \cup U) = Cardinality(D) + Cardinality(U)
    BY <1>3, <1>5
  <2>2. Cardinality(C) <= Cardinality(D \cup U)
    BY <1>2, <1>5
  <2> QED
    BY <2>1, <2>2
<1>8. Cardinality(Q) <= Cardinality(P) + Cardinality(V)
  <2>1. Cardinality(P \cup V) = Cardinality(P) + Cardinality(V)
    BY <1>3, <1>5
  <2>2. Cardinality(Q) <= Cardinality(P \cup V)
    BY <1>2, <1>5
  <2> QED
    BY <2>1, <2>2
<1>9. /\ Cardinality(C) \in Nat /\ Cardinality(D) \in Nat /\ Cardinality(P) \in Nat
      /\ Cardinality(Q) \in Nat /\ Cardinality(U) \in Nat /\ Cardinality(V) \in Nat
      /\ Cardinality(X) \in Nat
  BY <1>1, <1>5
<1> QED
  BY <1>6, <1>7, <1>8, <1>9

(* All the INCRs that have run, and those still pending, are of reports    *)
(* that are counted or of the prefetch of some adverse event.              *)
Repeticion == SumaDe(db.count, Pais) + Cardinality(Pendientes)
                <= Cardinality(Contados(Incr)) + Prefetch * fallos

(* The numbers it is about.                                                *)
LEMMA RepeticionTipo ==
  ASSUME Reparto, Tenencia, Tope, DBTipo(db)
  PROVE  /\ SumaDe(db.count, Pais) \in Nat /\ \A c \in Pais : db.count[c] \in Nat
         /\ Pendientes \in SUBSET Reporte /\ Cardinality(Pendientes) \in Nat
         /\ Contados(Incr) \in SUBSET Reporte /\ Cardinality(Contados(Incr)) \in Nat
         /\ Prefetch \in Nat /\ Prefetch > 0 /\ fallos \in Nat /\ Prefetch * fallos \in Nat
<1>1. \A S \in SUBSET Reporte : Cardinality(S) \in Nat
  BY ConsumerAssumption, FS_Subset, FS_CardinalityType
<1>2. Contados(Incr) \in SUBSET Reporte /\ Pendientes \in SUBSET Reporte
  <2>1. bandeja \subseteq Reporte
    BY DEF Reparto, Tenencia
  <2> QED
    BY <2>1 DEF Reparto, Contados, Llevan, Pendientes
<1>3. \A c \in Pais : db.count[c] \in Nat
  BY DEF DBTipo
<1>4. SumaDe(db.count, Pais) \in Nat
  BY <1>3, SumaNatural, ConsumerAssumption
<1>5. Prefetch \in Nat /\ Prefetch > 0 /\ fallos \in Nat
  BY ConsumerAssumption DEF Tope
<1>6. Prefetch * fallos \in Nat
  BY <1>5
<1> QED
  BY <1>1, <1>2, <1>3, <1>4, <1>5, <1>6

(* It holds at the start,                                                  *)
LEMMA RepeticionInit == Init => Repeticion
<1> SUFFICES ASSUME Init PROVE Repeticion
  OBVIOUS
<1>1. Pendientes = {} /\ Contados(Incr) = {} /\ fallos = 0
  <2>1. \A w \in Worker : ~Pendiente(hilo[w])
    BY DEF Init, Pendiente, Ocioso
  <2> QED
    BY <2>1 DEF Init, Pendientes, Contados, Llevan
<1>2. PICK g : g = [c \in Pais |-> 0]
  OBVIOUS
<1>3. db.count = g
  BY <1>2 DEF Init, VacioDB
<1>4. SumaDe(g, Pais) = SumaDe(g, Pais) + SumaDe(g, Pais) /\ SumaDe(g, Pais) \in Int
  <2>1. IsFiniteSet(Pais) /\ \A c \in Pais : g[c] \in Int
    BY <1>2, ConsumerAssumption
  <2>2. \A c \in Pais : g[c] = g[c] + g[c]
    BY <1>2
  <2>3. SumaDe(g, Pais) = SumaDe(g, Pais) + SumaDe(g, Pais)
    BY <2>1, <2>2, SumaLineal
  <2>4. SumaDe(g, Pais) \in Int
    BY <2>1, SumaQuita
  <2> QED
    BY <2>3, <2>4
<1>5. Cardinality({}) = 0 /\ Prefetch * 0 = 0
  BY FS_EmptySet, ConsumerAssumption
<1> QED
  BY <1>1, <1>3, <1>4, <1>5 DEF Repeticion

(* and through every step.                                                 *)
LEMMA RepeticionStep ==
  ASSUME Forma, Reparto, Reparto', Tenencia, Tenencia', Tope, Tope', Colas, Limpio,
         DBTipo(db), DBTipo(db'), Repeticion, [Next]_vars
  PROVE  Repeticion'
<1>1. PICK s, p, c, k \in Nat : /\ s = SumaDe(db.count, Pais) /\ p = Cardinality(Pendientes)
                                /\ c = Cardinality(Contados(Incr)) /\ k = Prefetch * fallos
  BY RepeticionTipo
<1>2. PICK s1, p1, c1 : /\ s1 = SumaDe(db'.count, Pais) /\ p1 = Cardinality(Pendientes')
                        /\ c1 = Cardinality(Contados(Incr)')
  OBVIOUS
<1>3. /\ s + p <= c + k /\ fallos \in Nat /\ Prefetch \in Nat
      /\ Pendientes \in SUBSET Reporte /\ Contados(Incr) \in SUBSET Reporte
  BY <1>1, RepeticionTipo DEF Repeticion
<1>4. Pendientes' \in SUBSET Reporte /\ Contados(Incr)' \in SUBSET Reporte
  <2>1. bandeja' \subseteq Reporte
    BY DEF Reparto, Tenencia
  <2> QED
    BY <2>1 DEF Reparto, Contados, Llevan, Pendientes
<1>5. \A S \in SUBSET Reporte : /\ IsFiniteSet(S) /\ Cardinality(S) \in Nat
                                /\ \A T \in SUBSET S : Cardinality(T) <= Cardinality(S)
                                /\ \A r \in S : Cardinality(S \ {r}) = Cardinality(S) - 1
                                /\ \A r : r \notin S => Cardinality(S \cup {r}) = Cardinality(S) + 1
  BY ConsumerAssumption, FS_Subset, FS_CardinalityType, FS_RemoveElement, FS_AddElement
<1>6. p1 \in Nat /\ c1 \in Nat
  BY <1>2, <1>4, <1>5
<1>7. SUFFICES s1 + p1 <= c1 + Prefetch * fallos'
  <2>1. Cardinality(Pendientes)' = p1 /\ Cardinality(Contados(Incr))' = c1 /\ SumaDe(db.count, Pais)' = s1
    BY <1>2 DEF SumaDe, EsSuma, Suma1
  <2> QED
    BY <2>1 DEF Repeticion
<1>8. ASSUME NEW w \in Worker, Comando(w) PROVE s1 + p1 <= c1 + Prefetch * fallos'
  <2>1. PICK o, r : o = Head(hilo[w].resto) /\ r = hilo[w].rep
    OBVIOUS
  <2>2. /\ o \in Operacion /\ r \in Reporte /\ r \in EnMano /\ db' = Aplica(db, o, r) /\ fallos' = fallos
        /\ \A q : q # o => Contados(q)' = Contados(q)
        /\ \/ conectado /\ r \notin Contados(o) /\ Contados(o)' = Contados(o) \cup {r}
           \/ Contados(o)' = Contados(o) /\ (conectado => o # Incr)
    BY <1>8, <2>1, ComandoCuenta
  <2>3. \A d \in Pais : db'.count[d] = db.count[d] + Suma(o = Incr /\ d = pais[r], 1)
    <3>1. Efecto(db, db', o, r)
      BY <2>2, AplicaEfecto
    <3> QED
      BY <3>1 DEF Efecto
  <2>4. Pendientes' \subseteq Pendientes
    BY <2>2, PendientesQuietos
  <2>5. Prefetch * fallos' = k
    BY <1>1, <2>2
  <2>6. p1 <= p
    BY <1>1, <1>2, <1>3, <1>5, <2>4
  <2>7. CASE o # Incr
    <3>1. Contados(Incr)' = Contados(Incr)
      BY <2>2, <2>7
    <3>2. db'.count = db.count
      <4>1. \A d \in Pais : db'.count[d] = db.count[d] + 0 /\ db.count[d] \in Nat
        BY <2>3, <2>7 DEF Suma, DBTipo
      <4> QED
        BY <4>1 DEF DBTipo
    <3> QED
      BY <1>1, <1>2, <1>3, <1>6, <2>5, <2>6, <3>1, <3>2
  <2>8. CASE o = Incr
    <3>1. s1 = s + 1
      <4>1. PICK g, h : g = db.count /\ h = db'.count
        OBVIOUS
      <4>2. \A d \in Pais : g[d] \in Nat /\ h[d] = IF d = pais[r] THEN g[d] + 1 ELSE g[d]
        BY <2>3, <2>8, <4>1 DEF Suma, DBTipo
      <4>3. pais[r] \in Pais /\ IsFiniteSet(Pais) /\ 1 \in Nat
        BY <2>2, ConsumerAssumption
      <4>4. SumaDe(h, Pais) = SumaDe(g, Pais) + 1
        BY <4>2, <4>3, SumaPunto
      <4> QED
        BY <1>1, <1>2, <4>1, <4>4
    <3>2. CASE conectado
      <4>1. Contados(Incr)' = Contados(Incr) \cup {r} /\ r \notin Contados(Incr)
        BY <2>2, <2>8, <3>2
      <4>2. c1 = c + 1
        BY <1>1, <1>2, <1>3, <1>5, <4>1
      <4> QED
        BY <1>3, <1>6, <2>5, <2>6, <3>1, <4>2
    <3>3. CASE ~conectado
      <4>1. c1 = c
        BY <1>1, <1>2, <2>2, <2>8, <3>3, ContadosCerrado
      <4>2. r \in Pendientes /\ r \notin Pendientes'
        <5>1. PICK h : h = hilo[w]
          OBVIOUS
        <5>2. DOMAIN h = Partes /\ h.fase = "exec" /\ h.resto # <<>> /\ Cola(h, fallos)
          BY <1>8, <5>1 DEF Comando, Forma, Bien, Colas
        <5>3. PICK g : g = [h EXCEPT !.resto = Tail(@)]
          OBVIOUS
        <5>4. Pasa(w, g) /\ UNCHANGED <<conectado, bandeja>>
          BY <1>8, <5>1, <5>3 DEF Comando
        <5>5. Incr \in Resta(h) /\ ~Pendiente(g)
          <6>1. Head(h.resto) \in Resta(h) /\ Incr \notin Resta(g)
            BY <5>2, <5>3, SigueCola
          <6> QED
            BY <2>1, <2>8, <5>1, <6>1 DEF Pendiente
        <5>6. Pendiente(h)
          BY <5>2, <5>5 DEF Pendiente
        <5>7. r \in Pendientes
          BY <2>1, <2>2, <3>3, <5>1, <5>6 DEF Pendientes
        <5>8. r \notin bandeja'
          BY <2>2, <5>4 DEF Tenencia
        <5>9. \A x \in Worker : hilo'[x] = IF x = w THEN g ELSE hilo[x]
          BY <5>4 DEF Forma, Pasa
        <5>10. \A x \in Worker : hilo[x].rep = r => x = w
          BY <2>1, <2>2, ConsumerAssumption DEF Tenencia
        <5>11. \A x \in Worker : ~(hilo'[x].rep = r /\ Pendiente(hilo'[x]))
          BY <5>5, <5>9, <5>10
        <5>12. r \notin Pendientes'
          BY <5>4, <5>8, <5>11 DEF Pendientes, Pendiente, Resta
        <5> QED
          BY <5>7, <5>12
      <4>3. p1 <= p - 1
        <5>1. Pendientes' \subseteq Pendientes \ {r}
          BY <2>4, <4>2
        <5>2. Cardinality(Pendientes \ {r}) = p - 1 /\ Pendientes \ {r} \in SUBSET Reporte
          BY <1>1, <1>3, <1>5, <4>2
        <5>3. Cardinality(Pendientes') <= Cardinality(Pendientes \ {r})
          BY <1>5, <5>1, <5>2
        <5> QED
          BY <1>2, <5>2, <5>3
      <4> QED
        BY <1>3, <1>6, <2>5, <3>1, <4>1, <4>3
    <3> QED
      BY <3>2, <3>3
  <2> QED
    BY <2>7, <2>8
<1>9. ASSUME Mengua PROVE s1 + p1 <= c1 + Prefetch * fallos'
  <2>1. s1 = s /\ (fallos' = fallos \/ fallos' = fallos + 1)
    BY <1>1, <1>2, <1>9 DEF Mengua, DBIgual
  <2>2. CASE fallos' = fallos
    <3>1. c1 = c
      BY <1>1, <1>2, <1>9, <2>2, Comandos DEF Mengua
    <3>2. p1 <= p
      BY <1>1, <1>2, <1>3, <1>5, <2>2, PendientesQuietos
    <3>3. Prefetch * fallos' = k
      BY <1>1, <2>2
    <3> QED
      BY <1>3, <1>6, <2>1, <3>1, <3>2, <3>3
  <2>3. CASE fallos' = fallos + 1
    <3>1. PICK X \in SUBSET Reporte :
            /\ Cardinality(X) <= Prefetch
            /\ Contados(Incr) \ Contados(Incr)' \subseteq X /\ Pendientes' \ Pendientes \subseteq X
            /\ (Contados(Incr) \ Contados(Incr)') \cap (Pendientes' \ Pendientes) = {}
      <4>1. fallos' # fallos
        BY <1>3, <2>3
      <4> QED
        BY <4>1, AdversoAbre
    <3>2. Cardinality(X) \in Nat
      BY <1>5
    <3>3. p1 + c <= p + c1 + Cardinality(X)
      BY <1>1, <1>2, <1>3, <1>4, <3>1, Hueco
    <3>4. Prefetch * fallos' = k + Prefetch
      BY <1>1, <1>3, <2>3
    <3> QED
      BY <1>3, <1>6, <2>1, <3>1, <3>2, <3>3, <3>4
  <2> QED
    BY <2>1, <2>2, <2>3
<1> QED
  <2>1. (\E w \in Worker : Comando(w)) \/ Mengua
    BY MenguaStep
  <2> QED
    BY <1>8, <1>9, <2>1

(* The invariant of the repetitions in every state.                        *)
LEMMA RepeticionAlways == Spec => []Repeticion
<1>1. IInv /\ IInv' /\ Datos /\ Datos' /\ Repeticion /\ [Next]_vars => Repeticion'
  <2> SUFFICES ASSUME IInv, IInv', Datos, Datos', Repeticion, [Next]_vars PROVE Repeticion'
    OBVIOUS
  <2>1. /\ Forma /\ Reparto /\ Reparto' /\ Tenencia /\ Tenencia' /\ Tope /\ Tope'
        /\ Colas /\ Limpio /\ DBTipo(db) /\ DBTipo(db')
    BY DEF IInv, Datos
  <2> QED
    BY <2>1, RepeticionStep
<1> QED
  BY <1>1, RepeticionInit, IInvAlways, DatosAlways, PTL DEF Spec

(* Only reports that decode are acknowledged.                              *)
Legibles == asentados \cap Malformado = {}

(* What is acknowledged was in the hands of a worker, and so it decodes.   *)
LEMMA LegiblesAlways == Spec => []Legibles
<1>1. Init => Legibles
  BY DEF Init, Legibles
<1>2. IInv /\ Legibles /\ [Next]_vars => Legibles'
  <2> SUFFICES ASSUME IInv, Legibles, [Next]_vars PROVE Legibles'
    OBVIOUS
  <2>1. ASSUME NEW w \in Worker, Ack(w) PROVE Legibles'
    <3>1. hilo[w].rep \in EnMano
      BY <2>1, ConsumerAssumption DEF Ack, IInv, Forma, Bien, EnMano
    <3>2. hilo[w].rep \notin Malformado
      BY <3>1 DEF IInv, Contado
    <3>3. asentados' \subseteq asentados \cup {hilo[w].rep}
      BY <2>1 DEF Ack, Asienta, Responde
    <3> QED
      BY <3>2, <3>3 DEF Legibles
  <2>2. CASE ~\E w \in Worker : Ack(w)
    <3>1. asentados' = asentados
      BY <2>2 DEF Next, vars, broker, worker, Publica, Entrega, CaeConexion, CierraCanal, Muere, Arranca,
             ReiniciaBroker, Reencola, Toma, Comando, ExecVuelve, Exito, Fallo, LeeModa, PoneModa,
             Termina, ComandoRechazado, ExecFalla, Devuelve, Descarta
    <3> QED
      BY <3>1 DEF Legibles
  <2> QED
    BY <2>1, <2>2
<1> QED
  BY <1>1, <1>2, IInvAlways, PTL DEF Spec

(* The reports of each country add up to all of them.                      *)
LEMMA SumaPaises ==
  ASSUME NEW A \in SUBSET Reporte
  PROVE  SumaDe([c \in Pais |-> Cardinality(De(A, c))], Pais) = Cardinality(A)
<1> DEFINE G(T) == [c \in Pais |-> Cardinality(De(T, c))]
           F == {T \in SUBSET A : SumaDe(G(T), Pais) = Cardinality(T)}
<1>1. \A T \in SUBSET Reporte : /\ IsFiniteSet(T) /\ Cardinality(T) \in Nat
                                /\ \A r \in T : Cardinality(T) = Cardinality(T \ {r}) + 1
  <2>1. \A T \in SUBSET Reporte : IsFiniteSet(T) /\ Cardinality(T) \in Nat
    BY ConsumerAssumption, FS_Subset, FS_CardinalityType
  <2>2. ASSUME NEW T \in SUBSET Reporte, NEW r \in T PROVE Cardinality(T) = Cardinality(T \ {r}) + 1
    <3>1. Cardinality(T \ {r}) = Cardinality(T) - 1
      BY <2>1, <2>2, FS_RemoveElement
    <3> QED
      BY <2>1, <3>1
  <2> QED
    BY <2>1, <2>2
<1>2. \A T \in SUBSET Reporte : \A c \in Pais : G(T)[c] = Cardinality(De(T, c)) /\ G(T)[c] \in Nat
  <2> TAKE T \in SUBSET Reporte
  <2> TAKE c \in Pais
  <2>1. De(T, c) \in SUBSET Reporte
    BY DEF De
  <2> QED
    BY <1>1, <2>1
<1> HIDE DEF G
<1>3. {} \in F
  <2>1. \A c : De({}, c) = {}
    BY DEF De
  <2>2. Cardinality({}) = 0
    BY FS_EmptySet
  <2>3. PICK g : g = G({})
    OBVIOUS
  <2>4. \A c \in Pais : g[c] = 0
    BY <1>2, <2>1, <2>2, <2>3
  <2>5. \A c \in Pais : g[c] \in Int /\ g[c] = g[c] + g[c]
    BY <2>4
  <2>6. SumaDe(g, Pais) = SumaDe(g, Pais) + SumaDe(g, Pais) /\ SumaDe(g, Pais) \in Int
    <3>1. SumaDe(g, Pais) = SumaDe(g, Pais) + SumaDe(g, Pais)
      BY <2>5, SumaLineal, ConsumerAssumption
    <3>2. SumaDe(g, Pais) \in Int
      BY <2>5, SumaQuita, ConsumerAssumption
    <3> QED
      BY <3>1, <3>2
  <2>7. SumaDe(g, Pais) = 0
    <3>1. PICK k \in Nat : k = SumaDe(g, Pais)
      BY <2>6
    <3>2. k = k + k
      BY <2>6, <3>1, Zenon
    <3>3. k = 0
      BY <3>2
    <3> QED
      BY <3>1, <3>3
  <2>8. SumaDe(G({}), Pais) = Cardinality({}) /\ {} \in SUBSET A
    BY <2>2, <2>3, <2>7
  <2> QED
    BY <2>8
<1>4. ASSUME NEW T \in SUBSET A, T # {}, \A x \in T : T \ {x} \in F PROVE T \in F
  <2>1. PICK x \in T : TRUE
    BY <1>4
  <2>2. PICK U : U = T \ {x}
    OBVIOUS
  <2>3. U \in SUBSET Reporte /\ x \in Reporte /\ x \notin U /\ T = U \cup {x} /\ T \in SUBSET Reporte
    BY <2>2
  <2>4. SumaDe(G(U), Pais) = Cardinality(U)
    BY <1>4, <2>1, <2>2
  <2>5. Cardinality(T) = Cardinality(U) + 1
    BY <1>1, <2>2, <2>3
  <2>6. PICK g, h : g = G(U) /\ h = G(T)
    OBVIOUS
  <2>7. \A c \in Pais : g[c] \in Nat /\ h[c] = IF c = pais[x] THEN g[c] + 1 ELSE g[c]
    <3> TAKE c \in Pais
    <3>1. Cardinality(De(T, c)) = Cardinality(De(U, c)) + IF c = pais[x] THEN 1 ELSE 0
      <4>1. \A d : Cardinality(De(U \cup {x}, d)) = Cardinality(De(U, d)) + IF d = pais[x] THEN 1 ELSE 0
        BY <2>3, MedidaMas, Zenon
      <4> QED
        BY <2>3, <4>1, Zenon
    <3>2. g[c] = Cardinality(De(U, c)) /\ g[c] \in Nat /\ h[c] = Cardinality(De(T, c))
      BY <1>2, <2>3, <2>6
    <3> QED
      BY <3>1, <3>2
  <2>8. pais[x] \in Pais /\ IsFiniteSet(Pais) /\ 1 \in Nat
    BY <2>3, ConsumerAssumption
  <2>9. SumaDe(h, Pais) = SumaDe(g, Pais) + 1
    BY <2>7, <2>8, SumaPunto
  <2> QED
    BY <2>4, <2>5, <2>6, <2>9
<1>5. IsFiniteSet(A) /\ F \in SUBSET SUBSET A
  BY <1>1
<1> HIDE DEF F
<1>6. F = SUBSET A
  BY <1>3, <1>4, <1>5, InduccionPartes
<1>7. A \in F
  BY <1>6
<1> QED
  BY <1>7 DEF F, G

(* The sum of OvercountBounded is one of these sums.                       *)
LEMMA SobraEsSuma ==
  ASSUME IsFiniteSet(Pais), NEW g, \A c \in Pais : g[c] = Sobra(c) /\ g[c] \in Nat
  PROVE  MapThenSumSet(Sobra, Pais) = SumaDe(g, Pais)
<1> DEFINE Ec(f) == f = [s \in SUBSET Pais |-> IF s = {} THEN 0
                    ELSE LET x == CHOOSE x \in s : TRUE IN Sobra(x) + f[s \ {x}]]
           F == CHOOSE f : Ec(f)
<1>1. MapThenSumSet(Sobra, Pais) = F[Pais]
  BY DEF MapThenSumSet, MapThenFoldSet
<1>3. ASSUME NEW f PROVE Ec(f) <=> EsSuma(Pais, g, f)
  <2>1. ASSUME NEW s \in SUBSET Pais
        PROVE  Suma1(g, f, s) = IF s = {} THEN 0
                    ELSE LET x == CHOOSE x \in s : TRUE IN Sobra(x) + f[s \ {x}]
    <3>1. CASE s = {}
      BY <3>1 DEF Suma1
    <3>2. CASE s # {}
      <4>1. PICK x \in s : x = CHOOSE y \in s : TRUE
        BY <3>2
      <4>2. Suma1(g, f, s) = g[x] + f[s \ {x}] /\ g[x] = Sobra(x)
        BY <3>2, <4>1 DEF Suma1
      <4> QED
        BY <3>2, <4>1, <4>2
    <3> QED
      BY <3>1, <3>2
  <2>2. [s \in SUBSET Pais |-> Suma1(g, f, s)] =
          [s \in SUBSET Pais |-> IF s = {} THEN 0
                    ELSE LET x == CHOOSE x \in s : TRUE IN Sobra(x) + f[s \ {x}]]
    BY <2>1
  <2> QED
    BY <2>2 DEF EsSuma
<1> HIDE DEF Ec
<1>4. \E f : Ec(f)
  <2>1. PICK f : EsSuma(Pais, g, f)
    BY SumaExiste
  <2>2. Ec(f)
    BY <1>3, <2>1
  <2> QED
    BY <2>2
<1>5. Ec(F)
  BY <1>4
<1>6. EsSuma(Pais, g, F)
  BY <1>3, <1>5
<1>7. F[Pais] = SumaDe(g, Pais)
  BY <1>6, SumaUnica
<1> QED
  BY <1>1, <1>7

(* Repetition is bounded: each adverse event makes the consumer count      *)
(* again at most as many reports as the prefetch, over all the countries   *)
(* together (main.go 138, 150-162).                                        *)
THEOREM OvercountAlwaysBounded == Spec => []OvercountBounded
<1>1. ASSUME IInv, Datos, Legibles, Repeticion PROVE OvercountBounded
  <2>1. /\ Reparto /\ Tenencia /\ Tope /\ DBTipo(db) /\ SumasDe(db, Cuenta, fallos)
        /\ Cuenta[Incr] = Contados(Incr) /\ EnMano \cap Malformado = {} /\ IsFiniteSet(Pais)
    BY <1>1, Comandos, ConsumerAssumption DEF IInv, Contado, Datos, Sumas, Cuenta
  <2>2. PICK A, B : A = Contados(Incr) /\ B = Reporte \ (nuevos \cup Malformado)
    OBVIOUS
  <2>3. A \in SUBSET B /\ B \in SUBSET Reporte
    <3>1. Llevan(Incr) \subseteq EnMano
      BY ConsumerAssumption DEF Llevan, EnMano
    <3>2. EnMano \cap nuevos = {} /\ EnMano \subseteq Reporte
      BY <2>1 DEF Tenencia, Reparto
    <3>3. asentados \cap (nuevos \cup Malformado) = {} /\ asentados \subseteq Reporte
      BY <1>1, <2>1 DEF Legibles, Reparto
    <3> QED
      BY <2>1, <2>2, <3>1, <3>2, <3>3 DEF Contados
  <2>4. PICK g, h, j : /\ g = [c \in Pais |-> Cardinality(De(A, c))]
                       /\ h = [c \in Pais |-> db.count[c] - Cardinality(De(A, c))]
                       /\ j = [c \in Pais |-> Sobra(c)]
    OBVIOUS
  <2>5. ASSUME NEW c \in Pais
        PROVE  /\ g[c] \in Nat /\ h[c] \in Nat /\ db.count[c] = g[c] + h[c]
               /\ j[c] = Sobra(c) /\ j[c] \in Nat /\ j[c] <= h[c]
    <3>1. PICK a, b, n : a = Cardinality(De(A, c)) /\ b = Cardinality(De(B, c)) /\ n = db.count[c]
      OBVIOUS
    <3>2. a \in Nat /\ b \in Nat /\ a <= b
      BY <2>3, <3>1, MedidaMenos
    <3>3. n \in Nat /\ n >= a
      BY <2>1, <2>2, <3>1 DEF DBTipo, SumasDe, Acumula
    <3>4. Sobra(c) = IF n > b THEN n - b ELSE 0
      BY <2>2, <3>1 DEF Sobra
    <3>5. g[c] = a /\ h[c] = n - a /\ j[c] = Sobra(c)
      BY <2>4, <3>1
    <3> QED
      BY <3>1, <3>2, <3>3, <3>4, <3>5
  <2>6. SumaDe(g, Pais) = Cardinality(A)
    BY <2>3, <2>4, SumaPaises
  <2>7. SumaDe(db.count, Pais) = SumaDe(g, Pais) + SumaDe(h, Pais)
    BY <2>1, <2>5, SumaLineal
  <2>8. SumaDe(j, Pais) <= SumaDe(h, Pais)
    BY <2>1, <2>5, SumaMayor
  <2>9. MapThenSumSet(Sobra, Pais) = SumaDe(j, Pais)
    BY <2>1, <2>5, SobraEsSuma
  <2>10. SumaDe(h, Pais) \in Nat /\ SumaDe(j, Pais) \in Nat
    BY <2>1, <2>5, SumaNatural
  <2>11. /\ Cardinality(A) \in Nat /\ Cardinality(Pendientes) \in Nat /\ Prefetch * fallos \in Nat
         /\ SumaDe(db.count, Pais) + Cardinality(Pendientes) <= Cardinality(A) + Prefetch * fallos
    BY <1>1, <2>1, <2>2, RepeticionTipo DEF Repeticion
  <2>12. SumaDe(j, Pais) <= Prefetch * fallos
    <3>1. PICK a, p, k \in Nat : a = Cardinality(A) /\ p = Cardinality(Pendientes) /\ k = Prefetch * fallos
      BY <2>11
    <3> QED
      BY <2>6, <2>7, <2>8, <2>10, <2>11, <3>1
  <2> QED
    BY <2>9, <2>12 DEF OvercountBounded
<1> QED
  BY <1>1, IInvAlways, DatosAlways, LegiblesAlways, RepeticionAlways, PTL
=============================================================================
