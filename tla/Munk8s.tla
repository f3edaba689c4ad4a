------------------------------ MODULE Munk8s --------------------------------
(***************************************************************************)
(* The path of a report from HTTP to the aggregates: rust-api, go-client   *)
(* and go-server, each handler of which waits for the next one, composed   *)
(* with what the queue and go-consumer promise (Entrega, which Consumer    *)
(* implements).  Each request carries one report.                          *)
(*                                                                         *)
(* The hops fail separately: the gRPC deadline of go-client strikes, the   *)
(* caller leaves, a pod dies, the AMQP connection is lost, the broker      *)
(* restarts or stops reading.  An outage of a pod is collapsed to its end: *)
(* a request that arrives meanwhile is one that was there when it began.   *)
(* Envoy and the load generator are the environment that calls Pide.       *)
(***************************************************************************)
EXTENDS Naturals, FiniteSets

CONSTANTS Reporte,
          Pais,         \* the countries that callers write
          ValidoRust,   \* those in VALID after to_uppercase
          ValidoGo,     \* those in Countries_value after ToLower
          Buffer,       \* messages that fit in the socket while nobody reads it
          MaxFallos,    \* bound: adverse events
          MaxCuentas    \* bound: times a report is counted

ASSUME Munk8sAssumption == /\ ValidoRust \subseteq Pais /\ ValidoGo \subseteq Pais
                           /\ Buffer \in Nat \ {0}
                           /\ MaxFallos \in Nat /\ MaxCuentas \in Nat

VARIABLES pais,     \* the country each request names
          rust,     \* what rust-api is doing with each request
          cli,      \* the same for go-client
          srv,      \* the same for go-server
          enlace,   \* the gRPC connection is ready
          sirve,    \* go-server is running
          canal,    \* its AMQP channel is open
          cable,    \* written to the AMQP socket, not yet read by the broker
          caidos,   \* gone with that socket
          alarma,   \* the broker does not read from publishers
          estado, veces,    \* the ledger of Entrega
          fallos            \* adverse events so far

saltos == <<pais, rust, cli, srv>>
red == <<enlace, sirve, canal, cable, caidos, alarma>>
libro == <<estado, veces>>
vars == <<saltos, red, libro, fallos>>

Cola == INSTANCE Entrega WITH Malformado <- {}

Adverso == fallos < MaxFallos /\ fallos' = fallos + 1
Pon(var, r, x) == [var EXCEPT ![r] = x]

----------------------------------------------------------------------------
(* rust-api: report.  Nothing limits the time it waits for go-client.      *)
Pide(r) == /\ rust[r] = "nada"
           /\ rust' = Pon(rust, r, IF pais[r] \in ValidoRust THEN "espera" ELSE "400")
           /\ UNCHANGED <<pais, cli, srv, red, libro, fallos>>
(* The caller leaves, or the pod of rust-api that has the request dies.    *)
Corta(r) == /\ rust[r] = "espera" /\ Adverso
            /\ rust' = Pon(rust, r, "cortada")
            /\ UNCHANGED <<pais, cli, srv, red, libro>>
(* Any answer of go-client but a success is a 502.                         *)
Responde(r) == /\ rust[r] = "espera" /\ cli[r] \in {"ok", "400", "error", "incierta"}
               /\ rust' = Pon(rust, r, IF cli[r] = "ok" THEN "ok" ELSE "502")
               /\ UNCHANGED <<pais, cli, srv, red, libro, fallos>>

(* go-client: the handler of /report, up to the call of SendReport, which  *)
(* fails at once when there is no connection.                              *)
ClienteRecibe(r) ==
  /\ rust[r] \in {"espera", "cortada"} /\ cli[r] = "nada"
  /\ cli' = Pon(cli, r, CASE pais[r] \notin ValidoGo -> "400"
                          [] pais[r] \in ValidoGo /\ ~enlace -> "error"
                          [] OTHER -> "espera")
  /\ UNCHANGED <<pais, rust, srv, red, libro, fallos>>
(* The context ends: 5 s have passed, or the caller has left.  What        *)
(* go-server is doing goes on.  The mutant has no deadline.                *)
VenceSoloCortadas(r) == /\ cli[r] = "espera" /\ rust[r] = "cortada"
                        /\ cli' = Pon(cli, r, "incierta")
                        /\ UNCHANGED <<pais, rust, srv, red, libro, fallos>>
Vence(r) == /\ cli[r] = "espera"
            /\ cli' = Pon(cli, r, "incierta")
            /\ UNCHANGED <<pais, rust, srv, red, libro, fallos>>
(* The pod dies with the requests it has; rust-api sees a broken           *)
(* connection.                                                             *)
ClienteMuere ==
  /\ Adverso
  /\ cli' = [r \in Reporte |-> IF rust[r] = "espera" \/ cli[r] = "espera" THEN "incierta" ELSE cli[r]]
  /\ UNCHANGED <<pais, rust, srv, red, libro>>

----------------------------------------------------------------------------
(* go-server: SendReport.  PublishWithContext writes to the socket, does   *)
(* not look at its context and waits for no confirmation; it blocks while  *)
(* the socket is full, and fails once the channel is closed.  The mutants  *)
(* ignore its error, or answer before they publish.                        *)
ServidorRecibe(r) == /\ cli[r] = "espera" /\ srv[r] = "nada" /\ enlace
                     /\ srv' = Pon(srv, r, "recibida")
                     /\ UNCHANGED <<pais, rust, cli, red, libro, fallos>>
SendReportIgnora(r) ==
  /\ srv[r] = "recibida" /\ sirve
  /\ canal => Cardinality(cable) < Buffer
  /\ srv' = Pon(srv, r, "publicada")
  /\ cable' = IF canal THEN cable \cup {r} ELSE cable
  /\ UNCHANGED <<pais, rust, cli, enlace, sirve, canal, caidos, alarma, libro, fallos>>
SendReport(r) ==
  /\ srv[r] = "recibida" /\ sirve
  /\ \/ /\ canal /\ Cardinality(cable) < Buffer
        /\ cable' = cable \cup {r} /\ srv' = Pon(srv, r, "publicada")
     \/ /\ ~canal
        /\ srv' = Pon(srv, r, "fallida") /\ UNCHANGED cable
  /\ UNCHANGED <<pais, rust, cli, enlace, sirve, canal, caidos, alarma, libro, fallos>>
(* The response reaches go-client, if it still waits.                      *)
ContestaPronto(r) ==
  /\ cli[r] = "espera" /\ srv[r] \in {"recibida", "publicada", "fallida"} /\ enlace
  /\ cli' = Pon(cli, r, IF srv[r] = "publicada" THEN "ok" ELSE "error")
  /\ UNCHANGED <<pais, rust, srv, red, libro, fallos>>
Contesta(r) ==
  /\ cli[r] = "espera" /\ srv[r] \in {"publicada", "fallida"} /\ enlace
  /\ cli' = Pon(cli, r, IF srv[r] = "publicada" THEN "ok" ELSE "error")
  /\ UNCHANGED <<pais, rust, srv, red, libro, fallos>>

(* The socket goes away with part of what it held; the broker has read the *)
(* rest, or will.                                                          *)
CierraCable == \E S \in SUBSET cable : cable' = S /\ caidos' = caidos \cup (cable \ S)
(* The process does not notice more than errors: nothing reconnects.       *)
CanalCae == /\ canal /\ Adverso /\ canal' = FALSE /\ CierraCable
            /\ UNCHANGED <<saltos, enlace, sirve, alarma, libro>>
(* The pod dies; the calls in progress fail with Unavailable.              *)
ServidorMuere ==
  /\ sirve /\ Adverso
  /\ sirve' = FALSE /\ enlace' = FALSE /\ canal' = FALSE /\ CierraCable
  /\ srv' = [r \in Reporte |-> IF srv[r] = "recibida" THEN "muerta" ELSE srv[r]]
  /\ cli' = [r \in Reporte |-> IF cli[r] = "espera" THEN "incierta" ELSE cli[r]]
  /\ UNCHANGED <<pais, rust, alarma, libro>>
(* main: connect, QueueDeclare and only then Serve.                        *)
ServidorArranca == /\ ~sirve /\ sirve' = TRUE /\ canal' = TRUE
                   /\ UNCHANGED <<saltos, enlace, cable, caidos, alarma, libro, fallos>>
(* grpc reconnects by itself.                                              *)
Reconecta == /\ sirve /\ ~enlace /\ enlace' = TRUE
             /\ UNCHANGED <<saltos, sirve, canal, cable, caidos, alarma, libro, fallos>>

----------------------------------------------------------------------------
(* The broker and the consumer.                                            *)
Llega(r) == /\ r \in cable /\ ~alarma /\ cable' = cable \ {r} /\ Cola!Publica(r)
            /\ UNCHANGED <<saltos, enlace, sirve, canal, caidos, alarma, fallos>>
Cuenta(r) == /\ veces[r] < MaxCuentas /\ Cola!Cuenta(r)
             /\ UNCHANGED <<saltos, red, fallos>>
Asienta(r) == Cola!Asienta(r) /\ UNCHANGED <<saltos, red, fallos>>
(* Short of memory it blocks the publishers until the consumer drains it.  *)
Alarma == /\ ~alarma /\ Adverso /\ alarma' = TRUE
          /\ UNCHANGED <<saltos, enlace, sirve, canal, cable, caidos, libro>>
CesaAlarma == /\ alarma /\ alarma' = FALSE
              /\ UNCHANGED <<saltos, enlace, sirve, canal, cable, caidos, libro, fallos>>
(* It has no volume, and its connections end with it.                      *)
ReiniciaBroker == /\ Adverso /\ Cola!Pierde
                  /\ canal' = FALSE /\ cable' = {} /\ caidos' = caidos \cup cable
                  /\ alarma' = FALSE
                  /\ UNCHANGED <<saltos, enlace, sirve>>

Init == /\ pais \in [Reporte -> Pais]
        /\ rust = [r \in Reporte |-> "nada"] /\ cli = [r \in Reporte |-> "nada"]
        /\ srv = [r \in Reporte |-> "nada"]
        /\ enlace = TRUE /\ sirve = TRUE /\ canal = TRUE
        /\ cable = {} /\ caidos = {} /\ alarma = FALSE /\ fallos = 0
        /\ Cola!Init
Next == \/ ClienteMuere \/ CanalCae \/ ServidorMuere \/ ServidorArranca \/ Reconecta
        \/ Alarma \/ CesaAlarma \/ ReiniciaBroker
        \/ \E r \in Reporte : \/ Pide(r) \/ Corta(r) \/ Responde(r) \/ ClienteRecibe(r)
                              \/ Vence(r) \/ ServidorRecibe(r) \/ SendReport(r) \/ Contesta(r)
                              \/ Llega(r) \/ Cuenta(r) \/ Asienta(r)
Spec == Init /\ [][Next]_vars
(* Handlers of rust-api and go-client run and deadlines pass; the broker   *)
(* reads what it has not blocked, and go-consumer drains the queue (Drains *)
(* of Consumer).  Nothing obliges go-server to publish or to answer.       *)
FairSpec == /\ Spec /\ WF_vars(CesaAlarma)
            /\ \A r \in Reporte : /\ WF_vars(ClienteRecibe(r)) /\ WF_vars(Vence(r))
                                  /\ WF_vars(Responde(r)) /\ WF_vars(Llega(r))
                                  /\ WF_vars(Cuenta(r)) /\ WF_vars(Asienta(r))

----------------------------------------------------------------------------
(* Properties.                                                             *)
TypeOK == /\ pais \in [Reporte -> Pais]
          /\ rust \in [Reporte -> {"nada", "espera", "ok", "400", "502", "cortada"}]
          /\ cli \in [Reporte -> {"nada", "espera", "ok", "400", "error", "incierta"}]
          /\ srv \in [Reporte -> {"nada", "recibida", "publicada", "fallida", "muerta"}]
          /\ enlace \in BOOLEAN /\ sirve \in BOOLEAN /\ canal \in BOOLEAN /\ alarma \in BOOLEAN
          /\ cable \subseteq Reporte /\ caidos \subseteq Reporte
          /\ estado \in [Reporte -> Cola!Estados] /\ veces \in [Reporte -> 0..MaxCuentas]
          /\ fallos \in 0..MaxFallos

(* A report is at one place between go-server and the ledger, and it is    *)
(* somewhere exactly when SendReport has written it: the answer "ok" that  *)
(* the caller saw, three hops away, is about a report that was written,    *)
(* even if the channel failed right after (main.go of go-server, 23-36).   *)
Escritos == {r \in Reporte : srv[r] = "publicada"}
OkWasPublished ==
  /\ Escritos = cable \cup caidos \cup {r \in Reporte : estado[r] # "fuera"}
  /\ cable \cap caidos = {} /\ \A r \in cable \cup caidos : estado[r] = "fuera"
  /\ \A r \in Reporte : rust[r] = "ok" => r \in Escritos

(* A report that was refused, for its country or with an error of          *)
(* go-server, is not counted then or later.  Only an uncertain answer (the *)
(* deadline, a broken hop, a caller that left) may be followed by the      *)
(* report being published all the same (go-client 53-63, rust-api 28-41).  *)
RefusedNeverCounted ==
  /\ \A r \in Reporte : rust[r] = "400" \/ cli[r] \in {"400", "error"} =>
       /\ estado[r] = "fuera" /\ r \notin cable /\ srv[r] \in {"nada", "fallida"}
  /\ \A r \in Reporte : rust[r] = "502" /\ veces[r] > 0 => cli[r] = "incierta"

(* Every request is answered although rust-api has no timeout and          *)
(* go-server may block for ever on a broker that does not read: the        *)
(* deadline of go-client bounds them all (go-client 53).                   *)
Answered == \A r \in Reporte : rust[r] = "espera" ~> rust[r] # "espera"

(* A report answered ok ends in the aggregates, unless the broker or the   *)
(* socket lost it.                                                         *)
OkIsCounted == \A r \in Reporte :
  rust[r] = "ok" ~> (veces[r] > 0 \/ r \in caidos \/ estado[r] = "perdido")
=============================================================================
