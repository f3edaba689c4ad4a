---------------------------- MODULE Munk8sProofs ----------------------------
(***************************************************************************)
(* Proofs about the path of a report from HTTP to the ledger, for any      *)
(* number of requests and faults, any countries and any size of socket.    *)
(***************************************************************************)
EXTENDS Munk8s, TLAPS

(* The types without the Boolean variables, in which SMT has no part.      *)
Saltos == /\ rust \in [Reporte -> {"nada", "espera", "ok", "400", "502", "cortada"}]
          /\ cli \in [Reporte -> {"nada", "espera", "ok", "400", "error", "incierta"}]
          /\ srv \in [Reporte -> {"nada", "recibida", "publicada", "fallida", "muerta"}]
Cuentas == /\ cable \subseteq Reporte /\ caidos \subseteq Reporte
           /\ estado \in [Reporte -> Cola!Estados] /\ veces \in [Reporte -> 0..MaxCuentas]
           /\ pais \in [Reporte -> Pais] /\ fallos \in 0..MaxFallos
Booleanos == /\ enlace \in BOOLEAN /\ sirve \in BOOLEAN
             /\ canal \in BOOLEAN /\ alarma \in BOOLEAN

(* What one hop knows of the next: a hop that has been answered with a     *)
(* success had one to report, one that was refused never got further, and  *)
(* only an uncertain answer says nothing about the rest of the path.       *)
Flujo == \A r \in Reporte :
  /\ rust[r] \in {"nada", "400"} => cli[r] = "nada"
  /\ cli[r] \in {"nada", "400"} => srv[r] = "nada"
  /\ cli[r] = "error" => srv[r] \in {"nada", "fallida"}
  /\ cli[r] = "ok" \/ rust[r] = "ok" => srv[r] = "publicada"
  /\ rust[r] = "502" => cli[r] \in {"400", "error", "incierta"}

(* Where a written report is: in the socket, gone with it or in the        *)
(* ledger, in one of them only, and counted in the ledger alone.           *)
Lugar == \A r \in Reporte :
  /\ srv[r] = "publicada" <=> (r \in cable \/ r \in caidos \/ estado[r] # "fuera")
  /\ r \in cable => r \notin caidos
  /\ r \in cable \cup caidos => estado[r] = "fuera"
  /\ veces[r] > 0 => estado[r] # "fuera"

IInv == Saltos /\ Cuentas /\ Flujo /\ Lugar

(* Every step keeps the hops of a request in their types.                  *)
LEMMA SaltosStep == Saltos /\ [Next]_vars => Saltos'
<1> SUFFICES ASSUME Saltos, [Next]_vars PROVE Saltos'
  OBVIOUS
<1> USE DEF Saltos, Adverso, Pon, saltos, red, libro
<1>1. CASE ClienteMuere
  BY <1>1 DEF ClienteMuere
<1>2. CASE CanalCae
  BY <1>2 DEF CanalCae, CierraCable
<1>3. CASE ServidorMuere
  BY <1>3 DEF ServidorMuere, CierraCable
<1>4. CASE ServidorArranca
  BY <1>4 DEF ServidorArranca
<1>5. CASE Reconecta
  BY <1>5 DEF Reconecta
<1>6. CASE Alarma
  BY <1>6 DEF Alarma
<1>7. CASE CesaAlarma
  BY <1>7 DEF CesaAlarma
<1>8. CASE ReiniciaBroker
  BY <1>8 DEF ReiniciaBroker, Cola!Pierde
<1>9. ASSUME NEW r \in Reporte, Pide(r) PROVE Saltos'
  BY <1>9 DEF Pide
<1>10. ASSUME NEW r \in Reporte, Corta(r) PROVE Saltos'
  BY <1>10 DEF Corta
<1>11. ASSUME NEW r \in Reporte, Responde(r) PROVE Saltos'
  BY <1>11 DEF Responde
<1>12. ASSUME NEW r \in Reporte, ClienteRecibe(r) PROVE Saltos'
  BY <1>12 DEF ClienteRecibe
<1>13. ASSUME NEW r \in Reporte, Vence(r) PROVE Saltos'
  BY <1>13 DEF Vence
<1>14. ASSUME NEW r \in Reporte, ServidorRecibe(r) PROVE Saltos'
  BY <1>14 DEF ServidorRecibe
<1>15. ASSUME NEW r \in Reporte, SendReport(r) PROVE Saltos'
  BY <1>15 DEF SendReport
<1>16. ASSUME NEW r \in Reporte, Contesta(r) PROVE Saltos'
  BY <1>16 DEF Contesta
<1>17. ASSUME NEW r \in Reporte, Llega(r) PROVE Saltos'
  BY <1>17 DEF Llega, Cola!Publica, Cola!Mueve
<1>18. ASSUME NEW r \in Reporte, Cuenta(r) PROVE Saltos'
  BY <1>18 DEF Cuenta, Cola!Cuenta
<1>19. ASSUME NEW r \in Reporte, Asienta(r) PROVE Saltos'
  BY <1>19 DEF Asienta, Cola!Asienta, Cola!Mueve
<1>20. CASE UNCHANGED vars
  BY <1>20 DEF vars
<1> QED
  BY <1>1, <1>2, <1>3, <1>4, <1>5, <1>6, <1>7, <1>8, <1>9, <1>10, <1>11,
     <1>12, <1>13, <1>14, <1>15, <1>16, <1>17, <1>18, <1>19, <1>20
     DEF Next

(* Every step keeps the reports in the network and in the ledger in their  *)
(* types.                                                                  *)
LEMMA CuentasStep == Cuentas /\ [Next]_vars => Cuentas'
<1> SUFFICES ASSUME Cuentas, [Next]_vars PROVE Cuentas'
  OBVIOUS
<1> USE Munk8sAssumption 
    DEF Cuentas, Cola!Estados, Adverso, Pon, saltos, red, libro
<1>1. CASE ClienteMuere
  BY <1>1 DEF ClienteMuere
<1>2. CASE CanalCae
  BY <1>2 DEF CanalCae, CierraCable
<1>3. CASE ServidorMuere
  BY <1>3 DEF ServidorMuere, CierraCable
<1>4. CASE ServidorArranca
  BY <1>4 DEF ServidorArranca
<1>5. CASE Reconecta
  BY <1>5 DEF Reconecta
<1>6. CASE Alarma
  BY <1>6 DEF Alarma
<1>7. CASE CesaAlarma
  BY <1>7 DEF CesaAlarma
<1>8. CASE ReiniciaBroker
  BY <1>8 DEF ReiniciaBroker, Cola!Pierde
<1>9. ASSUME NEW r \in Reporte, Pide(r) PROVE Cuentas'
  BY <1>9 DEF Pide
<1>10. ASSUME NEW r \in Reporte, Corta(r) PROVE Cuentas'
  BY <1>10 DEF Corta
<1>11. ASSUME NEW r \in Reporte, Responde(r) PROVE Cuentas'
  BY <1>11 DEF Responde
<1>12. ASSUME NEW r \in Reporte, ClienteRecibe(r) PROVE Cuentas'
  BY <1>12 DEF ClienteRecibe
<1>13. ASSUME NEW r \in Reporte, Vence(r) PROVE Cuentas'
  BY <1>13 DEF Vence
<1>14. ASSUME NEW r \in Reporte, ServidorRecibe(r) PROVE Cuentas'
  BY <1>14 DEF ServidorRecibe
<1>15. ASSUME NEW r \in Reporte, SendReport(r) PROVE Cuentas'
  BY <1>15 DEF SendReport
<1>16. ASSUME NEW r \in Reporte, Contesta(r) PROVE Cuentas'
  BY <1>16 DEF Contesta
<1>17. ASSUME NEW r \in Reporte, Llega(r) PROVE Cuentas'
  BY <1>17 DEF Llega, Cola!Publica, Cola!Mueve
<1>18. ASSUME NEW r \in Reporte, Cuenta(r) PROVE Cuentas'
  BY <1>18 DEF Cuenta, Cola!Cuenta
<1>19. ASSUME NEW r \in Reporte, Asienta(r) PROVE Cuentas'
  BY <1>19 DEF Asienta, Cola!Asienta, Cola!Mueve
<1>20. CASE UNCHANGED vars
  BY <1>20 DEF vars
<1> QED
  BY <1>1, <1>2, <1>3, <1>4, <1>5, <1>6, <1>7, <1>8, <1>9, <1>10, <1>11,
     <1>12, <1>13, <1>14, <1>15, <1>16, <1>17, <1>18, <1>19, <1>20
     DEF Next

(* Every step keeps the hops of a request in order.                        *)
LEMMA FlujoStep == Saltos /\ Flujo /\ [Next]_vars => Flujo'
<1> SUFFICES ASSUME Saltos, Flujo, [Next]_vars PROVE Flujo'
  OBVIOUS
<1> USE DEF Saltos, Flujo, Adverso, Pon, saltos, red, libro
<1>1. CASE ClienteMuere
  BY <1>1 DEF ClienteMuere
<1>2. CASE CanalCae
  BY <1>2 DEF CanalCae, CierraCable
<1>3. CASE ServidorMuere
  BY <1>3 DEF ServidorMuere, CierraCable
<1>4. CASE ServidorArranca
  BY <1>4 DEF ServidorArranca
<1>5. CASE Reconecta
  BY <1>5 DEF Reconecta
<1>6. CASE Alarma
  BY <1>6 DEF Alarma
<1>7. CASE CesaAlarma
  BY <1>7 DEF CesaAlarma
<1>8. CASE ReiniciaBroker
  BY <1>8 DEF ReiniciaBroker, Cola!Pierde
<1>9. ASSUME NEW r \in Reporte, Pide(r) PROVE Flujo'
  BY <1>9 DEF Pide
<1>10. ASSUME NEW r \in Reporte, Corta(r) PROVE Flujo'
  BY <1>10 DEF Corta
<1>11. ASSUME NEW r \in Reporte, Responde(r) PROVE Flujo'
  BY <1>11 DEF Responde
<1>12. ASSUME NEW r \in Reporte, ClienteRecibe(r) PROVE Flujo'
  BY <1>12 DEF ClienteRecibe
<1>13. ASSUME NEW r \in Reporte, Vence(r) PROVE Flujo'
  BY <1>13 DEF Vence
<1>14. ASSUME NEW r \in Reporte, ServidorRecibe(r) PROVE Flujo'
  BY <1>14 DEF ServidorRecibe
<1>15. ASSUME NEW r \in Reporte, SendReport(r) PROVE Flujo'
  BY <1>15 DEF SendReport
<1>16. ASSUME NEW r \in Reporte, Contesta(r) PROVE Flujo'
  BY <1>16 DEF Contesta
<1>17. ASSUME NEW r \in Reporte, Llega(r) PROVE Flujo'
  BY <1>17 DEF Llega, Cola!Publica, Cola!Mueve
<1>18. ASSUME NEW r \in Reporte, Cuenta(r) PROVE Flujo'
  BY <1>18 DEF Cuenta, Cola!Cuenta
<1>19. ASSUME NEW r \in Reporte, Asienta(r) PROVE Flujo'
  BY <1>19 DEF Asienta, Cola!Asienta, Cola!Mueve
<1>20. CASE UNCHANGED vars
  BY <1>20 DEF vars
<1> QED
  BY <1>1, <1>2, <1>3, <1>4, <1>5, <1>6, <1>7, <1>8, <1>9, <1>10, <1>11,
     <1>12, <1>13, <1>14, <1>15, <1>16, <1>17, <1>18, <1>19, <1>20
     DEF Next

(* Every step keeps each report where its request says.                    *)
LEMMA LugarStep == Saltos /\ Cuentas /\ Flujo /\ Lugar /\ [Next]_vars => Lugar'
<1> SUFFICES ASSUME Saltos, Cuentas, Flujo, Lugar, [Next]_vars PROVE Lugar'
  OBVIOUS
<1> USE DEF Saltos, Cuentas, Flujo, Lugar, Cola!Estados, Adverso, Pon, saltos, red, libro
<1>1. CASE ClienteMuere
  BY <1>1 DEF ClienteMuere
<1>2. CASE CanalCae
  BY <1>2 DEF CanalCae, CierraCable
<1>3. CASE ServidorMuere
  BY <1>3 DEF ServidorMuere, CierraCable
<1>4. CASE ServidorArranca
  BY <1>4 DEF ServidorArranca
<1>5. CASE Reconecta
  BY <1>5 DEF Reconecta
<1>6. CASE Alarma
  BY <1>6 DEF Alarma
<1>7. CASE CesaAlarma
  BY <1>7 DEF CesaAlarma
<1>8. CASE ReiniciaBroker
  BY <1>8 DEF ReiniciaBroker, Cola!Pierde
<1>9. ASSUME NEW r \in Reporte, Pide(r) PROVE Lugar'
  BY <1>9 DEF Pide
<1>10. ASSUME NEW r \in Reporte, Corta(r) PROVE Lugar'
  BY <1>10 DEF Corta
<1>11. ASSUME NEW r \in Reporte, Responde(r) PROVE Lugar'
  BY <1>11 DEF Responde
<1>12. ASSUME NEW r \in Reporte, ClienteRecibe(r) PROVE Lugar'
  BY <1>12 DEF ClienteRecibe
<1>13. ASSUME NEW r \in Reporte, Vence(r) PROVE Lugar'
  BY <1>13 DEF Vence
<1>14. ASSUME NEW r \in Reporte, ServidorRecibe(r) PROVE Lugar'
  BY <1>14 DEF ServidorRecibe
<1>15. ASSUME NEW r \in Reporte, SendReport(r) PROVE Lugar'
  BY <1>15 DEF SendReport
<1>16. ASSUME NEW r \in Reporte, Contesta(r) PROVE Lugar'
  BY <1>16 DEF Contesta
<1>17. ASSUME NEW r \in Reporte, Llega(r) PROVE Lugar'
  BY <1>17 DEF Llega, Cola!Publica, Cola!Mueve
<1>18. ASSUME NEW r \in Reporte, Cuenta(r) PROVE Lugar'
  BY <1>18 DEF Cuenta, Cola!Cuenta
<1>19. ASSUME NEW r \in Reporte, Asienta(r) PROVE Lugar'
  BY <1>19 DEF Asienta, Cola!Asienta, Cola!Mueve
<1>20. CASE UNCHANGED vars
  BY <1>20 DEF vars
<1> QED
  BY <1>1, <1>2, <1>3, <1>4, <1>5, <1>6, <1>7, <1>8, <1>9, <1>10, <1>11,
     <1>12, <1>13, <1>14, <1>15, <1>16, <1>17, <1>18, <1>19, <1>20
     DEF Next

(* Every step keeps the flags Booleans.                                    *)
LEMMA BooleanStep == Booleanos /\ [Next]_vars => Booleanos'
<1> SUFFICES ASSUME Booleanos, [Next]_vars PROVE Booleanos'
  OBVIOUS
<1> USE DEF Booleanos, Adverso, Pon, saltos, red, libro
<1>1. CASE ClienteMuere
  BY <1>1, Zenon DEF ClienteMuere
<1>2. CASE CanalCae
  BY <1>2, Zenon DEF CanalCae, CierraCable
<1>3. CASE ServidorMuere
  BY <1>3, Zenon DEF ServidorMuere, CierraCable
<1>4. CASE ServidorArranca
  BY <1>4, Zenon DEF ServidorArranca
<1>5. CASE Reconecta
  BY <1>5, Zenon DEF Reconecta
<1>6. CASE Alarma
  BY <1>6, Zenon DEF Alarma
<1>7. CASE CesaAlarma
  BY <1>7, Zenon DEF CesaAlarma
<1>8. CASE ReiniciaBroker
  BY <1>8, Zenon DEF ReiniciaBroker, Cola!Pierde
<1>9. ASSUME NEW r \in Reporte, Pide(r) PROVE Booleanos'
  BY <1>9, Zenon DEF Pide
<1>10. ASSUME NEW r \in Reporte, Corta(r) PROVE Booleanos'
  BY <1>10, Zenon DEF Corta
<1>11. ASSUME NEW r \in Reporte, Responde(r) PROVE Booleanos'
  BY <1>11, Zenon DEF Responde
<1>12. ASSUME NEW r \in Reporte, ClienteRecibe(r) PROVE Booleanos'
  BY <1>12, Zenon DEF ClienteRecibe
<1>13. ASSUME NEW r \in Reporte, Vence(r) PROVE Booleanos'
  BY <1>13, Zenon DEF Vence
<1>14. ASSUME NEW r \in Reporte, ServidorRecibe(r) PROVE Booleanos'
  BY <1>14, Zenon DEF ServidorRecibe
<1>15. ASSUME NEW r \in Reporte, SendReport(r) PROVE Booleanos'
  BY <1>15, Zenon DEF SendReport
<1>16. ASSUME NEW r \in Reporte, Contesta(r) PROVE Booleanos'
  BY <1>16, Zenon DEF Contesta
<1>17. ASSUME NEW r \in Reporte, Llega(r) PROVE Booleanos'
  BY <1>17, Zenon DEF Llega, Cola!Publica, Cola!Mueve
<1>18. ASSUME NEW r \in Reporte, Cuenta(r) PROVE Booleanos'
  BY <1>18, Zenon DEF Cuenta, Cola!Cuenta
<1>19. ASSUME NEW r \in Reporte, Asienta(r) PROVE Booleanos'
  BY <1>19, Zenon DEF Asienta, Cola!Asienta, Cola!Mueve
<1>20. CASE UNCHANGED vars
  BY <1>20, Zenon DEF vars
<1> QED
  BY <1>1, <1>2, <1>3, <1>4, <1>5, <1>6, <1>7, <1>8, <1>9, <1>10, <1>11,
     <1>12, <1>13, <1>14, <1>15, <1>16, <1>17, <1>18, <1>19, <1>20
     DEF Next

(* Every answer keeps its meaning: the invariant of the whole path holds   *)
(* for every interleaving of handlers, deadlines and faults.               *)
THEOREM PathInvariant == Spec => []IInv
<1>1. Init => IInv
  <2> SUFFICES ASSUME Init PROVE IInv
    OBVIOUS
  <2> USE DEF Init, Cola!Init
  <2>1. Saltos
    BY DEF Saltos
  <2>2. Cuentas
    BY Munk8sAssumption DEF Cuentas, Cola!Estados
  <2>3. Flujo
    BY DEF Flujo
  <2>4. Lugar
    BY DEF Lugar
  <2> QED
    BY <2>1, <2>2, <2>3, <2>4 DEF IInv
<1>2. IInv /\ [Next]_vars => IInv'
  BY SaltosStep, CuentasStep, FlujoStep, LugarStep DEF IInv
<1> QED
  BY <1>1, <1>2, PTL DEF Spec

(* The handlers, the connections and the ledger keep their types.          *)
THEOREM PathTypeCorrect == Spec => []TypeOK
<1>1. Init => Booleanos
  BY Zenon DEF Init, Booleanos
<1>2. IInv /\ Booleanos => TypeOK
  BY DEF IInv, Saltos, Cuentas, Booleanos, TypeOK
<1> QED
  BY <1>1, <1>2, BooleanStep, PathInvariant, PTL DEF Spec

(* The answer "ok" of rust-api is about a report that go-server wrote, and *)
(* a written report is in exactly one place (go-server main.go 23-36).     *)
THEOREM OkIsWritten == Spec => []OkWasPublished
<1>1. IInv => OkWasPublished
  <2> SUFFICES ASSUME IInv PROVE OkWasPublished
    OBVIOUS
  <2> USE DEF IInv, Saltos, Cuentas, Flujo, Lugar
  <2>1. Escritos = cable \cup caidos \cup {r \in Reporte : estado[r] # "fuera"}
    BY DEF Escritos
  <2>2. cable \cap caidos = {} /\ \A r \in cable \cup caidos : estado[r] = "fuera"
    OBVIOUS
  <2>3. \A r \in Reporte : rust[r] = "ok" => r \in Escritos
    BY DEF Escritos
  <2> QED
    BY <2>1, <2>2, <2>3 DEF OkWasPublished
<1> QED
  BY <1>1, PathInvariant, PTL

(* A report refused by any hop is not counted, then or later; one that was *)
(* counted behind a 502 had an uncertain hop (go-client main.go 53-63).    *)
THEOREM RefusalsHold == Spec => []RefusedNeverCounted
<1>1. IInv => RefusedNeverCounted
  BY DEF IInv, Saltos, Cuentas, Flujo, Lugar, RefusedNeverCounted
<1> QED
  BY <1>1, PathInvariant, PTL
=============================================================================
