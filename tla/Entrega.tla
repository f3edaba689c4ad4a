------------------------------ MODULE Entrega -------------------------------
(***************************************************************************)
(* What RabbitMQ and go-consumer promise together for each report, without *)
(* saying how: a report that is in the queue is counted zero or more times *)
(* and leaves the queue in one of three ways.  It is settled, and then it  *)
(* has been counted at least once and never is again; it is dropped, and   *)
(* then it does not decode; or the broker loses it with all the others.    *)
(* Consumer implements this module; Munk8s is built on it.                 *)
(***************************************************************************)
EXTENDS Naturals

CONSTANTS Reporte, Malformado

VARIABLES estado,       \* where each report is
          veces         \* how many times it was counted completely

libro == <<estado, veces>>

Estados == {"fuera", "cola", "asentado", "descartado", "perdido"}
Mueve(r, de, a) == /\ estado[r] = de
                   /\ estado' = [estado EXCEPT ![r] = a]
                   /\ UNCHANGED veces

Publica(r) == Mueve(r, "fuera", "cola")
(* process ran without an error; the queue may have lost the report while  *)
(* a worker was busy with it.                                              *)
Cuenta(r) == /\ estado[r] \in {"cola", "perdido"} /\ r \notin Malformado
             /\ veces' = [veces EXCEPT ![r] = @ + 1]
             /\ UNCHANGED estado
Asienta(r) == veces[r] > 0 /\ Mueve(r, "cola", "asentado")
Descarta(r) == r \in Malformado /\ Mueve(r, "cola", "descartado")
(* A restart of the broker, which keeps nothing.                           *)
Pierde == /\ estado' = [r \in Reporte |-> IF estado[r] = "cola" THEN "perdido" ELSE estado[r]]
          /\ UNCHANGED veces

Init == estado = [r \in Reporte |-> "fuera"] /\ veces = [r \in Reporte |-> 0]
Next == Pierde \/ \E r \in Reporte : Publica(r) \/ Cuenta(r) \/ Asienta(r) \/ Descarta(r)
Spec == Init /\ [][Next]_libro
=============================================================================
