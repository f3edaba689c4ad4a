-------------------------- MODULE LifecycleProofs --------------------------
(***************************************************************************)
(* Proofs about the life of the daemon process, for any number of          *)
(* executions, failures and edits and any content of the crontab.          *)
(***************************************************************************)
EXTENDS Lifecycle, TLAPS

(* What the daemon has in hand between crontab -l and crontab - never has  *)
(* a line of its own, and is what the user last left unless somebody wrote *)
(* in between or crontab -l failed.                                        *)
EnMano == /\ leido.propias = 0
          /\ fase \in Ventana /\ ~pisada => leido.ajenas = guardadas

IInv == TypeOK /\ EnMano /\ OneLine /\ NoOrphanLine /\ OthersKept /\ ModuleIsLoaded

(* The Boolean variables, apart: SMT has no part in them.                  *)
Booleanos == /\ modulo \in BOOLEAN /\ valkey \in BOOLEAN /\ tick \in BOOLEAN /\ sigCh \in BOOLEAN
             /\ pedido \in BOOLEAN /\ pisada \in BOOLEAN /\ descargado \in BOOLEAN
Resto == /\ fase \in {"fuera"} \cup Inicio \cup EnMarcha
         /\ crontab \in [propias : Nat, ajenas : SUBSET Linea]
         /\ leido \in [propias : Nat, ajenas : SUBSET Linea]
         /\ arranques \in 0..MaxArranques /\ fallos \in 0..MaxFallos
         /\ ediciones \in 0..MaxEdiciones /\ guardadas \subseteq Linea
         /\ final \in {"nunca", "ordenado", "sinRetirar", "fatal", "matado"}
         /\ tick \/ sigCh \/ pedido => fase \in EnMarcha
         /\ leido # Vacio => fase \in Ventana

(* Every step keeps the flags Booleans.                                    *)
LEMMA BooleanStep == Booleanos /\ [Next]_vars => Booleanos'
<1> SUFFICES ASSUME Booleanos, [Next]_vars PROVE Booleanos'
  OBVIOUS
<1> USE DEF Booleanos, Ve, SinFallo, Adverso, Acaba, host, canales, cuentas, historia
<1>1. CASE Arranca
  BY <1>1, Zenon DEF Arranca
<1>2. CASE startGrafana
  BY <1>2, Zenon DEF startGrafana
<1>3. CASE moduleLoaded
  BY <1>3, Zenon DEF moduleLoaded
<1>4. CASE makeLoad
  BY <1>4, Zenon DEF makeLoad
<1>5. CASE Remira
  BY <1>5, Zenon DEF Remira
<1>6. CASE installCronjob
  BY <1>6, Zenon DEF installCronjob, Edita, Lee
<1>7. CASE Instala
  BY <1>7, Zenon DEF Instala
<1>8. CASE Ping
  BY <1>8, Zenon DEF Ping
<1>9. CASE ProbeStart
  BY <1>9, Zenon DEF ProbeStart
<1>10. CASE Notify
  BY <1>10, Zenon DEF Notify
<1>11. CASE runCycle
  BY <1>11, Zenon DEF runCycle
<1>12. CASE EligeTick
  BY <1>12, Zenon DEF EligeTick
<1>13. CASE EligeSenal
  BY <1>13, Zenon DEF EligeSenal
<1>14. CASE removeCronjob
  BY <1>14, Zenon DEF removeCronjob, Edita, Lee
<1>15. CASE Retira
  BY <1>15, Zenon DEF Retira
<1>16. CASE Tick
  BY <1>16, Zenon DEF Tick
<1>17. CASE Senal
  BY <1>17, Zenon DEF Senal, Recibe, MuerePorSenal, SueltaShell
<1>18. CASE Mata
  BY <1>18, Zenon DEF Mata, SueltaShell
<1>19. CASE UsuarioEdita
  <2>1. (fase \in Ventana) \in BOOLEAN
    BY DEF Ventana
  <2> QED
    BY <1>19, <2>1, Zenon DEF UsuarioEdita, Edicion
<1>20. CASE UsuarioCarga
  BY <1>20, Zenon DEF UsuarioCarga, Edicion
<1>21. CASE ValkeyCae
  BY <1>21, Zenon DEF ValkeyCae
<1>22. CASE UNCHANGED vars
  BY <1>22, Zenon DEF vars
<1> QED
  BY <1>1, <1>2, <1>3, <1>4, <1>5, <1>6, <1>7, <1>8, <1>9, <1>10, <1>11, <1>12, <1>13,
     <1>14, <1>15, <1>16, <1>17, <1>18, <1>19, <1>20, <1>21, <1>22
     DEF Next, daemon

(* Every step keeps the other variables in their types.                    *)
LEMMA RestoStep == Booleanos /\ Resto /\ [Next]_vars => Resto'
<1> SUFFICES ASSUME Booleanos, Resto, [Next]_vars PROVE Resto'
  OBVIOUS
<1> USE LifecycleAssumption
    DEF Booleanos, Resto, Inicio, EnMarcha, Ventana, Ve, SinFallo, Adverso, Acaba,
        Vacio, host, canales, cuentas, historia
<1>1. CASE Arranca
  BY <1>1 DEF Arranca
<1>2. CASE startGrafana
  BY <1>2 DEF startGrafana
<1>3. CASE moduleLoaded
  BY <1>3 DEF moduleLoaded
<1>4. CASE makeLoad
  BY <1>4 DEF makeLoad
<1>5. CASE Remira
  BY <1>5 DEF Remira
<1>6. CASE installCronjob
  BY <1>6 DEF installCronjob, Edita, Lee
<1>7. CASE Instala
  BY <1>7 DEF Instala
<1>8. CASE Ping
  BY <1>8 DEF Ping
<1>9. CASE ProbeStart
  BY <1>9 DEF ProbeStart
<1>10. CASE Notify
  BY <1>10 DEF Notify
<1>11. CASE runCycle
  BY <1>11 DEF runCycle
<1>12. CASE EligeTick
  BY <1>12 DEF EligeTick
<1>13. CASE EligeSenal
  BY <1>13 DEF EligeSenal
<1>14. CASE removeCronjob
  BY <1>14 DEF removeCronjob, Edita, Lee
<1>15. CASE Retira
  BY <1>15 DEF Retira
<1>16. CASE Tick
  BY <1>16 DEF Tick
<1>17. CASE Senal
  BY <1>17 DEF Senal, Recibe, MuerePorSenal, SueltaShell
<1>18. CASE Mata
  BY <1>18 DEF Mata, SueltaShell
<1>19. CASE UsuarioEdita
  BY <1>19 DEF UsuarioEdita, Edicion
<1>20. CASE UsuarioCarga
  BY <1>20 DEF UsuarioCarga, Edicion
<1>21. CASE ValkeyCae
  BY <1>21 DEF ValkeyCae
<1>22. CASE UNCHANGED vars
  BY <1>22 DEF vars
<1> QED
  BY <1>1, <1>2, <1>3, <1>4, <1>5, <1>6, <1>7, <1>8, <1>9, <1>10, <1>11, <1>12, <1>13,
     <1>14, <1>15, <1>16, <1>17, <1>18, <1>19, <1>20, <1>21, <1>22
     DEF Next, daemon

(* Every step keeps the types.                                             *)
LEMMA TypeStep == TypeOK /\ [Next]_vars => TypeOK'
<1>1. TypeOK <=> Booleanos /\ Resto
  BY DEF TypeOK, Booleanos, Resto
<1>2. TypeOK' <=> Booleanos' /\ Resto'
  BY DEF TypeOK, Booleanos, Resto
<1> QED
  BY <1>1, <1>2, BooleanStep, RestoStep

(* IInv holds at the start,                                                *)
LEMMA IInvInit == Init => IInv
<1> SUFFICES ASSUME Init PROVE IInv
  OBVIOUS
<1>1. Booleanos
  BY Zenon DEF Init, Booleanos
<1>2. Resto
  BY LifecycleAssumption DEF Init, Resto, Vacio, Inicio, EnMarcha, Ventana
<1>3. EnMano /\ OneLine /\ NoOrphanLine /\ OthersKept /\ ModuleIsLoaded
  BY DEF Init, EnMano, OneLine, NoOrphanLine, OthersKept, ModuleIsLoaded, Vacio, Inicio, EnMarcha,
         Ventana
<1> QED
  BY <1>1, <1>2, <1>3 DEF IInv, TypeOK, Booleanos, Resto

(* every step keeps it,                                                    *)
LEMMA InvStep ==
  IInv /\ [Next]_vars => (EnMano /\ OneLine /\ NoOrphanLine /\ OthersKept /\ ModuleIsLoaded)'
<1> SUFFICES ASSUME TypeOK, EnMano, OneLine, NoOrphanLine, OthersKept, ModuleIsLoaded, [Next]_vars
             PROVE  (EnMano /\ OneLine /\ NoOrphanLine /\ OthersKept /\ ModuleIsLoaded)'
  BY DEF IInv
<1> USE DEF TypeOK, EnMano, OneLine, NoOrphanLine, OthersKept, ModuleIsLoaded,
            Inicio, EnMarcha, Ventana,
            Ve, SinFallo, Adverso, Acaba, Vacio, vars, host, canales, cuentas, historia
<1>1. CASE Arranca
  BY <1>1, SMT DEF Arranca
<1>2. CASE startGrafana
  BY <1>2, SMT DEF startGrafana
<1>3. CASE moduleLoaded
  BY <1>3, SMT DEF moduleLoaded
<1>4. CASE makeLoad
  BY <1>4, SMT DEF makeLoad
<1>5. CASE Remira
  BY <1>5, SMT DEF Remira
<1>6. CASE installCronjob
  BY <1>6, SMT DEF installCronjob, Edita, Lee
<1>7. CASE Instala
  BY <1>7, SMT DEF Instala
<1>8. CASE Ping
  BY <1>8, SMT DEF Ping
<1>9. CASE ProbeStart
  BY <1>9, SMT DEF ProbeStart
<1>10. CASE Notify
  BY <1>10, SMT DEF Notify
<1>11. CASE runCycle
  BY <1>11, SMT DEF runCycle
<1>12. CASE EligeTick
  BY <1>12, SMT DEF EligeTick
<1>13. CASE EligeSenal
  BY <1>13, SMT DEF EligeSenal
<1>14. CASE removeCronjob
  BY <1>14, SMT DEF removeCronjob, Edita, Lee
<1>15. CASE Retira
  BY <1>15, SMT DEF Retira
<1>16. CASE Tick
  BY <1>16, SMT DEF Tick
<1>17. CASE Senal
  BY <1>17, SMT DEF Senal, Recibe, MuerePorSenal, SueltaShell
<1>18. CASE Mata
  BY <1>18, SMT DEF Mata, SueltaShell
<1>19. CASE UsuarioEdita
  BY <1>19, SMT DEF UsuarioEdita, Edicion
<1>20. CASE UsuarioCarga
  BY <1>20, SMT DEF UsuarioCarga, Edicion
<1>21. CASE ValkeyCae
  BY <1>21, SMT DEF ValkeyCae
<1>22. CASE UNCHANGED vars
  BY <1>22
<1> QED
  BY <1>1, <1>2, <1>3, <1>4, <1>5, <1>6, <1>7, <1>8, <1>9, <1>10, <1>11, <1>12, <1>13,
     <1>14, <1>15, <1>16, <1>17, <1>18, <1>19, <1>20, <1>21, <1>22
     DEF Next, daemon

(* and it holds in every state.                                            *)
LEMMA IInvAlways == Spec => []IInv
<1>1. IInv /\ [Next]_vars => IInv'
  BY TypeStep, InvStep DEF IInv
<1> QED
  BY <1>1, IInvInit, PTL DEF Spec

(* However many executions are killed or fail halfway, the crontab never   *)
(* holds two lines of the daemon (main.go 205-211).                        *)
THEOREM NeverTwoLines == Spec => []OneLine
<1>1. IInv => OneLine
  BY DEF IInv
<1> QED
  BY <1>1, IInvAlways, PTL

(* A line outlives the daemon only after a kill, a failed start or a       *)
(* removal that failed (main.go 77-84, 213-217).                           *)
THEOREM OrphanLinesExplained == Spec => []NoOrphanLine
<1>1. IInv => NoOrphanLine
  BY DEF IInv
<1> QED
  BY <1>1, IInvAlways, PTL

(* Only an edit made between the daemon's read of the crontab and its      *)
(* write, or a read that fails, can lose a line of another program         *)
(* (main.go 205-217).                                                      *)
THEOREM OthersSurvive == Spec => []OthersKept
<1>1. IInv => OthersKept
  BY DEF IInv
<1> QED
  BY <1>1, IInvAlways, PTL

(* The daemon goes past loadKernelModule only with the module loaded       *)
(* (main.go 180-196).                                                      *)
THEOREM ModuleLoadedAfterStart == Spec => []ModuleIsLoaded
<1>1. IInv => ModuleIsLoaded
  BY DEF IInv
<1> QED
  BY <1>1, IInvAlways, PTL

(* Every variable keeps its type: in particular a signal waits in sigCh    *)
(* only when the loop is there to receive it.                              *)
THEOREM LifecycleTypeCorrect == Spec => []TypeOK
<1>1. IInv => TypeOK
  BY DEF IInv
<1> QED
  BY <1>1, IInvAlways, PTL
=============================================================================
