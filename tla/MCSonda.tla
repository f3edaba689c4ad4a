------------------------------ MODULE MCSonda ------------------------------
(***************************************************************************)
(* The probe alone, under every kill() the host may issue and any sequence *)
(* of WaitConfirmations calls: what a confirmation is worth.               *)
(***************************************************************************)
EXTENDS Sonda, SequencesExt

CONSTANT MaxKills   \* bound: kill() system calls in a behaviour

VARIABLES historia,   \* every kill() so far, in order
          leidos,     \* every event WaitConfirmations has received
          recientes,  \* the kills since ring and channel were last both empty
          recibidos,  \* the events received since then
          posibles    \* the targets of the events ring and channel held when
                      \*   the last call began, and of the kills since
cuenta == <<historia, leidos, recientes, recibidos, posibles>>
vars == <<sondaVars, cuenta>>

Init == /\ SondaInit /\ historia = <<>> /\ leidos = <<>>
        /\ recientes = <<>> /\ recibidos = <<>> /\ posibles = {}

(* The count starts again whenever both buffers are empty.                 *)
Desde(kills, eventos) ==
  LET vacios == ring' = <<>> /\ chan' = <<>>
  IN /\ recientes' = IF vacios THEN <<>> ELSE kills
     /\ recibidos' = IF vacios THEN <<>> ELSE eventos

Kill == /\ Len(historia) < MaxKills
        /\ \E pid \in Pid : /\ EnterKill(pid)
                            /\ historia' = Append(historia, pid)
                            /\ Desde(Append(recientes, pid), recibidos)
                            /\ posibles' = posibles \cup {pid}
        /\ UNCHANGED leidos
Recibir == /\ Recibe /\ leidos' = Append(leidos, Head(chan))
           /\ Desde(recientes, Append(recibidos, Head(chan)))
           /\ UNCHANGED <<historia, posibles>>
Espera == /\ \E e \in SUBSET Pid : WaitConfirmations(e)
          /\ posibles' = ToSet(ring \o chan)
          /\ UNCHANGED <<historia, leidos, recientes, recibidos>>
Lector == /\ ReadLoop /\ Desde(recientes, recibidos)
          /\ UNCHANGED <<historia, leidos, posibles>>
Fin == (ReadFails \/ Deadline \/ CanalCerrado) /\ UNCHANGED cuenta
Next == Kill \/ Recibir \/ Espera \/ Lector \/ Fin
Spec == Init /\ [][Next]_vars /\ WF_vars(Lector)

EnCamino == leidos \o chan \o ring

(* Ring, channel and reader may lose events but never invent, repeat or    *)
(* reorder one: what has been received, followed by what is still in       *)
(* transit, is a subsequence of the kill() calls of the host               *)
(* (kill_monitor.c handle_sys_enter_kill, probe.go readLoop).              *)
EventsAreKills ==
  \E f \in [DOMAIN EnCamino -> DOMAIN historia] :
    /\ \A i, j \in DOMAIN EnCamino : i < j => f[i] < f[j]
    /\ \A k \in DOMAIN EnCamino : EnCamino[k] = historia[f[k]]

(* Nothing is lost below the limits: as long as no more kill() calls were  *)
(* made since ring and channel were last both empty than either of them    *)
(* holds, every one of those calls has been received or is in transit, in  *)
(* order, however many there were before and even after the reader died.   *)
NoLossBelowCapacity ==
  Len(recientes) <= ChanCap /\ Len(recientes) <= RingCap
    => recibidos \o chan \o ring = recientes

(* A confirmation is of an expected PID whose event this very call         *)
(* received, and no older than what ring and channel held when the call    *)
(* began: an event that an earlier call received confirms nothing now, a   *)
(* stale one only counts if it was still in a buffer.  A call still runs   *)
(* only while a confirmation is missing (probe.go 108-128).                *)
ConfirmedWereTargets ==
  /\ confirmados \subseteq esperados \cap ToSet(leidos) \cap posibles
  /\ espera => confirmados # esperados

(* A reader that has not died empties the ring, even when nobody is        *)
(* waiting and the channel is full: the non-blocking send keeps the        *)
(* goroutine moving (probe.go 96-100), so a burst while the daemon sleeps  *)
(* in its grace period cannot leave the kernel side full for good.         *)
RingDrains == (Len(ring) = RingCap) ~> (Len(ring) < RingCap \/ cerrado)
=============================================================================
