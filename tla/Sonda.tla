------------------------------- MODULE Sonda -------------------------------
(***************************************************************************)
(* The eBPF probe of Proyecto 2: the tracepoint program of kill_monitor.c, *)
(* its ring buffer, the readLoop goroutine of ebpfprobe and the            *)
(* WaitConfirmations call of the daemon.  A KillEvent is reduced to its    *)
(* TargetPID, the only field WaitConfirmations reads.                      *)
(***************************************************************************)
EXTENDS Naturals, Sequences

CONSTANTS Pid,
          RingCap,   \* events that fit in the 256 KiB ring buffer
          ChanCap    \* 64, the capacity of Prober.events

ASSUME CapAssumption == RingCap \in Nat \ {0} /\ ChanCap \in Nat \ {0}

VARIABLES ring,        \* the BPF ring buffer
          chan,        \* Prober.events
          cerrado,     \* readLoop has returned and closed the channel
          espera,      \* a WaitConfirmations call is running
          esperados,   \* its argument
          confirmados  \* its result so far

sondaVars == <<ring, chan, cerrado, espera, esperados, confirmados>>

SondaTypeOK == /\ ring \in Seq(Pid) /\ Len(ring) <= RingCap
               /\ chan \in Seq(Pid) /\ Len(chan) <= ChanCap
               /\ cerrado \in BOOLEAN /\ espera \in BOOLEAN
               /\ esperados \in SUBSET Pid /\ confirmados \in SUBSET Pid

SondaInit == /\ ring = <<>> /\ chan = <<>> /\ cerrado = FALSE
             /\ espera = FALSE /\ esperados = {} /\ confirmados = {}

(* handle_sys_enter_kill: runs at the ENTRY of every kill(), whoever calls *)
(* it, whatever the signal (0 included) and whether or not the target      *)
(* exists.  A full ring drops the event.                                   *)
ReservaCorta(r, pid) == IF Len(r) + 1 < RingCap THEN Append(r, pid) ELSE r  \* mutant
ReservaSinTope(r, pid) == Append(r, pid)                                   \* mutant
Reserva(r, pid) == IF Len(r) < RingCap THEN Append(r, pid) ELSE r
EnterKill(pid) == /\ ring' = Reserva(ring, pid)
                  /\ UNCHANGED <<chan, cerrado, espera, esperados, confirmados>>

(* One turn of readLoop; the non-blocking send drops on a full channel.    *)
(* The mutants block on it, or do not consume the record they send.        *)
ReadLoopBloquea == /\ ~cerrado /\ ring # <<>> /\ Len(chan) < ChanCap
                   /\ ring' = Tail(ring) /\ chan' = Append(chan, Head(ring))
                   /\ UNCHANGED <<cerrado, espera, esperados, confirmados>>
ReadLoopRepite == /\ ~cerrado /\ ring # <<>> /\ Len(chan) < ChanCap
                  /\ chan' = Append(chan, Head(ring))
                  /\ UNCHANGED <<ring, cerrado, espera, esperados, confirmados>>
ReadLoop == /\ ~cerrado /\ ring # <<>>
            /\ ring' = Tail(ring)
            /\ chan' = IF Len(chan) < ChanCap THEN Append(chan, Head(ring)) ELSE chan
            /\ UNCHANGED <<cerrado, espera, esperados, confirmados>>

(* rb.Read fails: the goroutine closes the channel and ends.               *)
ReadFails == /\ ~cerrado /\ cerrado' = TRUE
             /\ UNCHANGED <<ring, chan, espera, esperados, confirmados>>

(* The call: with nothing expected it returns at once.  The mutant keeps   *)
(* what an earlier call confirmed.                                         *)
WaitRecuerda(expected) ==
  /\ ~espera
  /\ esperados' = expected /\ confirmados' = confirmados \cap expected
  /\ espera' = (confirmados' # expected)
  /\ UNCHANGED <<ring, chan, cerrado>>
WaitConfirmations(expected) ==
  /\ ~espera
  /\ esperados' = expected /\ confirmados' = {} /\ espera' = (expected # {})
  /\ UNCHANGED <<ring, chan, cerrado>>

(* case ev := <-p.events; returns when every expected PID is confirmed.    *)
Recibe == /\ espera /\ chan # <<>>
          /\ chan' = Tail(chan)
          /\ confirmados' = confirmados \cup ({Head(chan)} \cap esperados)
          /\ espera' = (confirmados' # esperados)
          /\ UNCHANGED <<ring, cerrado, esperados>>

(* case ev, ok with !ok: the closed channel is empty.                      *)
Cerrada == espera /\ cerrado /\ chan = <<>>
(* case <-deadline: the code only knows that some time has passed.         *)
Retorna == /\ espera /\ espera' = FALSE
           /\ UNCHANGED <<ring, chan, cerrado, esperados, confirmados>>
Deadline == Retorna
CanalCerrado == Cerrada /\ Retorna

(* The caller takes the result; the locals of the call are gone.           *)
Toma == /\ ~espera /\ esperados' = {} /\ confirmados' = {}
        /\ UNCHANGED <<ring, chan, cerrado, espera>>
=============================================================================
