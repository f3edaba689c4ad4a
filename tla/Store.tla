------------------------------- MODULE Store -------------------------------
(***************************************************************************)
(* What the daemon of Proyecto 2 keeps in Valkey (store.go).  A call may   *)
(* fail before or after the server has carried it out, and go-redis sends  *)
(* it again by itself when the reply is lost: a transaction is applied     *)
(* any number of times up to Intentos.                                     *)
(***************************************************************************)
EXTENDS Integers, Sequences, FiniteSets

CONSTANTS MaxLen,           \* maxStreamEntries, 500 in the code
          Intentos,         \* how often go-redis sends a call at most: 1 + MaxRetries
          MaxFallosValkey   \* bound: calls that are not carried out exactly once

ASSUME StoreAssumption == MaxLen \in Nat \ {0} /\ Intentos \in Nat \ {0}

VARIABLES usada,         \* ram:used_kb and its two companions
          streamRAM,
          total,         \* eliminados:total
          streamElim,
          rankRAM,       \* member -> score; a member is <<container, PIDs>>
          rankCPU,
          fallosValkey

valkey == <<usada, streamRAM, total, streamElim, rankRAM, rankCPU, fallosValkey>>

InitStore == /\ usada = 0 /\ streamRAM = <<>> /\ total = 0 /\ streamElim = <<>>
             /\ rankRAM = <<>> /\ rankCPU = <<>> /\ fallosValkey = 0

Falla == fallosValkey < MaxFallosValkey /\ fallosValkey' = fallosValkey + 1
(* How often a transaction is carried out.                                 *)
Aplicada(n) == IF n = 1 THEN UNCHANGED fallosValkey ELSE Falla
(* XADD with MAXLEN ~ drops whole nodes at the old end, so some entries    *)
(* and never one of the last MaxLen.  The streams n of them may leave.     *)
Recortes(s, max) == {SubSeq(s, i + 1, Len(s)) : i \in 0..(IF Len(s) > max THEN Len(s) - max ELSE 0)}
XAdd(stream, v, n) ==
  IF n = 0 THEN {stream} ELSE Recortes(stream \o [i \in 1..n |-> v], MaxLen)

SaveRAMSnapshot(usadaKB) ==
  /\ \E n \in 0..Intentos : /\ Aplicada(n)
                            /\ usada' = IF n = 0 THEN usada ELSE usadaKB
                            /\ streamRAM' \in XAdd(streamRAM, usadaKB, n)
  /\ UNCHANGED <<total, streamElim, rankRAM, rankCPU>>

(* RecordSinTx sends the two commands in a plain pipeline, of which the    *)
(* first alone may be carried out.                                         *)
RecordSinTx(k) ==
  /\ \E n, m \in 0..Intentos : /\ IF n = 1 /\ m = 1 THEN UNCHANGED fallosValkey ELSE Falla
                               /\ total' = total + n * k
                               /\ streamElim' \in XAdd(streamElim, k, m)
  /\ UNCHANGED <<usada, streamRAM, rankRAM, rankCPU>>
RecordEliminaciones(k) ==
  \/ k = 0 /\ UNCHANGED valkey
  \/ /\ k # 0
     /\ \E n \in 0..Intentos : /\ Aplicada(n)
                               /\ total' = total + n * k
                               /\ streamElim' \in XAdd(streamElim, k, n)
     /\ UNCHANGED <<usada, streamRAM, rankRAM, rankCPU>>

(* ZADD GT: only a greater score replaces the one a member has.            *)
Con(rank, m, score) ==
  [x \in DOMAIN rank \cup {m} |-> IF x = m THEN score ELSE rank[x]]
ZAddSinGT(rank, m, score) == Con(rank, m, score)
ZAddGT(rank, m, score) ==
  IF m \in DOMAIN rank /\ rank[m] >= score THEN rank ELSE Con(rank, m, score)
(* joinPIDs, over a set: a PID that two lines give counts once.            *)
member(c, cm) == <<c, cm.pids>>
=============================================================================
