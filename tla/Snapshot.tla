------------------------------ MODULE Snapshot ------------------------------
(***************************************************************************)
(* How the daemon of Proyecto 2 gets its picture of the host: continfo.c   *)
(* walks the task list and prints one line per process, parser.go splits   *)
(* the lines, correlator.go reads the cgroup of each PID.  Processes start *)
(* and end at any moment of it.                                            *)
(*                                                                         *)
(* Tasks are numbered in the order in which they are created, the order of *)
(* the list; a number is also the PID, and PIDs are not reused here.  Raiz *)
(* is init_task, the head of the list.  A task that is removed from the    *)
(* list keeps its own pointer to the next one until its memory is freed.   *)
(* seq_file repeats the walk with a larger buffer until the text fits;     *)
(* only its last pass is modelled.                                         *)
(***************************************************************************)
EXTENDS Manager

CONSTANTS N,              \* bound: processes that may be created
          duenno,         \* [1..N -> container or SinContenedor]
          pesos,          \* [1..N -> SUBSET Nat], the resident KB it may show when read
          texto,          \* [1..N -> Seq(Seq(Campo))]: the lines of "NAME|COMMAND",
                          \*   each split at the "|"
          Texto,          \* a field that is no number
          Ram             \* "RAM_USADA_KB:" at the start of a line, the rest follows

Tarea == 1..N
Raiz == 0
(* A name or a command may hold "|", numbers and newlines.                 *)
Campo == Int \cup {Texto, Ram}
UnaLinea(t) == Len(texto[t]) = 1

ASSUME SnapshotAssumption ==
  /\ N \in Nat /\ DOMAIN duenno = Tarea /\ pesos \in [Tarea -> SUBSET Nat]
  /\ Texto \notin Int /\ Ram \notin Int /\ Texto # Ram
  /\ DOMAIN texto = Tarea
  /\ \A t \in Tarea : /\ texto[t] \in Seq(Seq(Campo)) /\ texto[t] # <<>>
                      /\ \A j \in DOMAIN texto[t] : texto[t][j] # <<>>
                      /\ UnaLinea(t) => Len(texto[t][1]) >= 2

VARIABLES nacidas,      \* tasks 1..nacidas have been created
          vivas,        \* those on the list
          libres,       \* those whose memory was freed
          sig,          \* tasks.next
          fase,         \* what the reader of the snapshot is doing
          cursor,       \* the task of continfo_show, then the index of Attach
          salida,       \* the lines printed so far
          procs,        \* snap.Processes
          testigos      \* history: on the list since the walk began

host == <<nacidas, vivas, libres, sig>>
lector == <<fase, cursor, salida, procs>>
foto == <<host, lector, testigos>>

----------------------------------------------------------------------------
(* The kernel's task list.                                                 *)
Contenedores == {duenno[t] : t \in Tarea} \ {SinContenedor}
De(c) == {t \in Tarea : duenno[t] = c}
principal(c) == CHOOSE t \in De(c) : \A u \in De(c) : t <= u
EsPrincipal(t) == duenno[t] # SinContenedor /\ t = principal(duenno[t])
Anterior(t) == CHOOSE u \in vivas \cup {Raiz} : sig[u] = t
(* The task continfo_show holds a reference to; the mutant holds none.     *)
SinFijar == {}
Fijada == IF fase = "imprime" THEN {cursor} ELSE {}

(* fork: a container is born with its main process and grows while that    *)
(* one lives.                                                              *)
Nace == LET t == nacidas + 1
        IN /\ nacidas < N
           /\ duenno[t] = SinContenedor \/ EsPrincipal(t) \/ principal(duenno[t]) \in vivas
           /\ nacidas' = t /\ vivas' = vivas \cup {t}
           /\ sig' = [sig EXCEPT ![Anterior(Raiz)] = t, ![t] = Raiz]
           /\ UNCHANGED <<libres, lector, testigos>>
(* A process ends; the main one of a container, after all the others.      *)
Muere(t) == /\ t \in vivas /\ (EsPrincipal(t) => De(duenno[t]) \cap vivas = {t})
            /\ vivas' = vivas \ {t} /\ testigos' = testigos \ {t}
            /\ sig' = [sig EXCEPT ![Anterior(t)] = sig[t]]
            /\ UNCHANGED <<nacidas, libres, lector>>
(* The last reference goes away.                                           *)
Libera(t) == /\ t \in 1..nacidas \ (vivas \cup libres \cup Fijada) /\ fase \in {"avanza", "imprime"}
             /\ libres' = libres \cup {t}
             /\ UNCHANGED <<nacidas, vivas, sig, lector, testigos>>
Kernel == Nace \/ \E t \in Tarea : Muere(t) \/ Libera(t)

----------------------------------------------------------------------------
(* continfo_show.  One step per task: under the RCU lock, take the next    *)
(* one and a reference to it; then, without the lock, print its line and   *)
(* drop the reference.  The next step reads the pointer of a task that     *)
(* nothing holds any more.                                                 *)
Abre == /\ fase = "reposo" /\ fase' = "avanza" /\ testigos' = vivas
        /\ UNCHANGED <<host, cursor, salida, procs>>
Olvida == /\ libres' = {} /\ sig' = [t \in DOMAIN sig |-> IF t \in vivas \cup {Raiz} THEN sig[t] ELSE Raiz]
          /\ UNCHANGED <<nacidas, vivas>>
(* Reading a pointer in freed memory: its old value may still be there, or *)
(* not.  Taking a reference to freed memory is undefined at once, and so   *)
(* is everything after it: the model stops.  AvanzaRompe leaves the loop   *)
(* when the task it was at has ended.                                      *)
Salta(t) == IF t = Raiz THEN fase' = "parsea" /\ cursor' = Raiz /\ Olvida
                        ELSE fase' = "imprime" /\ cursor' = t /\ UNCHANGED host
AvanzaRompe == /\ fase = "avanza"
               /\ Salta(IF cursor \in vivas \cup {Raiz} THEN sig[cursor] ELSE Raiz)
               /\ UNCHANGED <<salida, procs, testigos>>
Avanza == /\ fase = "avanza"
          /\ \/ sig[cursor] \notin libres /\ Salta(sig[cursor])
             \/ /\ {cursor, sig[cursor]} \cap libres # {}
                /\ fase' = "indefinido" /\ UNCHANGED <<cursor, host>>
          /\ UNCHANGED <<salida, procs, testigos>>
(* A process that has ended has no mm and shows zeros.                     *)
Imprime == /\ fase = "imprime" /\ fase' = "avanza"
           /\ \E w \in IF cursor \in vivas THEN pesos[cursor] ELSE {0} :
                salida' = Append(salida, [tarea |-> cursor, rss |-> w])
           /\ UNCHANGED <<host, cursor, procs, testigos>>

----------------------------------------------------------------------------
(* parser.go.  What continfo.c prints of a process is its PID, the text    *)
(* and the figures, the other three of which move with rss.  The text is   *)
(* free: a "|" in it adds fields, a newline ends the line and starts one   *)
(* that the parser takes for what it looks like: a process, when it starts *)
(* with a number and has seven fields, the RAM in use, or nothing (a title *)
(* "===" or an empty line give no process, as any line of text).           *)
Lineas(l) ==
  LET ls == texto[l.tarea]
  IN [j \in DOMAIN ls |-> (IF j = 1 THEN <<l.tarea>> ELSE <<>>) \o ls[j] \o
                         (IF j = Len(ls) THEN <<l.rss + 1, l.rss, l.rss, l.rss>> ELSE <<>>)]

(* ParseUint and ParseFloat, whose errors are ignored.                     *)
Numero(x) == IF x \in Nat THEN x ELSE 0
Decimal(x) == IF x \in Int THEN x ELSE 0
Proceso(f, vsz, rss, cpu) ==
  [pid |-> f[1], cid |-> SinContenedor, vsz |-> Numero(f[vsz]), rss |-> Numero(f[rss]),
   cpu |-> Decimal(f[cpu])]
(* Nothing for a line that is skipped.  The mutants take the columns of a  *)
(* line without "|" in its text, and forget that Atoi may fail.            *)
ColumnasFijas(f) == IF Len(f) < 7 \/ f[1] \notin Int THEN <<>> ELSE <<Proceso(f, 4, 5, 7)>>
SinAtoi(f) == IF Len(f) < 7 THEN <<>> ELSE <<Proceso(f, Len(f) - 3, Len(f) - 2, Len(f))>>
parseProcessLine(f) ==
  IF Len(f) < 7 \/ f[1] \notin Int THEN <<>>
  ELSE <<Proceso(f, Len(f) - 3, Len(f) - 2, Len(f))>>

ReadSnapshot == /\ fase = "parsea" /\ fase' = "adjunta" /\ cursor' = 1
                /\ procs' = FlattenSeq([i \in DOMAIN salida |->
                     FlattenSeq([j \in DOMAIN Lineas(salida[i]) |->
                       parseProcessLine(Lineas(salida[i])[j])])])
                /\ UNCHANGED <<host, salida, testigos>>

(* snap.Mem.UsedKB: what the module reports, or a line of some text that   *)
(* looks like it and comes later; a "|" in it is no number.                *)
UsedKB(leida) ==
  LET rams == SelectSeq(FlattenSeq([i \in DOMAIN salida |-> Lineas(salida[i])]),
                        LAMBDA f : f[1] = Ram)
  IN IF rams = <<>> THEN leida
     ELSE IF Len(Last(rams)) = 2 THEN Numero(Last(rams)[2]) ELSE 0

----------------------------------------------------------------------------
(* correlator.go: the cgroup of one PID after another.  The mutants give   *)
(* up at a process that has ended, and go from the last to the first.      *)
containerIDFor(t) == IF t \in vivas THEN duenno[t] ELSE SinContenedor
AdjuntaEn(i) == procs' = [procs EXCEPT ![i].cid = containerIDFor(procs[i].pid)]
Adjuntado(sigue) == /\ fase = "adjunta" /\ fase' = sigue /\ cursor' = Raiz
                    /\ UNCHANGED <<host, salida, procs, testigos>>
AttachCorta == /\ fase = "adjunta" /\ cursor <= Len(procs) /\ AdjuntaEn(cursor)
               /\ cursor' = IF procs[cursor].pid \in vivas THEN cursor + 1 ELSE Len(procs) + 1
               /\ UNCHANGED <<host, fase, salida, testigos>>
AttachAlReves == /\ fase = "adjunta" /\ cursor <= Len(procs)
                 /\ AdjuntaEn(Len(procs) + 1 - cursor) /\ cursor' = cursor + 1
                 /\ UNCHANGED <<host, fase, salida, testigos>>
Attach == /\ fase = "adjunta" /\ cursor <= Len(procs)
          /\ AdjuntaEn(cursor) /\ cursor' = cursor + 1
          /\ UNCHANGED <<host, fase, salida, testigos>>

----------------------------------------------------------------------------
InitFoto == /\ nacidas = 0 /\ vivas = {} /\ libres = {} /\ sig = [t \in 0..N |-> Raiz]
            /\ fase = "reposo" /\ cursor = Raiz /\ salida = <<>> /\ procs = <<>>
            /\ testigos = {}

(* continfo.c:137-149 takes a reference to each process so that it can let *)
(* go of the RCU lock: the task being printed is never freed memory, and   *)
(* the walk can only leave the list through a task that ended while its    *)
(* line was being printed.                                                 *)
FreedOnlyAfterExit == /\ fase = "imprime" => cursor \notin libres
                      /\ fase = "indefinido" => cursor \notin vivas \cup {Raiz}

(* However tasks are created and end between two steps of the walk, a task *)
(* that was on the list all along is printed once, none twice, and in the  *)
(* order of creation.                                                      *)
WalkIsExact ==
  fase = "parsea" =>
    /\ testigos \subseteq {salida[i].tarea : i \in DOMAIN salida}
    /\ \A i, j \in DOMAIN salida : i < j => salida[i].tarea < salida[j].tarea

(* A printed text whose later lines the parser takes for a process.        *)
Inventa(l) == \E j \in 2..Len(texto[l.tarea]) : parseProcessLine(Lineas(l)[j]) # <<>>
Veraces == \A i \in DOMAIN salida : ~Inventa(salida[i])

(* "|" and numbers in a name or a command never cost the figures of a      *)
(* process, as the comment at parser.go:105 wants: whoever is on one line  *)
(* is there with his PID and his RSS.  What the parser gives besides stems *)
(* from a text with a newline; unless a line of such a text looks like a   *)
(* process no PID is there twice (parser.go 63-83, 102-140).               *)
ParsedRight ==
  fase = "adjunta" =>
    /\ \A i \in DOMAIN salida : UnaLinea(salida[i].tarea) =>
         \E k \in DOMAIN procs : procs[k].pid = salida[i].tarea /\ procs[k].rss = salida[i].rss
    /\ \A k \in DOMAIN procs :
         \E i \in DOMAIN salida :
           /\ \E j \in DOMAIN texto[salida[i].tarea] : procs[k].pid = Lineas(salida[i])[j][1]
           /\ UnaLinea(salida[i].tarea) => procs[k].rss = salida[i].rss
    /\ Veraces => \A k, l \in DOMAIN procs : procs[k].pid = procs[l].pid => k = l

Correlado(t) == \E i \in DOMAIN procs : procs[i].pid = t /\ procs[i].cid # SinContenedor
Leido == fase = "guarda"

(* What the decisions stand on: when Attach is done no PID is blamed on a  *)
(* container it is not of, whatever text it stems from, and a process that *)
(* lived through the whole reading is with its own.                        *)
CorrelatedRight ==
  Leido => /\ \A i \in DOMAIN procs : procs[i].cid # SinContenedor => procs[i].pid \in De(procs[i].cid)
           /\ \A t \in testigos : UnaLinea(t) /\ duenno[t] # SinContenedor => Correlado(t)

(* A container never enters the decisions through its children alone,      *)
(* unless a text invented a line: its main process is older and outlives   *)
(* them, so it is printed and correlated before them.                      *)
MainCorrelated ==
  Leido /\ Veraces =>
    \A c \in Contenedores :
      (\E t \in De(c) : Correlado(t)) /\ UnaLinea(principal(c)) => Correlado(principal(c))
=============================================================================
