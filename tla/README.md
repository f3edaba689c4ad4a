# A verification project for the laboratory of SO1 (201901657)

TLA+ models of the two programs of this repository that have behaviour worth
checking, the daemon of `proyecto2` and the report pipeline of `proyecto3`, with TLC
runs on small instances and TLAPS proofs for all of them. Identifiers keep the names
of the source; comments give the file and lines a definition is about.

    tlc -workers 2 -config MCDaemon.cfg MCDaemon      # any run of the table below
    tlapm DaemonProofs.tla                            # any module named *Proofs

## 1. Inventory

### Proyecto 2: a daemon that keeps container populations

Every 30 s `runCycle` (daemon-go/main.go) reads a snapshot of all the processes of
the host, decides which containers to eliminate, kills their processes, asks an eBPF
probe to confirm it, counts them and starts what is missing. A cron job keeps
starting random containers and one intruso.

| Component | State | Operations | Talks to | What is hard | What makes it correct |
|---|---|---|---|---|---|
| kernel module `continfo.c` | none; the task list | one line per process on each read of /proc | parser | walks the list with the RCU lock released | a process alive all along is printed once |
| `parser`, `correlator` | the snapshot | ReadSnapshot, Attach | kernel module, /proc/PID/cgroup | free text in the lines, newlines and numbers included; the cgroup is read later than the process | a PID is attributed to its container or to none, and the main process of a container first |
| `dockerinfo` | docker's | ListManaged, Launch | docker CLI | the listing is later than the snapshot; names collide | a launch adds one container of the perfil |
| `manager` (manager.go) | none | aggregate, Decide, DecideLaunches | | unstable sort, map order, boundaries | exactly the minimum is spared; the heaviest go first |
| `manager` (executor.go) | where the loops are | ExecuteKills, ExecuteLaunches | kill(2), docker | stale PIDs, ignored SIGTERM, forks, PID reuse | only and all of the decided containers die |
| eBPF program and `ebpfprobe` | ring buffer, channel of 64, the reader | EnterKill, readLoop, WaitConfirmations | every kill() of the host | two buffers that drop, a reader that may die, a deadline | a confirmation is a kill() of an expected PID; the reader never blocks |
| `main`, the cycle | its locals | runCycle | all of them | errors in the middle | minimum kept, intrusos fall, minimum restored |
| `main`, the life | crontab line, module, two channels | start, ticker, signal, stop | cron, make, docker compose, Valkey | a failure or a signal halfway through the start; edits of the crontab that are not atomic, and a read of it whose failure is hidden | one line at most, none after an orderly stop |
| `store` | Valkey keys | SaveRAMSnapshot, UpdateRankings, RecordEliminaciones | Valkey | failures are logged and forgotten, calls are repeated by go-redis, the series are trimmed, a member per set of PIDs | counters agree with their series while these are whole; a peak is never lost |
| cron script | none | six `docker run` per minute | docker | runs at any point of a cycle | |

### Proyecto 3 (Munk8s): reports from HTTP to Valkey

locust -> rust-api -> go-client -(gRPC)-> go-server -> RabbitMQ -> go-consumer ->
Valkey -> Grafana.

| Component | State | Operations | What is hard | What makes it correct |
|---|---|---|---|---|
| rust-api, go-client | none | POST /report | a deadline of one hop racing the success of the next; three views of which countries exist | "ok" was published, a refusal was not, every request is answered |
| go-server | one AMQP channel | SendReport | no confirms, transient messages, no reconnection | what is answered "ok" reaches the queue |
| RabbitMQ (external) | ready and unacknowledged messages | deliver, ack, nack, requeue | restart without a volume | at least once while it stays up |
| go-consumer | 4 workers, the delivery channel | process, Ack, Nack | interleaved pipelines that are not transactions, redelivery, one worker ending all | nothing acknowledged uncounted; bounded repetition |
| Valkey (external) | the aggregate keys | INCR, ZINCRBY, HINCRBY, EVAL, XADD, HSET | one command may fail alone; keys may be evicted and the last second lost (not modelled, see *Abstractions*) | |

### Proyecto 1 and the rest

The three HTTP APIs of `Proyecto 1` keep no state between requests. The gRPC code
under `proyecto3/proto` is generated; Grafana, Kubernetes, Falco and Zot files are
configuration. See *Not modelled*.

`PROJECT.json` lists every component with its status and every hazard with its line.

## 2. Modules

| Module | What it is | Composes |
|---|---|---|
| `Manager` | the pure decisions (manager.go) | |
| `Sonda` | the probe (kill_monitor.c, probe.go) as a state machine with its own variables | |
| `Daemon` | runCycle and executor.go against a moving host: what is decided and killed | `Manager`, `Sonda` |
| `Snapshot` | continfo.c, parser.go, correlator.go: how the picture of the host is taken | `Manager` (the process record) |
| `Store` | store.go as operators on the Valkey keys | |
| `Observacion` | runCycle again: what it reads of the host and writes to Valkey | `Snapshot`, `Store`, `Manager` |
| `Lifecycle` | main.go: start, loop, stop, over several executions | |
| `Entrega` | the abstract ledger: what queue and consumer promise for each report | |
| `Consumer` | go-consumer, RabbitMQ and Valkey; implements `Entrega` | `Entrega` (refinement) |
| `Munk8s` | rust-api, go-client, go-server on top of the ledger | `Entrega` |
| `MCManager`, `MCSonda`, `MCDaemon`, `MCConsumer`, `MCObservacion` | harnesses and constants of the runs | one each |
| `ManagerProofs`, `MCManagerProofs`, `MCSondaProofs`, `DaemonProofs`, `ObservacionProofs`, `LifecycleProofs`, `ConsumerProofs`, `Munk8sProofs` | theorems | one each |

**Manager.** A process is a record, a snapshot a set of them, a listing a function
from container ids to perfil. Go iterates maps at random and `sort.Slice` is
unstable, so `pruneExcess` and `Decide` are the *sets* of results the code may
return.

**Sonda.** `EnterKill` is the tracepoint (at the entry of every kill(), signal 0
included), `ReadLoop` one turn of the goroutine with its non-blocking send,
`WaitConfirmations` the call, `Recibe`/`Deadline`/`CanalCerrado` the three branches
of its select. Only the target PID of an event is kept: nobody reads the others.
`MCSonda` adds the histories its properties compare with: all the kills and all the
events received; both again since ring and channel were last empty (`recientes`,
`recibidos`); and what a running call could have met in the buffers (`posibles`).

**Daemon.** `duenno` and `principal` are the host: who owns each PID and which is
the main process of each container; ending the main one ends the container, as the
kernel does with the init of a PID namespace. The environment (`CronDespliega`,
`Hijo`, `HijoSale`, `Cae`, `AjenoNace`, `AjenoSale`) moves between any two steps of
the cycle. `pc` is where `runCycle` is:

    dormido -ReadSnapshot-> correlaciona -Attach-> lista -ListaYDecide-> mata
    mata -SigTerm*-> comprueba -Comprueba-> remata -SigKill-> ... (next decision)
    pide -PideConfirmacion-> espera -Confirma*, Registra-> lanza -Lanza*, FinCiclo-> dormido

Each system call is one action, so a fork or an exit fits between the check that a
PID is alive and its SIGKILL. The locals of a cycle are cleared by `Fin`. `caidos`
and `avisados` are history variables that no guard reads.

**Consumer.** A message is in one of `nuevos`, `listos`, `sinAck`, `asentados`,
`descartados`, `perdidos`. A worker's `hilo` holds its report, its phase and the
commands of the pipeline that Valkey has not run; every command is one step, so
pipelines interleave. Workers go on with the deliveries of a dead channel, and their
answers then change nothing at the broker (`Responde`). When the channel is closed
and drained, the first idle worker ends the process (`Termina`) whatever the others
do. `hechas` counts, as a history, the times `process` returned nil for each report.

**Entrega.** For each report, where it is and how many times it was counted. It is
settled only after it was counted and never counted afterwards; only an undecodable
one is dropped; only a restart of the broker loses one. `Consumer` maps to it by
`EstadoDe` (ready and unacknowledged are both "cola") and `hechas`.

**Munk8s.** `rust`, `cli` and `srv` say what each hop is doing with each request;
each handler waits for the next. `cable` is what go-server has written to the AMQP
socket and the broker has not read: PublishWithContext returns nil then, which is
why "ok" may be about a report that is lost (`caidos`). Behind the broker stands
`Entrega`, so that what `Consumer` implements is used here as a promise. `Vence` is
the 5 s deadline, which also ends with the caller's request; what the next hop is
doing goes on.

**Lifecycle.** `fase` is the line of main.go: `grafana mira make remira instala
escribe ping sonda notify`, then `ciclo` and `espera` in turns, then `retira borra`.
An edit of the crontab is a read (`Edita`) and a later write (`Instala`, `Retira`),
because the shell pipeline runs two crontab processes; a `crontab -l` that fails reads
an empty crontab, because of its `2>/dev/null`, and the write follows. `tick` and
`sigCh` are the channels of capacity one; the select takes either. A signal before
`signal.Notify` kills, and a shell in the middle of a pipeline may go on alone
(`SueltaShell`).

**Snapshot.** `sig` is the `next` pointer of each task. A task leaves the list with
its own pointer intact, and its memory is freed once nobody holds it. A step of the
walk reads the pointer of a task that nothing holds any more. Reading freed memory
is undefined behaviour; a choice among what may come of it is made once: the old
value is still there and the walk goes on, or `fase` becomes "indefinido" and the
model stops. `Lineas` is what a process prints, as lines of fields: its PID, the text
of its name and command, and the figures. The text is arbitrary: each of its lines is
a sequence of fields, and a field is a number, `Texto`, or `Ram`, the start of the
line that gives the RAM in use. `parseProcessLine` takes every line as the code
does, so a line of a command may become a process (`Inventa`), and `UsedKB` is what
is left in `snap.Mem` when a later line looks like that of the RAM.

**Store, Observacion.** A transaction sent to Valkey is carried out once, or, at the
cost of an adverse event, any other number of times up to `Intentos`: none, when
nothing arrived, and several, when go-redis lost the reply and sent it again. XADD
keeps at least the last `MaxLen` entries and may keep more, because its MAXLEN is
approximate (`Recortes`). The ranking is a function from members,
`<<container, PIDs>>`, to scores.

### Abstractions

- In `Daemon` the snapshot is taken in one step, and so is Attach, at a later one.
  What it takes from atomicity is that a container seen has its main process seen
  (`MainSeen`). `MainCorrelated` shows it of the step-by-step reading, with two
  exceptions that `Daemon` therefore assumes away: a main process whose text has a
  newline, which the parser may miss, and any process whose text has a line that
  looks like one of another process. `Daemon` assumes that no text is of these kinds.
- Every process weighs 1 KB: which container is heaviest is then by number of
  processes, with ties in any order. The full order is checked in `MCManager`.
- A PID list is a set and the loops visit it in any order; the code visits it in the
  order of the snapshot, one of these.
- The effect of SIGTERM is immediate or none. A slow exit is an exit of a child or
  of the container during the grace period.
- Deadlines may strike at any time, and `Segundo` (the clock reaching the next
  second) too: what the code only knows is that some time has passed.
- Container ids are never reused by Docker; the model reuses one only when no
  variable of the daemon holds it.
- The queue is a set: four workers, prefetch and requeueing leave no order to rely
  on. All the reports fall in one minute of `tsmin:*`; 24 h expirations and the
  MAXLEN of the consumer's stream are left out: `db.ts` counts what XADD has put in
  it, and no property is about what it holds. The figures of a report are integers of
  either sign, because no hop looks at the sign (main.rs 8-9, main.go 19-20).
- Valkey is taken to keep its keys. In Proyecto 3 the manifest allows otherwise:
  `maxmemory 128mb` with `allkeys-lru` (values.yaml 3-4) may evict any key, and the
  append-only file (statefulset.yaml 23), synced every second by default, loses up to
  a second of commands when the pod dies. What is lost so is lost for reports already
  acknowledged, and no code notices or repairs it: "nothing acknowledged uncounted"
  below is about the consumer, its connections and its commands, and not about
  Valkey's own losses. The commands of this code write a fixed set of keys, of which
  `freq:*` grows by a field for each figure never seen before, a stream of about 5000
  entries and two keys a minute that expire. In Proyecto 2 Valkey has a volume and no
  memory limit; a crash of it, which loses what it had not saved, is not modelled.
- `SaveRAMSnapshot` and `UpdateRankings` are left out of `Daemon`: they write keys
  that no step of it reads and their errors are only logged. They are in
  `Observacion`, where in turn what is decided and killed is only a number of
  confirmed containers.
- In `Snapshot` tasks are numbered in the order of the list and PIDs are not reused
  (run *reuso* is about that). seq_file repeats the walk with a larger buffer until
  the text fits; only the last pass is modelled. The percentages move with rss. Of a
  text only what the parser tells apart is kept: where its lines and fields end,
  which fields are numbers and which lines start like that of the RAM. A line that
  starts with "===" is skipped by the code before it is split, and here because its
  first field is no number.
- In `Munk8s` a request carries one report, an outage of a pod is collapsed to its
  end, and the connections of a dead pod are reset, so its callers see an error.
- In `Lifecycle` a cycle is one step, and the two crontab commands are the only
  steps at which a shell of the daemon and the user can cross.

## 3. Runs

| Run (cfg) | Question | Bounds | States |
|---|---|---|---|
| decisiones (MCManager) | are the decisions of a cycle right? | 3 ids, every listing, 3 lines, 4 consumptions | 105 684 |
| sonda (MCSonda) | what is a confirmation worth? | 2 PIDs, ring 2, channel 2, 5 kills | 97 570 |
| ciclo (MCDaemon) | is the cycle safe? is `IInv` an invariant? | 4 PIDs, 2 alto, 2 intrusos, 1 foreign process, 1 adverse event | 434 072 |
| vivo (MCDaemonVivo) | do intrusos fall, is the minimum restored? | 3 PIDs, 1 alto, 1 intruso, 2 processes each, 1 adverse event | 129 954 |
| consumidor (MCConsumer) | is the consumer safe, and does it implement `Entrega`? | 3 reports, one undecodable and one with a negative figure, 2 workers, prefetch 2, 1 adverse event | 521 593 |
| vaciado (MCConsumerVivo) | does the queue drain? | 2 reports, one undecodable, 2 workers, 2 adverse events | 106 377 |
| munk8s (MCMunk8s) | what is an answer worth? | 2 requests, 3 countries, socket of 1, 3 adverse events | 83 735 |
| vida (MCLifecycle) | what is left behind? | 3 executions, 2 failures (of the reads of the crontab too) or kills, 2 edits | 30 843 |
| observacion (MCObservacion) | is the picture true and well kept? | 4 processes, 2 containers, 2 cycles, series of 2 entries, 1 call carried out 0 or 2 times | 4 164 971 |
| reuso, conteo, nombres | where code and documentation disagree | minimal | violated |

Why the bounds are enough. A prune needs one container more than the minimum, a launch
one less: 2 alto and a minimum of 1 (or 0 and 2) reach both, and the balance at every
count up to 3 is in `decisiones`, then proved for all. Two decisions in one cycle (an
intruso and an excess, or two intrusos) exercise the passage from one container to the
next; two processes in a container, the child that outlives a signal or is forked
after the snapshot. Five kills fill a ring and a channel of two, overflow either, and
still leave some for after both were emptied. `ReservaPid` keeps a PID the environment
may not take, without which a full PID space would stop every launch of the finite
model. Two workers are enough for each pair of commands to interleave; prefetch 2 with
three reports reaches the limit; one adverse event is any of seven kinds, and two are
tried in `vaciado`. `vivo` has one container of each kind, whose id is taken again
when it has fallen: the bucket is at its minimum of 1 or empty, an intruso is there or
not, and a decision and a launch meet in one cycle; the excess, which needs two alto
containers, is in `ciclo`. In `munk8s` two requests compete for a socket of one
message, and three adverse events allow a lost channel, a dead pod and a blocked
broker in one behaviour; the three countries are one that everybody accepts, one that
nobody does and one that only rust-api does ("RUſ", whose upper case is RUS). Three
executions in `vida` are one that leaves a line, one that inherits it and one more; in
`observacion` a second cycle is what ranks a container with another set of PIDs or a
lower score. Its four processes are a host process whose command goes on with a line
like that of the RAM and one like that of process 3, a container whose name has "|"
and a number, its child, and a container whose command has a newline and no line that
looks like anything. Two cycles record two points, or three when one is repeated:
series of two entries are then below, at and over the trim. Deadlock is checked in the
Daemon runs; the others stop when their bounded input ends, and say `CHECK_DEADLOCK
FALSE`.

What the runs show, and which bug each would notice:

- **CycleBalances**: Decide and DecideLaunches count the same snapshot separately,
  and agree: each bucket ends exactly at its minimum. **HeaviestFirst**: the order
  of elimination is that of the three criteria, through aggregation and ties.
  **WholeContainer**: all the processes of a decided container and no other.
- **EventsAreKills**, **NoLossBelowCapacity**, **ConfirmedWereTargets**,
  **RingDrains**: the probe may lose but never invents, repeats or reorders; from any
  moment at which ring and channel are empty it loses nothing until more kills have
  followed than one of them holds; a confirmation is of an event that this very call
  received and that was in a buffer when the call began, or came later; a full ring
  is always emptied. What is left of staleness is that an old event still buffered
  confirms, and no more than that.
- **MinimumKept**: of the containers a cycle saw, those that run or fell by
  themselves never go below the minimum. **OnlyDecidedSignalled**: a signal reaches
  only decided containers. **AttackedAreGone**: once ExecuteKills is done with a
  container nothing of it runs. These are about the same stale PIDs from three
  sides.
- **IntrusoFalls**, **MinimumRestored**: what the daemon is for, eventually.
- **Custody**: each report is at one place, unacknowledged ones in exactly one pair of
  hands. **AckedAreCounted**: counters and frequencies include every acknowledged
  report, and so do the two sums of a country and magnitude none of whose figures is
  negative. With a negative one the sums have no such bound: a half-done pipeline that
  is repeated applies it twice. **OvercountBounded**: one adverse event repeats at
  most the prefetch. **ExactWithoutFailures**, **ExtremesExact**, **Drains**.
  **ImplementaEntrega**: nothing is settled before it is completely counted, nothing
  is counted after it is settled.
- **OkWasPublished**: the reports written by go-server are, one by one, those in the
  socket, gone with it, or in the ledger, and every "ok" is about one of them.
  **RefusedNeverCounted**: a 400 or an error of go-server means that the report is
  not and will not be counted; a 502 of a counted report comes from an uncertain
  hop. **Answered**: every request is, although rust-api has no timeout.
  **OkIsCounted**: an "ok" ends in the aggregates unless the socket or the broker
  lost the report.
- **OneLine**, **NoOrphanLine**, **OthersKept**, **ModuleIsLoaded**,
  **StopsWhenAsked**: what survives the daemon, and that it stops when asked. The
  user's lines survive unless an edit of his crossed the daemon's, or a `crontab -l`
  of the daemon failed.
- **WalkIsExact**, **FreedOnlyAfterExit**: the unlocked walk misses and repeats
  nobody who lived through it; it can only reach freed memory through a task that
  ended while its line was printed. That this is possible at all is a weakness of
  the loop: the reference is dropped before the next pointer is read.
- **ParsedRight**, **CorrelatedRight**, **MainCorrelated**: a process whose text is one
  line is there with its figures, whatever "|" and numbers the text holds; all else
  stems from a text with a newline, and nobody is there twice unless such a text has
  a line that looks like a process. A PID is blamed on its own container or on none,
  also when a text invented it; and, the newlines apart, no container is known by its
  children only. The last is what `Daemon` assumes of a snapshot.
- **TotalsAgree**, **PeakKept**: the dashboard's numbers. The cards are the last point
  of their series; the total is the sum of its series while this is shorter than
  MAXLEN, and never less than what a trimmed one still adds up to.

### Disagreements found

1. *reuso*: with PID reuse a process that no decision named is killed. The comment
   at manager.go 31-33 expects PID numbers to wrap around, and nothing identifies
   the process again before the signal.
2. *conteo*: the tracepoint is at the entry of kill(), so a container that ended by
   itself is "confirmed" by the failed call and counted.
3. *nombres*: two launches of a perfil in the same second have the same name, and
   the shortage is not covered until a later cycle.

Others were met while modelling and have no run, because the runs that expect a
violation are kept for what the signals and the launches do:

- `zset:*` and `top:*` are updated by separate commands of a pipeline that is not a
  transaction; after one that fails between them and is delivered again they never
  agree again, although the manual of Proyecto 3 calls one the backup of the other.
- "Manual Tecnico.pdf" 3.7 of Proyecto 2 says that SIGINT or SIGTERM stops the
  daemon in order and removes its crontab line. A signal before main.go:62, a failed
  Ping or probe after installCronjob, or a removal whose failure `|| true` hides
  (main.go:215) leaves it: these are the cases that `NoOrphanLine` lists.
- parser.go:110-112 says that the name never contains "|"; `comm` is free text. It
  does no harm to the figures (`ParsedRight`), but the name is cut. A newline in a
  command does harm: the process is skipped or weighs nothing, or its next line is taken for
  a process (a number first, at least seven fields), with any PID and figures, or for
  the RAM in use.
- The total of eliminations and its series disagree for good once the series is
  trimmed at about 500 entries (store.go:40), which is to be expected of them but is
  said nowhere.
- Negative figures pass every hop: `i32` in rust-api, `int32` and `int` behind it. The
  sums of a country then go down, and a repeated delivery takes them below the sum of
  what was acknowledged.
- The pipelines at main.go:208 and 215 read the crontab and write it back so that the
  user's other lines stay; their `2>/dev/null` hides a `crontab -l` that failed, and
  what is written back then is the daemon's line alone, or nothing (`OthersKept` lists
  the case).
- store.go:118 promises the peak *of each container*; the member holds the PIDs, so
  a container that forks appears several times in the Top 5. The peak itself is kept
  (`PeakKept`).
- rust-api uppercases the country and go-client lowercases it; Unicode has letters
  for which the first check accepts what the second refuses.

### Fairness

`Daemon`: weak fairness of the cycle as a whole, because the daemon runs one cycle
after another and no call of it blocks for ever (kill, /proc and docker return,
WaitConfirmations has a deadline), and of the clock. Nothing obliges cron, the
containers or the probe to move: the properties hold without confirmations. Adverse
events are bounded, which is how "once failures stop" is said. `Consumer`: weak
fairness of each goroutine, of delivery while the channel is open, of the library
closing the channel of a lost connection, and of Kubernetes restarting the pod.
`MCSonda`: of readLoop.

`Munk8s`: handlers of rust-api and go-client run, deadlines pass, the broker reads
what it has not blocked and goes on reading once memory is free, and the consumer
counts and settles (`Drains`); nothing obliges go-server to publish or to answer.
`Lifecycle`: main runs and its calls return, and strong fairness of the signal
branch of the select: Go draws among the ready cases at random, so a pending signal
is not passed over for ever, although a tick may be ready each time.

## 4. Proofs

Every safety property that a passing run checks is a theorem, for every number of
PIDs, containers, processes, reports, workers and failures, every capacity and every
minimum. The proofs use only the named assumptions of the modules
(`MinimosAssumption`, `CapAssumption`, `DaemonAssumption`, `MCManagerAssumption`,
`SnapshotAssumption`, `StoreAssumption`, `ObservacionAssumption`, `LifecycleAssumption`,
`ConsumerAssumption`, `Munk8sAssumption`), which TLC evaluates in the runs. They say
that bounds are naturals and that data has its type; `ConsumerAssumption` also says
that reports and countries are finitely many, without which `OvercountBounded`, a
sum over the countries, means nothing.

| Theorem | Says |
|---|---|
| ManagerProofs `PruneSparesMinimum`, `DecideSparesMinimum` | exactly the minimum is spared, in any order the sort may leave |
| ManagerProofs `DecideHeaviestFirst` | nobody of a bucket goes before a heavier one of it |
| MCManagerProofs `CycleBalancesAlways`, `HeaviestAlwaysFirst`, `WholeContainerAlways` | the invariants of run *decisiones*, for every snapshot and listing |
| MCSondaProofs `EventsAreKillsAlways`, `NoLossBelowCapacityAlways`, `ConfirmedWereTargetsAlways` | the invariants of run *sonda*, for any ring, channel and kills; the second speaks of every stretch that begins with both buffers empty |
| DaemonProofs `TypeCorrect` | `Spec => []TypeOK` |
| DaemonProofs `CycleSafe` | `Spec => []IInv` |
| DaemonProofs `SignalsAreDecided`, `AttackedDie`, `MinimumAlwaysKept` | the three safety properties of the cycle |
| ObservacionProofs `FreedOnlyAfterExitAlways`, `WalkIsExactAlways` | the unlocked walk of the task list |
| ObservacionProofs `ParsedRightAlways`, `CorrelatedRightAlways`, `MainCorrelatedAlways` | parser and correlator, for any texts |
| ObservacionProofs `TotalsAgreeAlways`, `PeakKeptAlways`, `TypeCorrect` | what is kept in Valkey, for any length and trim of the series and any number of repetitions, and the types: with the above, all of run *observacion* |
| LifecycleProofs `LifecycleTypeCorrect`, `NeverTwoLines`, `OrphanLinesExplained`, `OthersSurvive`, `ModuleLoadedAfterStart` | all the invariants of run *vida*, for any number of executions, failures and edits |
| ConsumerProofs `ConsumerTypeCorrect`, `CustodyHolds` | `Spec => []TypeOK`, `Spec => []Custody`, for any workers, reports and prefetch |
| ConsumerProofs `ConsumerImplementsEntrega` | `Spec => ImplementaEntrega`: the refinement |
| ConsumerProofs `AckedAlwaysCounted`, `ExactAlways` | the aggregates hold at least the acknowledged reports (the sums, where no figure is negative), and exactly them while nothing has failed; Valkey keeps its keys |
| ConsumerProofs `ExtremesAlwaysExact` | the extremes are right when all is settled, whatever was repeated |
| ConsumerProofs `OvercountAlwaysBounded` | a failure repeats at most the prefetch |
| Munk8sProofs `PathTypeCorrect`, `OkIsWritten`, `RefusalsHold` | the types and both invariants of run *munk8s*, for any requests, faults and socket |

The theorems of DaemonProofs but the first assume `PidReuse = FALSE`: run *reuso*
shows that without it they fail.

**Manager.** The bucket is a sequence sorted by `Antes` and cut; the lemmas are about
what sorting and cutting preserve, so `DecideHeaviestFirst` holds whatever order ties
take. `HeaviestFirst` then needs that the figures `Decide` compares are the sums that
`aggregate` makes, and `WholeContainer` that a decision appears once (`SinRepetir`).

**Probe.** `ProbeInv` is the types and the three properties. What makes them
inductive is to read ring, channel and what was received as one sequence in transit
(`EnCamino`): a kill appends to it or is dropped by a full ring (`KillTransit`), and
a turn of the reader moves an event along it or drops it at a full channel. It is
always a subsequence of the kills. For `NoLossBelowCapacity` the same is said of the
kills since both buffers were last empty: while these are no more than a buffer
holds, neither has been full when an event came, so nothing was dropped, and the
count starts again, from two empty sequences, when the buffers are drained.

**Daemon: the inductive invariant.** `OnlyDecidedSignalled` is not inductive: whether
a signal reaches its container depends on what the snapshot still says of the host.
`IInv` adds: a container runs exactly while its main process does (`HostOK`); a
correlated PID is still its container's, or free (`SnapOK`); a snapshot with a
process of a running container has its main one (`MainSeen`), which is why killing
the listed PIDs kills a child forked later; where the loops are, and that the PIDs
already passed in the SIGKILL loop are free (`LoopOK`); spared containers run or
fell by themselves (`SparedRun`).

**Daemon: the argument.** The host changes in two ways only. Either it shrinks (a
process ends, with its container when it is the main one) or it grows (a free PID
outside the snapshot is taken). One lemma for each says that the snapshot
(`FotoMengua`, `FotoCrece`) and the loops (`LoopMengua`, `LoopCrece`) survive it, and
every action of the host and every signal is one of the two. The steps of the daemon
move the loops (`AvanzaLoop`) or clear them (`CicloFin`). `MinimumKept` then follows
from `SparedRun` and `DecideSparesMinimum`: the spared ones are exactly the minimum.

**Observacion.** Five layers, each an invariant that the next one uses. `HostOK`:
the pointers of the list form a ring in the order of creation, and the pointer of a
task that left still goes forward and jumps over nobody alive. `WalkOK`: what is
printed is ordered, nobody alive below the last line was left out, and from where the
walk stands it cannot pass a process that lived through it (`Alcance`, a set closed
under the pointers); `FreedOnlyAfterExit` and `WalkIsExact` are read off it.
`LecturaOK`: each process parsed comes from a line of some text, everybody on one
line is among them with his figures, and they are in order unless a text invented one
(`ProcsOK`); the cgroups read so far are the right ones or none, also of an invented
PID, which may be born after it was looked for, and unless a text invented somebody a
container is never without its main process (`AdjuntoOK`). `BienLeida` says this of
the lines of one process, and the `Aplana*` lemmas carry it through `FlattenSeq`.
`StoreOK`: series and totals; a repetition adds equal points to both, and a trim
leaves a sum no greater than before (`SumaRepetido`, `SumaRecorte`). `RankOK`:
every container that was ranked has a member with its peak. `PeakKept` alone is not
inductive: between the two commands of a container its RAM is in the ranking and not
yet in the history (`medio`).

**Lifecycle.** `OneLine` needs to know what is being written: what `leido` holds
while the shell is between its read and its write has no line of the daemon, and its
other lines are those the user left unless the edit crossed (`EnMano`). The rest are
the invariants themselves, conjoined, because `NoOrphanLine` depends on how the last
execution ended and `ModuleIsLoaded` on what was unloaded since.

**Consumer: custody.** The invariant has a part for each thing a crash can disturb: a
report is in exactly one of the six sets (`Reparto`); while the channel is open, what
is unacknowledged is buffered or held by exactly one worker (`Tenencia`); a worker
whose pipeline has returned holds a counted report, and so does every settled one
(`Contado`); flags of the process (`Banderas`) and the prefetch (`Tope`). `Custody`
follows by cardinalities of disjoint sets. For the refinement each action is one of:
publication, count (`ExecVuelve` of a pipeline without errors), settlement (`Ack` on
a live channel), drop (`Toma` of an undecodable report), loss, or a stutter; a
worker on a dead channel never acts on a settled report, because `Tenencia` leaves
its report in the queue until the process is restarted.

**Consumer: the figures.** None of the four properties of the aggregates is
inductive, because they speak of settled reports and the keys change long before.
`Colas` says what is left of each pipeline: commands of its report, each once, INCR
first of all. `Contados(o)` is the set of reports for which command `o` has been
carried out for good: acknowledged ones, and those of workers that will acknowledge
if nothing happens. Only the step that carries the command out adds to it, by one
report; a failure or a lost connection takes reports away and never a figure.
`Sumas` then says that each key is at least the sum over its `Contados`, and equal to
it when nothing failed; for the keys that add figures the first half has the premise
that none of that country and magnitude is negative (`AcumulaCifras`, `SumaNatural`),
the second has none; and `Extremos` says the same of maximum and minimum, with the
other half, that each is the figure of a published report. `AckedAreCounted` and
`ExactWithoutFailures` follow because the acknowledged are among the counted, and are
all of them when no worker is busy. For `OvercountBounded`, `Repeticion`: all the
INCRs that ran, and those that workers on a dead channel still will run
(`Pendientes`), are at most the counted reports plus the prefetch for each adverse
event. An adverse event takes reports out of the counted or puts them among the
pending, never both with one report and only unacknowledged ones (`Hueco`); no other
step opens a gap.

**Munk8s.** The two invariants need what each hop knows of the next (`Flujo`: a hop
that answered with a refusal had never called further, one that answered ok had a
written report behind it, whatever died since) and where a written report is
(`Lugar`).

**Sums.** The library's `MapThenSumSet` and the function `Suma` are recursive
functions, that is, a CHOOSE of one that solves the recursion, so each proof starts
by showing that a solution exists. The library's induction theorems take a predicate,
which no installed prover can instantiate; `InduccionNat` and `InduccionPartes` state
induction for a *set* of naturals or of finite sets instead, from the
well-foundedness of <, and are enough for that. No module declares a RECURSIVE
operator.

**Only model-checked.** Liveness under fairness (`IntrusoFalls`, `MinimumRestored`,
`Drains`, `RingDrains`, `Answered`, `OkIsCounted`, `StopsWhenAsked`), which this
prover does not reach.

## 5. Not modelled, and plan

Not modelled:

- the three APIs of `Proyecto 1`: /health answers a constant and calls nobody;
  call-apiN is one GET with a timeout and a Boolean of its result. No state outlives
  a request and no request can wait for itself;
- `proyecto3/proto/*.pb.go`: generated;
- the load generator, Grafana, Falco, Zot and the Kubernetes manifests: environment
  and configuration. Of the manifests the models take that go-consumer has one
  replica that is restarted, and that RabbitMQ has no volume; they do not take the
  memory limit and the persistence of Valkey;
- what Valkey itself may lose: eviction under `maxmemory` and the last second before a
  crash (see *Abstractions*);
- inside modelled parts: wording, the 24 h expirations, the length limit of the
  consumer's stream, the retries of the connections before the loops (they only delay a
  start), a node that vanishes without closing its connections.

Left to do, in order of importance:

1. What of the cycle survives PID reuse: the theorems of DaemonProofs assume there is
   none, although `TypeCorrect` does not need it and the count of a cycle should not
   either.
2. That the picture `Observacion` takes is one that `Daemon` assumes: `MainCorrelated`
   states it, and a refinement mapping between the two modules would say it of whole
   behaviours.
3. The mode of `process` (main.go 75-98 of go-consumer): a slower worker may
   overwrite a newer mode, which no property is about because nothing in the
   repository says what the mode is worth while reports arrive.
