# A verification project for builda

builda ships one binary with two roles that talk HTTP, the **controller** and the
**agent**, and a deprecated **standalone** role (`builda serve`). This directory holds
TLA+ modules that model its core, TLC configurations that check them on small
instances, and TLAPS proofs that the safety properties and the two refinements hold for
instances of any size.

## 1. The system

| Part | State it keeps | Operations |
|---|---|---|
| Controller queue (`ctrlqueue.go`, `ctrlagentops.go`, `ctrlstate.go`) | executions: status, owner, permit, revocation, cancellation, attention | enqueue, cancel, resolve, delete; reconcile, permit, heartbeat, result, attention, log append |
| Scheduler (`ctrlsched.go`) | last assignment of each agent; availability from configuration and liveness, occupancy from the executions | `scheduleOnce`, after handlers and on a ticker; `AgentViews`, `queueReason` |
| State store (`ctrlstore.go`, `util.go`) | one JSON snapshot, its copy in memory, log files, subscribers | `mutate` (clone, write, commit, broadcast), pruning, `Wait`, load |
| Agent (`agent.go`, `agentupload.go`) | one main goroutine, the set of blocked executions, acknowledged log offset | poll, run, recover, complete, block, heartbeat |
| Journal (`agentjournal.go`) | one entry per execution in the spool | save, load, list, remove |
| Execution (`agentexec.go`, `agentproc.go`) | the script's process group | intent, start, identity, supervision, kill, orphan verdict |
| Agent protocol (`api_agentproto.go`, `agentclient.go`, `proto.go`) | requests under way | long poll, calls with retry |
| Run API (`api_jobs.go`, `api_runs.go`, `api_queue.go`) | requests that wait | run, cancel, rerun, delete, `wait=1` |
| Configuration (`controller.go`, `ctrlconfig.go`, `api_config.go`, ...) | YAML file, copy in memory, file stamp | guarded edit, whole document save, hot reload |
| Agent administration (`api_agents.go`) | agent definitions, their tokens | create, update, delete, rotate and revoke a token |
| Credentials and sessions (`ctrlauth.go`, `ctrlsession.go`, `ctrlhttp.go`, `api_session.go`, `api_tokens.go`, `cli_controller.go`) | credential file, a copy of it in every process, sessions, login limiter | set password, issue, revoke, verify, sign in, sign out |
| Parameters (`paramresolve.go`, `paramenv.go`) | none | pure resolution of a request against a configuration |
| Standalone runner (`runner.go`, `runner_exec.go`) | list of runs, active run, `runs.json` | start, cancel, delete, finish, load |
| Migration (`migrate*.go`) | ledger of imported origins | plan, export, import |
| CLI, services, web pages | none that the system depends on | |

**How the parts interact.** An operator's request and every agent call end in one
transaction of the state store. Handlers call the scheduler after their own
transaction; the scheduler assigns a queued execution to a free agent. The agent's
long poll reports which executions it knows, is reconciled with the record, and
returns an assignment. The agent journals it, asks for a permit, journals that,
records the intent to start, starts the script, records its identity, supervises it,
journals the outcome, uploads the rest of the log and submits the result. Heartbeats
tell the agent of cancellations and of blocked executions that were settled. The
configuration file feeds the scheduler with agents and the store with the history cap.
The credential file is shared by the server and by commands of the command line, each
with an `AuthStore` of its own; every request asks the server's. `migrate import` is a
process of its own that opens the store of a stopped controller.

**What is hard about it.** A call may be lost before or after it was carried out, or be
carried out after its caller gave up. Either side may stop between any two durable
steps; the script outlives the agent. Every write to the spool and to the snapshot may
fail. `AppendLog` and the configuration reload work without the lock that protects
their neighbours. Processes that share the credential file share no lock. The scheduler
decides from a view of the agents that may be out of date. An import changes log files
and snapshot one after the other. Bounded history drops runs somebody still waits for.
The list of
hazards, each at its line, with the properties about it, is in `PROJECT.json`.

**What makes it correct.** A script runs at most once and only with a permit; an end is
recorded only if it is true, and then never changed; no run is lost; a cancellation
completes; an agent has one execution at a time. The stored log is what the script
wrote. What a caller saw is durable, only finished runs leave the history. The
configuration in memory is the one on disk. The standalone server runs its queue one
by one and never repeats a run. The oldest execution goes first and one that cannot run
holds up nobody; no agent gets two, and none is removed from its work. A confirmed change of
the credentials stands, a revoked token or an old password opens nothing. A legacy run is
imported once and costs the controller none of its own.

## 2. Modules

| Module | Models | Notes |
|---|---|---|
| `Executions` | the names both halves share | agents, executions, results |
| `ControllerQueue` | the controller's record | one atomic, durable action per `mutate` |
| `AgentJournal` | the agent, its spool, the script | a step ends at each durable write, process start or end, or call |
| `Dispatch` | both halves and the calls between them; the properties | `EXTENDS` both |
| `RunOnce` | what a caller is promised | abstract; `Dispatch` implements it (`RunsOnce`) |
| `DispatchInvariant` | the inductive invariant `IInv` | |
| `DispatchProofs` | theorems about `Dispatch` | |
| `RunOnceProofs` | the refinement theorem | `EXTENDS DispatchProofs` |
| `MCDispatch` | constants of the dispatch runs | |
| `LogTransport` | one execution's log and result on their way | `AppendLog` in its separate steps |
| `LogTransportProofs` | its theorems | |
| `Fleet` | `scheduleOnce` in its two steps, and the administration of agents | `EXTENDS ControllerQueue`; refines its `ScheduleOnce` (`QueueRefined`) |
| `FleetProofs` | its theorems | |
| `MCFleet` | labels of the fleet run | |
| `History` | the snapshot store, pruning, log files, `wait=1` | |
| `Import` | `migrate import` and the ledger of imported origins | `EXTENDS History` |
| `ImportProofs` | theorems about both | |
| `Credentials` | the credential file and the `AuthStore`s that share it | |
| `Sessions` | logins, sessions, bearer tokens | `EXTENDS Credentials` |
| `SessionsProofs` | theorems about both | |
| `Runner`, `RunnerProofs` | the standalone server | |
| `Config`, `ConfigProofs` | the configuration file and its copy | |

`LogTransport`, `History` with `Import`, `Credentials` with `Sessions`, `Runner` and
`Config` are models of their own, each with the detail the others leave out. The seams:
`Dispatch` treats a result as submitted "once every log byte has arrived" and lets the
controller answer `conflict` where `LogTransport` shows why; its `Delete` covers pruning,
whose choice `History` makes; its `ScheduleOnce` accepts any pairing of queued executions
with free agents, and `Fleet`, which makes the choice of the code, is proved to do
nothing else. `Fleet` takes an edit of the configuration as one step, whose steps are in
`Config`, and leaves the token of a deleted agent to `Credentials`.

### State and actions

*Controller.* The functions `status`, `owner`, `permit`, `revoked`, `cancelReq` and
`attention` are the fields of `Execution` that decide control. `Enqueue`, `Cancel`,
`ResolveAttention`, `Delete`, `ScheduleOnce`, `Reconcile`, `GrantPermit`,
`SubmitResult` and `ReportAttention` are the methods of the same names. A failed write
of the snapshot leaves everything as it was and answers 500, which an agent cannot tell
from a lost answer, so it is `CallFails`. A restart of the controller loses only the
calls under way. `ScheduleOnce` leaves open which of several queued executions and free
agents are paired, and so covers every order.

*Fleet.* `def`, `online` and `last` are the definition, the liveness and the
`LastAssignedAt` of an agent, the last as a rank. `View` is `AgentViews` outside the lock,
`Schedule` the transaction, in which `Pass` goes through the queue in the order of
`RequestedAt`; between the two anything may happen. `CheckDelete` and `RemoveDefinition`
are the two halves of `handleDeleteAgent`. `DropDefinition` is a saved or edited document
that lacks an agent. `ReadyOn` is the case in which `queueReason` answers "ready". A
deletion of an agent that is not defined passes the check, as in the code, and removes the
agent if somebody defines it before the second half.

*Agent.* `journal[a][e]` is the phase of an entry; "running" is `journalStarted` with a
recorded process identity. `pc`, `cur` and `reply` tell what the main goroutine does;
`todo` is what `recover` has still to visit. On `FaultyDisks` every `Save`, `Remove`
and `List` may fail; a `List` then returns any part of the entries, none if the directory
cannot be read. `RecoverEnded` and `RecoverUnproven` are the two verdicts of
`verifyOrphan`.

*Calls.* A call is `sent`, for a poll `held`, then answered. `CallFails` gives it up; the
request may stay in one of the late sets and be carried out at any later time
(`LatePoll`, `LatePermit`, `LateResult`, `LateAlert`), at most `MaxLate` of them at once.

*Log.* Byte i of the agent's log is the number i, a byte of the truncation notice is 0.
`AppendCheck`, `AppendStat`, `AppendWrite`, `AppendNotice` and `AppendMark` are the steps
of `AppendLog` between which other requests, and the end of the controller, may come.
The refusal of a gap is part of the model and is never reached: an agent continues only
from offsets the controller gave it.

*History.* Executions are numbered in the order in which they were added, so a snapshot is
its set of live and its set of ended executions, and pruning takes the smallest numbers.
`Mutate`, `Persist`, `Commit` are the parts of `mutateLocked`; `PersistFails`
and `SyncFails` its two ways to fail, before and after the rename. A client goes through
`Subscribe`, `Check`, `Wake` and `Read`, the steps of `Wait` and `respondAfterWait`.

*Import.* `proc` says who has the store open: the server, or an import and its step.
`PlanImports` is `importBundle` up to the headroom check, `CopyLog` one `copyFile`,
`ApplyImports` the transaction's function, which then goes through the same `Persist` and
`Commit` as the server's; `Cleanup` follows every failure. `ledger` is `ImportedOrigins`
on disk and in memory, and `Load` adds what `backfillImportedOrigins` finds. A dry run
opens the store read-only and changes nothing, so it has no action.

*Credentials.* `NewAuthStore`, `Stat`, `ReadFile`, `ReadFails` are `newAuthStore` and
`reloadLocked`; `Mutate`, `Change`, `Write` and `Restat` the steps of `mutate` between
which another process may replace the file. A stamp is modelled by the one thing that can
be asked of it: whether it is the file's (`fresh`, and `seen` for the one just taken).
`live`, `dead` and `password` record what some process was told; `raced`, `hidden` and
`clobbered` mark overlapping writers.

*Sessions.* A request goes through the questions of `authenticate` in their order (agent
token, API token, cookie), or of `handleLogin`; `Ask` and `Answer` are one call of the
server's `AuthStore`, `Sweep` is `DeleteBefore`, `Get` the lookup. A session remembers the
password it was made with, which the code does not, so that the property can speak of it.

*Runner.* Memory is changed first and written afterwards (`SaveLocked`, which may fail
and is then ignored). `dispatching` marks the point between an operation's own save and
the `dispatchLocked` that ends it, where the server may end. `CancelContext` is apart
from `Cancel` because the code gives the lock back in between.

*Config.* A document is the set of edits in it, a stamp the number of replacements of
the file. The watcher (`WatchStat`, `WatchLoad`, `WatchApply`) and a request
(`Enter` to `Install`) interleave freely; only requests exclude each other.

## 3. Runs

| Run | Expect | Shows |
|---|---|---|
| `dispatch` | pass | Safety of the protocol, `IInv`, that it implements `RunOnce`, and that a cancellation completes (`CancelCompletes`): two agents, one with a faulty disk, one execution, one late request |
| `blocked_is_shown` | violation | The attention report is sent once; lost, the operator is never asked |
| `log_transport` | pass | The stored log is a prefix of the written one, acknowledged bytes are stored, a result has its log, nothing changes afterwards, a log below the cap gets through |
| `log_conflict` | violation | An agent restarted after its result was recorded meets 409 for ever |
| `history` | pass | What is shown is durable, only ended runs leave, listed runs have their logs, no wakeup is lost; repeated and interrupted imports list a legacy run once and cost the controller no run and no log |
| `wait_returns_run` | violation | A run may be pruned by the transaction that ends it; its caller gets 404 |
| `runner` | pass | No run twice, one at a time, in order; ends and cancellations stand; the queue moves |
| `config` | pass | The stamp in memory can be trusted; a valid file gets into memory |
| `edits_kept` | violation | A reload between clone and guard lets a form edit write an older document over a confirmed edit |
| `credentials` | pass | A stamp can be trusted, confirmed changes of the credentials stand, a revoked token and a session of an old password open nothing |
| `fleet` | pass | `scheduleOnce`, from a stale view, gives no agent two executions (`OneActivePerAgent`), refines the abstract `ScheduleOnce`, prefers the oldest and agrees with the queue page, whatever an administrator does; an execution that is ready is not held up by one nobody can take |
| `owner_stays` | violation | An execution assigned between check and removal loses its agent |

### Bounds

- `dispatch`: two agents are what a requeued execution needs to move, and one
  late request is one more than the caller's own; with one execution the interplay is
  complete because executions meet only in the occupancy of an agent, of which `fleet`
  has two. One agent's disk may fail at every read and write, the other's not:
  either may get the execution first, and `CancelCompletes` can be expected of the
  second one only. The proofs of the safety properties do not depend on these bounds.
- `log_transport`: cap 3, chunks of at most 2 and a log of up to 5 bytes give chunks that
  end below, at and beyond the cap, and retries that overlap; the notice has 2 bytes, so
  it can be cut by a late payload. `MaxFaults` 2 lets a fault hit the recovery from
  another.
- `history`: three executions with caps 1 and 2, so that pruning drops the oldest, the
  newest and none; the first writes a log; a request waits for the second, which
  the third can push out or outlive. Two legacy runs, one with a log,
  and two imports of either or both: the second meets what the first left, complete or
  not. The server starts empty, or with a snapshot from before the ledger. `MaxFaults` 1
  bounds stops and failures after the rename; other failed writes are not bounded.
- `credentials`: the server, one command and one client, before the first password or
  with one and an enrolled agent; with two tokens and two passwords each can be replaced
  or revoked once. One spoilt file, one stop of the controller, one change
  through the API. A limit of 1 makes the login limiter act.
- `fleet`: two agents and two executions, of which one can run on one agent only: an item
  that blocks the queue, a choice between agents, and two assignments in one pass.
  One event (an administrator's request, a dropped definition, a failed write or a stop).
  There is one caller of `scheduleOnce`, `schedulerLoop`. With a handler that calls it at
  the same time (`Schedulers = {loop, handler}`, 700,928 states) all properties
  hold too, but a run on two workers takes longer than five minutes; the theorems on
  `OneActivePerAgent`, `QueueRefined` and `OldestFirst` hold for any number of callers.
- `runner`: three runs, caps 1 and 2, two faults: an end of the server can follow a
  failed write, and a second one the recovery.
- `config`: one form edit, one saved document and two edits by hand (a file broken and
  repaired), one stop.

`CHECK_DEADLOCK FALSE` appears where bounded inputs run out: after the last execution,
run or edit nothing need happen. The dispatch model is checked for deadlock.

### Fairness

Only what the code's loops and the Go runtime give is assumed. A goroutine that can go
on is scheduled (`WF` on an agent's own work, on a handler, on the watcher, on the
runner's `execute`, on a transaction of the store; `schedulerLoop` calls `scheduleOnce` on
every tick, so `WF` on its `View` and `Schedule`, while a handler calls it once). A call that its caller retries without end is carried out and
answered at some time (`SF` on `ControllerCall` and `Receive`); a call made once is not.
A request that asks for the store lock again and again gets it (`SF` on `Wait`; Go's
mutexes do not starve). Nothing is assumed of operators, of scripts, or of an agent or
server that is down: `QueueMoves` states its assumption on scripts itself, and
`CancelCompletes` and `ShortLogConverges` name the agent that went down. Nor is
anything assumed of an agent whose disk is faulty: as long as its writes fail it gets no
end recorded, so `CancelCompletes` is about the others. `credentials`
checks safety only and assumes no fairness.

## 4. Findings

Five runs show the code doing other than its documents or comments say; `PROJECT.json`
quotes the lines. In short: a lost attention report leaves an agent blocked unseen
(`agentupload.go:266`); a closed log is retried for ever after a restart
(`agentupload.go:125`); pruning can drop the run that just ended (`ctrlstore.go:321`); a
reload between the clone and the guard of an edit lets it overwrite a confirmed edit
(`controller.go:206`); an agent may be given work between the check of its deletion and its removal (`api_agents.go:137`).

Other disagreements are part of the models and noted with their hazards, without a run of
their own: a permit refused for good is asked for again without a pause (`agent.go:164`); a
stop between truncation notice and mark makes a result unacceptable
(`ctrlagentops.go:233`); of two processes that change the credentials at the same time the
later undoes what the earlier confirmed (`ctrlauth.go:130`).

Some passing properties except a case the code does lose, and say so:

- the runner's history, if the server ends while its last write had failed (`lossy`);
- an edit by hand of the configuration, or another process's write of the credentials,
  between a write and the stat that follows it (`hidden`);
- a credential change that another process overwrites because both had read the same
  file (`clobbered`; `ctrlauth.go:130`): the properties of `credentials` say what holds as
  long as that has not happened;
- a session whose login was verified while the password was being replaced, or that is
  used while the credential file cannot be read (`SessionIsCurrent`);
- the log of an imported run, if the snapshot was replaced and its directory could not be
  synced: the import removes the log, and the run is listed (`withdrawn`;
  `migrate_import.go:212`).

## 5. Proofs

Every invariant and every action property that a passing run checks, and both refinements,
are also theorems. The runs show them on a small instance with all cases of the bounds in
section 3; the theorems hold for every value of the constants that satisfies the
assumptions below.

| Module | Theorem | Statement |
|---|---|---|
| `DispatchProofs` | `Invariance` | `Spec => []IInv` |
| | `TypeCorrect` | `Spec => []TypeOK` |
| | `StartedAtMostOnce` | `Spec => []AtMostOnce` |
| | `NoProcessWithoutPermit` | `Spec => []NoPermitNoProcess` |
| | `EndsAreConfirmed` | `Spec => []EndIsConfirmed` |
| | `SuccessesAreReal` | `Spec => []SuccessIsReal` |
| | `NoRunIsLost` | `Spec => []NoLostRun` |
| | `HistoryIsFinal` | `Spec => TerminalIsFinal` |
| | `PermitsAreFinal` | `Spec => PermitIsFinal` |
| | `AgentsHoldOneExecution` | `Spec => []OneActivePerAgent` |
| `RunOnceProofs` | `PromiseIsKept` | `Spec => RunsOnce` (refinement) |
| `LogTransportProofs` | `NoByteLost` | `Spec => []Inv` (types, acknowledged bytes are stored) |
| | `FileIsLog` | `Spec => []LogIsFaithful` |
| | `ResultComesWithLog` | `Spec => []ResultHasLog` |
| | `HistoryIsFrozen` | `Spec => ResultIsFrozen` |
| `FleetProofs` | `SchedulerImplementsQueue` | `Spec => QueueRefined` (refinement) |
| | `QueueOrder` | `Spec => OldestFirst` |
| | `ReadyMeansReady` | `Spec => []Inv` (types, the queue page agrees with the scheduler) |
| | `OneExecutionEach` | `Spec => []OneActivePerAgent` |
| `ImportProofs` | `ShownSurvives` | `ImportSpec => []Inv` (types, what is shown is durable) |
| | `LiveRunsStay` | `ImportSpec => []OnlyEndedLeave` |
| | `LogsStay` | `ImportSpec => []ListedHasLog` |
| | `OneExecutionPerRun` | `ImportSpec => []ImportedOnce` |
| | `OwnHistoryStays` | `ImportSpec => ImportKeepsHistory` |
| `SessionsProofs` | `StampMeansDocument` | `Spec => []Inv` (types, a stamp means its document) |
| | `ConfirmationsStand` | `Spec => []ConfirmedStands` |
| | `RevokedStaysOut` | `Spec => RevokedIsRefused` |
| | `OldSessionStaysOut` | `Spec => SessionIsCurrent` |
| `RunnerProofs` | `OneRunAtATime` | `Spec => []Inv` (types, one run at a time) |
| | `NoRunTwice` | `Spec => []RunsAtMostOnce` |
| | `EndsStay` | `Spec => EndIsFinal` |
| | `CancellationWins` | `Spec => CancelWins` |
| | `FirstComeFirstServed` | `Spec => InOrder` |
| `ConfigProofs` | `StampNeverLies` | `Spec => []Inv` (types, a stamp means its document) |

### Assumptions

They are the named `ASSUME`s of the modules that declare the constants; TLC evaluates them
in the runs.

- *Dispatch*: `NoAgent` is no agent, `NoExec` no execution, `Matches` maps executions to
  sets of agents, `FaultyDisks` is a set of agents, `MaxLate` a natural number. The sets may be
  infinite.
- *Fleet*: agents and executions are natural numbers, as names that sort and as order of
  `RequestedAt`; the agents, which come from a file, are finitely many; `schedulerLoop`
  is one of the schedulers.
- *Log*: bounds are natural numbers; a chunk and the notice are not empty.
- *History, Import*: history caps are positive (`normalizeMaxHistory` replaces others by a default),
  there is at least one execution and one legacy run, `NoTxn` is no transaction.
- *Credentials, Sessions*: the server is neither a command nor a client, commands are
  finitely many, there is at least one token and one moment of the clock.
- *Runner*: caps are positive; *Config*: edits are finitely many, and forms, documents and
  hands are told apart.

### Arguments

Few of these properties are inductive as they stand. Each module defines its inductive
invariant `IInv` as a conjunction of named parts and proves `Init => IInv`, one lemma per
action for `IInv /\ Next => IInv'`, and from it the properties. Every `IInv` was first
checked by TLC on the instance of its run.

**Dispatch.** Whether a second start is possible depends on what the journal of the owner
says, on whether a poll offered the execution again, and on whether an old permit request
may still be carried out for an agent that forgot the execution. `IInv` adds what these
say together:

- `Records`: the controller's record is coherent, a process needs a permit, and the
  properties hold for each execution;
- `Entries`: what a journal entry implies: past "accepted" the execution has left its
  early stages, "permitted" to "running" mean a permit of this agent, an entry that may
  still be started has no process yet, a "finished" one has no running process;
- `Places`: what the place of the main goroutine implies for the entry in hand;
- `Lates`: what a request that outlived its call implies. A late permit for an
  execution not yet permitted finds its journal entry still there; a late result belongs
  to a run that is over.

The controller's operations are shown to be `Lawful`, a relation between the record before
and after that says what any of them may change, and `ControllerStep` shows that a lawful
step that leaves the agents alone preserves `IInv`. `AgentStep` is its counterpart: a step
of one agent that changes one entry, and whose new entry and place satisfy their parts,
preserves `IInv`; the lemmas for the agent's actions establish its hypotheses.

**RunOnce.** Every step of the protocol moves at most one run, by a step of `RunOnce`. One
fact is needed beyond `IInv`: attention is asked for only after the permit (`AlertInv`),
because an operator's verdict on a run that still waits is no step of `RunOnce`.

**LogTransport.** Requests that were given up go on beside their retries, so the argument
cannot say who writes next. It says what each request under way may still do (`InvCall`):
its bytes are bytes of the agent's log, it found the file as long as it wrote down, and
files never get shorter; what it writes is what the file holds there already or what is to
follow. `InvLength`, `InvAgent` and `InvRecord` connect the length of the file with what
agent and record claim.

**Fleet.** `Pass` is a recursive function over the queue. `PassLaw` shows that its equation
has a solution: two functions that follow the rule agree (`FollowsOnce`), and one exists up
to every execution (`FollowsSomehow`), each by a least counterexample. That a pass serves
the oldest, and that its result is an `Assignment` of `ControllerQueue`, follow from the
equation. It also shows that a pass gives one execution each to agents that have none, so
that `OneActivePerAgent` is inductive with the types, however many passes overlap.

**History and Import.** `InvTxn` says what a transaction under way may make of the memory:
nothing finished becomes live, only what it deletes is missing, everything listed has its
log. `InvImport` says that an import has the store for itself until its snapshot is
written, `InvPlan` that the IDs it chose are new, and `InvLedger` where an origin is
recorded at each moment: in the written ledger or with a run on disk, and in memory
whenever the next plan may look there.

**Credentials and Sessions.** A call that nobody overtook works on the file's document
(`InvCall`), a fresh stamp means the file's document (`InvStamp`), and a token under way is
in nobody's document yet (`InvToken`), so that no removal can mean it. `InvQuestion`
carries a confirmation to the client whose question came after it.

**Runner.** `InvSlot` is mutual exclusion. That a run is launched once rests on the file:
it is what is in memory or known to be older (`InvFile`), and never ahead of it
(`InvBehind`), so a restart requeues a run only if it never left the queue (`InvLaunches`).

**Config.** A stamp and a document travel together through the hands of the watcher and
the requests. Such a pair is older than the file, and will be seen to be, or true of it
(`True`); where a document travels without a stamp, the file as it is vouches for it.

### What the proofs changed

- `History` had snapshots as sequences; their order is the order of the numbers, so they
  are sets. A refused import now leaves its copied logs to `Cleanup`, as the code does.

### Checked by TLC only

The liveness properties `CancelCompletes`, `ShortLogConverges`, `WaitEnds`, `NoStall`,
`QueueMoves` and `ConfigConverges`: their proofs need `ENABLED` and fairness, which the
prover does not handle. And the five runs that expect a violation.

## 6. Not modelled

- Text: scripts, environments, parameters, names, log formatting, JSON and YAML. A
  document or a request is accepted or refused.
- Time: timeouts and tickers may fire at any moment; rates (a poll answered without
  delay while a cancellation is pending) are beyond the model.
- Process groups: the proof of ownership is a verdict, and a kill reaches the whole
  group. A descendant that left its group is not represented.
- Secrets: hashing, CSRF tokens and origin checks decide about one request and keep no
  state. In `Dispatch` the agent of a request is taken as authenticated.
- Labels: those of an agent do not change in `Fleet`.
- Parameter resolution: pure functions; planned as operators.
- Export, plan and config of `migrate` (they read one installation and write new files),
  the CLI, service installation and web pages.
- The standalone server's log files, waiting requests and task file reload.

## 7. Plan

Done, in this order: dispatch with its invariant and proofs, log transport, history, the
standalone runner, configuration editing; the scheduler and agent deletion (`Fleet`),
credentials and sessions, import; then the proofs of every safety property and of both
refinements. Next:

1. *Proofs*: lemmas for the safety half of the liveness properties (which states can wait
   for what), and a theorem that joins `QueueRefined` with the invariant of `Dispatch`.
2. *Parameters*: resolution as operators against a reference definition.
3. *Standalone server*: log files and reload of the task file.
