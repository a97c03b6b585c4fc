------------------------------ MODULE History ------------------------------
(***************************************************************************)
(* The controller's snapshot store: how a mutation becomes durable, how    *)
(* the terminal history is capped, what happens to the log files of what   *)
(* leaves it, and how a request that waits for its run finds out.          *)
(*                                                                         *)
(* mutate holds the store lock from the clone to the commit, so there is   *)
(* at most one transaction and nobody reads the memory while it is under   *)
(* way; the process may stop between its steps.  An execution is live      *)
(* (queued or active) or done (terminal); module ControllerQueue has its   *)
(* other fields.  The store keeps the executions in the order in which     *)
(* they were added, and that order is the order of their numbers.          *)
(***************************************************************************)
EXTENDS Naturals, FiniteSets

CONSTANTS
  MaxExecs,  \* bound on the executions
  Clients,   \* requests that ask for a run
  Caps,      \* values server.max_history takes, normalised
  Writers,   \* the executions that write a log
  Waited,    \* the executions that a request waits for
  MaxFaults, \* bound on stops of the controller and on replaced snapshots that count as failed
  NoTxn      \* no transaction

ASSUME HistoryAssumption ==
  Caps \subseteq Nat \ {0} /\ Caps # {} /\ MaxExecs \in Nat \ {0} /\ MaxFaults \in Nat

Execs == 1 .. MaxExecs
NoExec == 0

VARIABLES
  disk,      \* the persisted snapshot's Executions
  mem,       \* s.data.Executions
  cap,       \* s.maxHistory
  logs,      \* logs[e]: whether e has a log file
  txn,       \* the transaction under way
  pc, want, signal, \* of each client: place, execution, whether its channel is closed
  gone,      \* gone[e]: how a persisted snapshot came to lack e (history)
  faults     \* how many of the faults MaxFaults bounds there were

client == <<pc, want, signal>>
vars == <<disk, mem, cap, logs, txn, client, gone, faults>>

Snapshots == [live : SUBSET Execs, done : SUBSET Execs]
Transactions == [list : Snapshots, deleted : SUBSET Execs, stage : {"begun", "written"}]
ASSUME NoTxnAssumption == NoTxn \notin Transactions

Places == {"idle", "subscribe", "check", "parked", "read", "got", "gone"}

TypeOK ==
  /\ disk \in Snapshots /\ mem \in Snapshots /\ cap \in Caps
  /\ logs \in [Execs -> {"none", "file", "removed", "withdrawn"}]
  /\ txn = NoTxn \/ txn \in Transactions
  /\ pc \in [Clients -> Places] /\ want \in [Clients -> Execs \cup {NoExec}]
  /\ signal \in [Clients -> BOOLEAN]
  /\ gone \in [Execs -> {"no", "pruned", "deleted", "lost"}] /\ faults \in 0 .. MaxFaults

StartsWith(list) ==
  /\ disk = list /\ mem = list /\ cap \in Caps /\ txn = NoTxn
  /\ logs = [e \in Execs |-> "none"] /\ gone = [e \in Execs |-> "no"] /\ faults = 0
  /\ pc = [w \in Clients |-> "idle"] /\ want = [w \in Clients |-> NoExec]
  /\ signal = [w \in Clients |-> FALSE]

Empty == [live |-> {}, done |-> {}]
Init == StartsWith(Empty)

IDs(s) == s.live \cup s.done
Without(s, drop) == [live |-> s.live \ drop, done |-> s.done \ drop]

-----------------------------------------------------------------------------
(* Mutations: what fn makes of the clone.                                  *)

Mutate(list, deleted) ==
  /\ txn = NoTxn
  /\ txn' = [list |-> list, deleted |-> deleted, stage |-> "begun"]
  /\ UNCHANGED <<disk, mem, logs, client, gone, faults>>

\* A new execution gets an ID that none has or had, nor any log file, and comes
\* last.
Used == {e \in Execs : e \in IDs(mem) \cup IDs(disk) \/ gone[e] # "no" \/ logs[e] # "none"}
Free == {e \in Execs : \A x \in Used : x < e}

Enqueue(e) ==
  /\ e \in Free /\ \A x \in Free : e <= x
  /\ Mutate([mem EXCEPT !.live = @ \cup {e}], {})
  /\ UNCHANGED cap

\* A result, a cancellation or an operator's decision makes e terminal.
Finish(e) ==
  /\ e \in mem.live
  /\ Mutate([live |-> mem.live \ {e}, done |-> mem.done \cup {e}], {})
  /\ UNCHANGED cap

\* Any other mutation: assignment, permit, attention.
Touch == mem # Empty /\ Mutate(mem, {}) /\ UNCHANGED cap

DeleteExecution(e) ==
  /\ e \in mem.done
  /\ Mutate(Without(mem, {e}), {e})
  /\ UNCHANGED cap

\* SetMaxHistory: the cap counts from now on, even if the write then fails.
SetMaxHistory(c) == c # cap /\ cap' = c /\ Mutate(mem, {})

-----------------------------------------------------------------------------
(* The transaction.                                                        *)

\* Mutant: whatever is oldest goes, terminal or not.
PruneOldest(s) == {e \in IDs(s) : Cardinality({x \in IDs(s) : x <= e}) + cap <= Cardinality(s.done)}

\* pruneExecutions: of the terminal executions past the cap those that were
\* added first go, whenever they finished.
Prune(s) == {e \in s.done : Cardinality({x \in s.done : x <= e}) + cap <= Cardinality(s.done)}

Snapshot == Without(txn.list, Prune(txn.list))

\* How the new snapshot loses executions the memory still has.
Losses ==
  LET left == IDs(mem) \ IDs(Snapshot)
  IN  [e \in Execs |->
         CASE e \notin left -> gone[e]
           [] e \in left \cap txn.deleted -> "deleted"
           [] e \in left \ txn.deleted ->
                IF e \in txn.list.done THEN "pruned" ELSE "lost"]

Holding(stage) == txn # NoTxn /\ txn.stage = stage

\* removeExecutionLog, which may fail.
RemoveLogs(drop) ==
  \/ UNCHANGED logs
  \/ logs' = [e \in Execs |-> IF e \in drop /\ logs[e] = "file" THEN "removed" ELSE logs[e]]

\* Mutant: log files go before the new snapshot is known to be safe.
PersistSweepsFirst ==
  /\ Holding("begun")
  /\ RemoveLogs(Prune(txn.list) \cup txn.deleted)
  /\ disk' = Snapshot /\ gone' = Losses
  /\ txn' = [txn EXCEPT !.stage = "written"]
  /\ UNCHANGED <<mem, cap, client, faults>>

\* writeFileAtomicSync has renamed the new snapshot over the old one.
Persist ==
  /\ Holding("begun")
  /\ disk' = Snapshot /\ gone' = Losses
  /\ txn' = [txn EXCEPT !.stage = "written"]
  /\ UNCHANGED <<mem, cap, logs, client, faults>>

\* It failed: nothing is committed.
PersistFails ==
  /\ Holding("begun")
  /\ txn' = NoTxn
  /\ UNCHANGED <<disk, mem, cap, logs, client, gone, faults>>

\* The directory may fail to open after the rename: then the snapshot is
\* replaced, nothing is committed, and the caller sees an error.
SyncFails ==
  /\ Holding("written") /\ faults < MaxFaults
  /\ txn' = NoTxn /\ faults' = faults + 1
  /\ UNCHANGED <<disk, mem, cap, logs, client, gone>>

\* Mutants: memory is changed without the disk; nobody is woken up.
CommitUnwritten ==
  /\ Holding("begun")
  /\ mem' = Snapshot /\ RemoveLogs(Prune(txn.list) \cup txn.deleted)
  /\ signal' = [w \in Clients |-> pc[w] \in {"check", "parked"}]
  /\ txn' = NoTxn
  /\ UNCHANGED <<disk, cap, pc, want, gone, faults>>

CommitSilently ==
  /\ Holding("written")
  /\ mem' = Snapshot /\ RemoveLogs(Prune(txn.list) \cup txn.deleted)
  /\ txn' = NoTxn
  /\ UNCHANGED <<disk, cap, client, gone, faults>>

\* Memory follows, every subscriber's channel is closed, the logs of what left
\* go, and the caller is told.  Nobody can tell a stop between these from one
\* after the write, except by the logs, and those may stay.
Commit ==
  /\ Holding("written")
  /\ mem' = Snapshot /\ RemoveLogs(Prune(txn.list) \cup txn.deleted)
  /\ signal' = [w \in Clients |-> pc[w] \in {"check", "parked"}]
  /\ txn' = NoTxn
  /\ UNCHANGED <<disk, cap, pc, want, gone, faults>>

\* AppendLog creates the log of an execution the record shows to be live.
AppendLog(e) ==
  /\ txn = NoTxn /\ e \in mem.live \cap Writers /\ logs[e] = "none"
  /\ logs' = [logs EXCEPT ![e] = "file"]
  /\ UNCHANGED <<disk, mem, cap, txn, client, gone, faults>>

\* A process opens the store: memory is what load finds, and the requests of the
\* process before it are lost.  The configuration may have changed.
Open ==
  /\ mem' = disk /\ cap' \in Caps /\ txn' = NoTxn
  /\ pc' = [w \in Clients |-> "idle"] /\ want' = [w \in Clients |-> NoExec]
  /\ signal' = [w \in Clients |-> FALSE]
  /\ UNCHANGED <<disk, logs, gone>>

\* The controller stops at any point and starts again.
Restart == faults < MaxFaults /\ faults' = faults + 1 /\ Open

-----------------------------------------------------------------------------
(* A request with wait=1 for a run that is not over yet.                   *)

\* The client moves on; closed tells whether the channel it holds is closed.
Goto(w, p, closed) ==
  /\ pc' = [pc EXCEPT ![w] = p] /\ signal' = [signal EXCEPT ![w] = closed]
  /\ UNCHANGED <<disk, mem, cap, logs, txn, gone, faults>>

WaitFor(w, e) ==
  /\ pc[w] = "idle" /\ txn = NoTxn /\ e \in mem.live
  /\ want' = [want EXCEPT ![w] = e]
  /\ Goto(w, "subscribe", FALSE)

\* Wait takes the channel first and looks at the execution after that.
Subscribe(w) ==
  /\ pc[w] = "subscribe" /\ txn = NoTxn
  /\ Goto(w, "check", FALSE) /\ UNCHANGED want

Check(w) ==
  /\ pc[w] = "check" /\ txn = NoTxn
  /\ \/ want[w] \in mem.live /\ Goto(w, "parked", signal[w])
     \/ want[w] \in mem.done /\ Goto(w, "read", FALSE)
     \/ want[w] \notin IDs(mem) /\ Goto(w, "gone", FALSE)
  /\ UNCHANGED want

Wake(w) == pc[w] = "parked" /\ signal[w] /\ Goto(w, "subscribe", FALSE) /\ UNCHANGED want

\* respondAfterWait looks the finished run up once more.
Read(w) ==
  /\ pc[w] = "read" /\ txn = NoTxn
  /\ Goto(w, IF want[w] \in IDs(mem) THEN "got" ELSE "gone", FALSE)
  /\ UNCHANGED want

\* The client disconnects, or has its answer.
Leave(w) ==
  /\ pc[w] # "idle"
  /\ want' = [want EXCEPT ![w] = NoExec]
  /\ Goto(w, "idle", FALSE)

Wait(w) == Subscribe(w) \/ Check(w) \/ Wake(w) \/ Read(w)

-----------------------------------------------------------------------------
Serve ==
  \/ \E e \in Execs : Enqueue(e) \/ Finish(e) \/ DeleteExecution(e) \/ AppendLog(e)
  \/ Touch \/ (\E c \in Caps : SetMaxHistory(c))
  \/ \E w \in Clients : Wait(w) \/ Leave(w) \/ \E e \in Waited : WaitFor(w, e)

Next == Serve \/ Persist \/ PersistFails \/ SyncFails \/ Commit \/ Restart

\* A transaction ends, and a request that wants the lock, which is free again
\* and again, gets it.
Fairness ==
  /\ WF_vars(Persist \/ Commit)
  /\ \A w \in Clients : SF_vars(Wait(w))

Spec == Init /\ [][Next]_vars /\ Fairness

-----------------------------------------------------------------------------
(* Properties                                                              *)

\* "A persistence failure never acknowledges an enqueue, assignment, or start":
\* whatever a caller can have been told, because memory shows it, is on disk
\* for the next start, unless the run has left the history.
ShownIsDurable ==
  \A e \in IDs(mem) : gone[e] = "no" =>
    e \in IDs(disk) /\ (e \in mem.done => e \in disk.done)

\* "Never prune a queued or active execution": what leaves the history was
\* terminal, whether the cap was changed, the write failed or a stop came.
OnlyEndedLeave == \A e \in Execs : gone[e] # "lost"

\* A run that is still listed, in memory or after a restart, still has the log
\* it wrote: a log is removed only once the snapshot without the run is safe.
\* (Except where an import withdraws a log that it had copied itself.)
ListedHasLog == \A e \in IDs(mem) \cup IDs(disk) : logs[e] # "removed"

\* No wakeup is lost: a request that waits for a run which is over is answered.
WaitEnds ==
  \A w \in Clients :
    (pc[w] # "idle" /\ want[w] \notin mem.live) ~> pc[w] \in {"idle", "got", "gone"}

\* README.md: wait=1 "blocks until the execution finishes and returns the run
\* with its log".  Only a run somebody deleted may turn out not to exist.
WaitReturnsRun ==
  \A w \in Clients : pc[w] = "gone" => gone[want[w]] = "deleted"
=============================================================================
