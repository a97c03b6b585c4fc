------------------------------- MODULE Runner -------------------------------
(***************************************************************************)
(* The standalone role's Runner: one process that queues runs, executes    *)
(* them one at a time, keeps their history in runs.json and, started       *)
(* again, takes up what that file says.                                    *)
(*                                                                         *)
(* Unlike the controller it changes its memory first and writes the file   *)
(* afterwards; a write that fails is logged and otherwise ignored.  Every  *)
(* operation holds r.mu, and so does the dispatchLocked that ends some of  *)
(* them: between the two no other operation comes, but the server may end  *)
(* (dispatching).                                                          *)
(*                                                                         *)
(* Runs are numbered in the order of their requests, which is the order of *)
(* r.runs.  Log files are left out; module History has them.               *)
(***************************************************************************)
EXTENDS Naturals, FiniteSets

CONSTANTS
  MaxRuns,    \* bound on the runs that are requested
  Caps,       \* values server.max_history takes, normalised
  MaxFaults   \* bound on ends of the server and on writes and reads that fail

ASSUME RunnerAssumption ==
  {MaxRuns, MaxFaults} \subseteq Nat /\ Caps \subseteq Nat \ {0} /\ Caps # {}

Runs == 1 .. MaxRuns
NoRun == 0

VARIABLES
  status,      \* status[r]: in memory (the last one, while the server is down)
  canceledAt,  \* canceledAt[r]: CanceledAt is set
  activeID, cap, dispatching,
  saved,       \* saved[r]: its status in runs.json
  pc,          \* pc[r]: where its execute goroutine is
  ctx,         \* ctx[r]: its context, live again once the goroutine is over
  proc,        \* proc[r]: the script, until it has ended and closed its output
  up, faults,  \* whether the server runs; how many faults there were
  dirty,       \* the last write of runs.json failed (history)
  lossy,       \* the server ended, or could not read the file, then (history)
  launches     \* launches[r]: how often cmd.Start succeeded (history)

memory == <<status, canceledAt, activeID, cap, dispatching>>
host == <<pc, ctx, proc, launches>>
server == <<up, lossy>>
file == <<saved, dirty, faults>>
vars == <<memory, file, host, server>>

Ends == {"SUCCESS", "FAILED", "CANCELED", "ABORTED"}
\* ABSENT: not requested yet.  GONE: not in r.runs any more.
Statuses == {"ABSENT", "QUEUED", "RUNNING", "GONE"} \cup Ends

TypeOK ==
  /\ status \in [Runs -> Statuses] /\ saved \in [Runs -> Statuses]
  /\ canceledAt \in [Runs -> BOOLEAN] /\ activeID \in Runs \cup {NoRun}
  /\ cap \in Caps /\ dispatching \in BOOLEAN
  /\ pc \in [Runs -> {"none", "begin", "watch"}]
  /\ ctx \in [Runs -> {"live", "canceled", "deadline"}]
  /\ proc \in [Runs -> {"none", "running", "ok", "failed"}]
  /\ up \in BOOLEAN /\ faults \in 0 .. MaxFaults /\ dirty \in BOOLEAN /\ lossy \in BOOLEAN
  /\ launches \in [Runs -> Nat]

Init ==
  /\ status = [r \in Runs |-> "ABSENT"] /\ saved = [r \in Runs |-> "ABSENT"]
  /\ canceledAt = [r \in Runs |-> FALSE] /\ activeID = NoRun
  /\ cap \in Caps /\ dispatching = FALSE
  /\ pc = [r \in Runs |-> "none"] /\ ctx = [r \in Runs |-> "live"]
  /\ proc = [r \in Runs |-> "none"] /\ launches = [r \in Runs |-> 0]
  /\ up = TRUE /\ faults = 0 /\ dirty = FALSE /\ lossy = FALSE

-----------------------------------------------------------------------------
\* The runs pruneHistoryLocked drops: of the finished ones past the cap those
\* that were requested first.
Pruned(st, c) ==
  LET done == {r \in Runs : st[r] \in Ends}
  IN  {r \in done : Cardinality({q \in done : q <= r}) + c <= Cardinality(done)}

\* saveLocked on the statuses st: memory is pruned, and written if that works.
SaveLocked(st, c) ==
  LET kept == [r \in Runs |-> IF r \in Pruned(st, c) THEN "GONE" ELSE st[r]]
  IN  /\ status' = kept
      /\ \/ saved' = kept /\ dirty' = FALSE /\ UNCHANGED faults
         \/ faults < MaxFaults /\ faults' = faults + 1 /\ dirty' = TRUE /\ UNCHANGED saved

Locked == up /\ ~dispatching

\* Start appends a run; dispatchLocked follows.
Start(r) ==
  /\ Locked /\ status[r] = "ABSENT" /\ \A q \in 1 .. r - 1 : status[q] # "ABSENT"
  /\ SaveLocked([status EXCEPT ![r] = "QUEUED"], cap)
  /\ dispatching' = TRUE
  /\ UNCHANGED <<canceledAt, activeID, cap, host, server>>

\* Mutant: the goroutine is started before the run is recorded as running.
DispatchUnsaved ==
  /\ up /\ dispatching /\ dispatching' = FALSE
  /\ LET queued == {r \in Runs : status[r] = "QUEUED"}
     IN  IF activeID # NoRun \/ queued = {}
         THEN UNCHANGED <<status, file, activeID, host>>
         ELSE LET next == CHOOSE r \in queued : \A q \in queued : r <= q
              IN  /\ status' = [status EXCEPT ![next] = "RUNNING"]
                  /\ activeID' = next
                  /\ pc' = [pc EXCEPT ![next] = "begin"]
                  /\ UNCHANGED <<file, ctx, proc, launches>>
  /\ UNCHANGED <<canceledAt, cap, server>>

\* Mutant: the last request goes first.
DispatchLatest ==
  /\ up /\ dispatching /\ dispatching' = FALSE
  /\ LET queued == {r \in Runs : status[r] = "QUEUED"}
     IN  IF activeID # NoRun \/ queued = {}
         THEN UNCHANGED <<status, file, activeID, host>>
         ELSE LET next == CHOOSE r \in queued : \A q \in queued : r >= q
              IN  /\ SaveLocked([status EXCEPT ![next] = "RUNNING"], cap)
                  /\ activeID' = next
                  /\ pc' = [pc EXCEPT ![next] = "begin"]
                  /\ UNCHANGED <<ctx, proc, launches>>
  /\ UNCHANGED <<canceledAt, cap, server>>

\* dispatchLocked: nothing, if a run is active or none waits; otherwise the
\* first that waits becomes the active one, is recorded as running and gets
\* its goroutine.
Dispatch ==
  /\ up /\ dispatching /\ dispatching' = FALSE
  /\ LET queued == {r \in Runs : status[r] = "QUEUED"}
     IN  IF activeID # NoRun \/ queued = {}
         THEN UNCHANGED <<status, file, activeID, host>>
         ELSE LET next == CHOOSE r \in queued : \A q \in queued : r <= q
              IN  /\ SaveLocked([status EXCEPT ![next] = "RUNNING"], cap)
                  /\ activeID' = next
                  /\ pc' = [pc EXCEPT ![next] = "begin"]
                  /\ UNCHANGED <<ctx, proc, launches>>
  /\ UNCHANGED <<canceledAt, cap, server>>

\* Mutant: canceling a running run makes room for the next one at once.
CancelFrees(r) ==
  /\ Locked /\ status[r] \in {"QUEUED", "RUNNING"}
  /\ canceledAt' = [canceledAt EXCEPT ![r] = TRUE]
  /\ SaveLocked([status EXCEPT ![r] = IF @ = "QUEUED" THEN "CANCELED" ELSE @], cap)
  /\ activeID' = IF activeID = r THEN NoRun ELSE activeID
  /\ UNCHANGED <<cap, dispatching, host, server>>

\* Cancel ends a waiting run and marks a running one; its context follows.
Cancel(r) ==
  /\ Locked /\ status[r] \in {"QUEUED", "RUNNING"}
  /\ canceledAt' = [canceledAt EXCEPT ![r] = TRUE]
  /\ SaveLocked([status EXCEPT ![r] = IF @ = "QUEUED" THEN "CANCELED" ELSE @], cap)
  /\ UNCHANGED <<activeID, cap, dispatching, host, server>>

\* The last statement of Cancel on a running run, after r.mu is given back: the
\* script may have ended, and its goroutine too, in between.
CancelContext(r) ==
  /\ up /\ pc[r] # "none" /\ canceledAt[r] /\ ctx[r] = "live"
  /\ ctx' = [ctx EXCEPT ![r] = "canceled"]
  /\ UNCHANGED <<memory, file, pc, proc, launches, server>>

\* Mutant: a run that is not over may be deleted, too.
DeleteAny(r) ==
  /\ Locked /\ status[r] \notin {"ABSENT", "GONE"}
  /\ SaveLocked([status EXCEPT ![r] = "GONE"], cap)
  /\ UNCHANGED <<canceledAt, activeID, cap, dispatching, host, server>>

Delete(r) ==
  /\ Locked /\ status[r] \in Ends
  /\ SaveLocked([status EXCEPT ![r] = "GONE"], cap)
  /\ UNCHANGED <<canceledAt, activeID, cap, dispatching, host, server>>

SetMaxHistory(c) ==
  /\ Locked /\ c # cap
  /\ cap' = c
  /\ SaveLocked(status, c)
  /\ UNCHANGED <<canceledAt, activeID, dispatching, host, server>>

-----------------------------------------------------------------------------
(* The execute goroutine.                                                  *)

\* Mutant: whether the run was canceled is for its context alone to say.
OutcomeByContext(r, canceled, ok) ==
  IF canceled THEN "CANCELED" ELSE IF ok THEN "SUCCESS" ELSE "FAILED"

Outcome(r, canceled, ok) ==
  IF canceled \/ canceledAt[r] THEN "CANCELED" ELSE IF ok THEN "SUCCESS" ELSE "FAILED"

\* finish: nothing if the run is not there any more; otherwise it gets its end,
\* the slot is free, the file is written, and dispatchLocked follows.
Finish(r, canceled, ok) ==
  /\ pc' = [pc EXCEPT ![r] = "none"] /\ ctx' = [ctx EXCEPT ![r] = "live"]
  /\ proc' = [proc EXCEPT ![r] = "none"]
  /\ IF status[r] = "GONE"
     THEN UNCHANGED <<memory, file>>
     ELSE /\ SaveLocked([status EXCEPT ![r] = Outcome(r, canceled, ok)], cap)
          /\ canceledAt' = [canceledAt EXCEPT ![r] = @ \/ canceled]
          /\ activeID' = IF activeID = r THEN NoRun ELSE activeID
          /\ dispatching' = TRUE
          /\ UNCHANGED cap
  /\ UNCHANGED <<launches, server>>

\* The log, the script file or a pipe cannot be made, or cmd.Start fails: it
\* does so if the context has ended already.
Prepare(r) ==
  /\ Locked /\ pc[r] = "begin"
  /\ \/ Finish(r, FALSE, FALSE)
     \/ ctx[r] # "live" /\ Finish(r, TRUE, FALSE)

Launch(r) ==
  /\ up /\ pc[r] = "begin" /\ ctx[r] = "live"
  /\ proc' = [proc EXCEPT ![r] = "running"]
  /\ launches' = [launches EXCEPT ![r] = @ + 1]
  /\ pc' = [pc EXCEPT ![r] = "watch"]
  /\ UNCHANGED <<memory, file, ctx, server>>

Kill(r) ==
  /\ up /\ pc[r] = "watch" /\ ctx[r] # "live" /\ proc[r] = "running"
  /\ proc' = [proc EXCEPT ![r] = "failed"]
  /\ UNCHANGED <<memory, file, pc, ctx, launches, server>>

Reap(r) ==
  /\ Locked /\ pc[r] = "watch" /\ proc[r] # "running"
  /\ Finish(r, ctx[r] # "live", proc[r] = "ok")

Timeout(r) ==
  /\ up /\ pc[r] # "none" /\ ctx[r] = "live"
  /\ ctx' = [ctx EXCEPT ![r] = "deadline"]
  /\ UNCHANGED <<memory, file, pc, proc, launches, server>>

\* The script ends by itself, whether or not the server still watches it.
Exit(r) ==
  /\ proc[r] = "running"
  /\ \E s \in IF pc[r] = "watch" THEN {"ok", "failed"} ELSE {"none"} : proc' = [proc EXCEPT ![r] = s]
  /\ UNCHANGED <<memory, file, pc, ctx, launches, server>>

-----------------------------------------------------------------------------
\* The server ends; scripts are in process groups of their own and go on.
Crash ==
  /\ up /\ faults < MaxFaults
  /\ up' = FALSE /\ faults' = faults + 1 /\ lossy' = (lossy \/ dirty)
  /\ pc' = [r \in Runs |-> "none"] /\ ctx' = [r \in Runs |-> "live"]
  /\ proc' = [r \in Runs |-> IF proc[r] = "running" THEN "running" ELSE "none"]
  /\ UNCHANGED <<memory, saved, dirty, launches>>

\* Mutant: a run without a result of its script counts as interrupted.
LoadedAborts(r) ==
  CASE saved[r] \in {"RUNNING", "CANCELED"} -> "ABORTED"
    [] saved[r] = "ABSENT" /\ status[r] # "ABSENT" -> "GONE"
    [] OTHER -> saved[r]

\* What loadState makes of the file: a run that was running is over.  A number
\* that was given to a run which did not reach the file is not given again.
Loaded(r) ==
  CASE saved[r] = "RUNNING" -> "ABORTED"
    [] saved[r] = "ABSENT" /\ status[r] # "ABSENT" -> "GONE"
    [] OTHER -> saved[r]

\* NewRunner: load the file, write it back and dispatch.  If it cannot be read
\* the server starts with an empty list, and its next write replaces the file.
\* (CanceledAt of a run that was running is not looked at again.)
Restart ==
  /\ ~up /\ up' = TRUE /\ cap' \in Caps
  /\ canceledAt' = [r \in Runs |-> canceledAt[r] /\ saved[r] \notin {"QUEUED", "RUNNING"}]
  /\ activeID' = NoRun /\ dispatching' = TRUE
  /\ \/ SaveLocked([r \in Runs |-> Loaded(r)], cap') /\ UNCHANGED lossy
     \/ /\ status' = [r \in Runs |-> IF status[r] = "ABSENT" THEN "ABSENT" ELSE "GONE"]
        /\ faults < MaxFaults /\ faults' = faults + 1 /\ dirty' = TRUE /\ lossy' = TRUE
        /\ UNCHANGED saved
  /\ UNCHANGED host

-----------------------------------------------------------------------------
Execute(r) == Prepare(r) \/ Launch(r) \/ Kill(r) \/ Reap(r)

Next ==
  \/ \E r \in Runs : Start(r) \/ Cancel(r) \/ Delete(r) \/ CancelContext(r) \/ Execute(r) \/ Timeout(r) \/ Exit(r)
  \/ Dispatch \/ (\E c \in Caps : SetMaxHistory(c)) \/ Crash \/ Restart

\* The goroutines of a running server are scheduled.  Nothing is assumed of
\* scripts, or of a server that ended.
Fairness ==
  /\ WF_vars(Dispatch)
  /\ \A r \in Runs : WF_vars(CancelContext(r)) /\ WF_vars(Execute(r))

Spec == Init /\ [][Next]_vars /\ Fairness

-----------------------------------------------------------------------------
(* Properties.  A failed write is repaired by the next one; only a server  *)
(* that ends, or cannot read the file, in between loses history.           *)

\* A run is never executed twice, however often the server ends: a run that
\* may have been started is on disk as running, and such a run is aborted.
RunsAtMostOnce == lossy \/ \A r \in Runs : launches[r] <= 1

\* The types, and "queues one run at a time": the server never executes two runs
\* at once, and the one it executes holds the slot until its process is over.
Inv == TypeOK /\ \A r \in Runs : pc[r] # "none" => activeID = r

\* A run that is over keeps its end until it leaves the history, across
\* restarts as well.
EndIsFinal ==
  [][lossy' \/ \A r \in Runs : status[r] \in Ends => status'[r] \in {status[r], "GONE"}]_vars

\* A cancellation that was acknowledged wins against the end of the script: the
\* run is not recorded as anything the script did.
CancelWins ==
  [][\A r \in Runs : status[r] = "RUNNING" /\ canceledAt[r] =>
       status'[r] \notin {"SUCCESS", "FAILED"}]_vars

\* A run does not overtake one that was requested before.
InOrder ==
  [][\A r, q \in Runs : q < r /\ status[q] = "QUEUED" => ~(status[r] = "QUEUED" /\ status'[r] = "RUNNING")]_vars

\* The queue does not stall: if every script that is not asked to end, by a
\* cancellation or its timeout, ends by itself at some time, then a waiting run
\* gets its turn, unless the server ends.
LeftAlone(q) == proc[q] = "running" /\ pc[q] = "watch" /\ ctx[q] = "live" /\ ~canceledAt[q]
QueueMoves ==
  (\A q \in Runs : []<>~LeftAlone(q)) =>
    (\A r \in Runs : (up /\ status[r] = "QUEUED") ~> (~up \/ status[r] # "QUEUED"))
=============================================================================
