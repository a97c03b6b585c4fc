---------------------------- MODULE AgentJournal ----------------------------
(***************************************************************************)
(* The agent's half of the dispatch protocol: the durable journal, the one *)
(* goroutine that works through it, the script's process, and what of them *)
(* survives the end of the agent process.                                  *)
(*                                                                         *)
(* A step ends where the code makes something durable, starts or ends the  *)
(* process, or waits for the controller, so an agent may stop between any  *)
(* two of them.  On a faulty disk every journal.Save and journal.Remove    *)
(* may fail, and the step then takes the code's error path; journal.List   *)
(* leaves out entries it cannot read and returns none at all if the        *)
(* directory cannot be read.                                               *)
(***************************************************************************)
EXTENDS Executions

CONSTANT FaultyDisks  \* the agents whose reads and writes of the spool may fail

ASSUME FaultyDisksAssumption == FaultyDisks \subseteq Agents

VARIABLES
  \* durable: the spool of each agent
  journal,   \* journal[a][e]: phase of the journal entry
  result,    \* result[a][e]: status a finished entry carries
  \* the agent process
  pc,        \* pc[a]: where its main goroutine is
  cur,       \* cur[a]: the execution in hand, or the one a poll just offered
  reply,     \* reply[a]: how far the outstanding call has come
  todo,      \* todo[a]: entries recover has still to visit
  blocked,   \* blocked[a]: executions waiting for the operator
  canceled,  \* canceled[a]: the cancel channel is closed
  killedFor, \* killedFor[a]: why the supervisor killed the process group
  \* the host
  proc,      \* proc[e]: the script's process
  launches   \* launches[e]: how often cmd.Start succeeded (history)

memory == <<todo, blocked, canceled, killedFor>>
avars == <<journal, result, pc, cur, reply, todo, blocked, canceled, killedFor, proc, launches>>

\* "started" is phase journalStarted before a process identity is recorded,
\* "running" the same phase with PID and PGID in the entry.
Phases == {"none", "accepted", "permitted", "started", "running", "finished", "reported", "blocked"}
Replies == {"none", "sent", "held", "answered", "granted", "denied", "refused", "accepted",
            "conflict", "noted"}
Locations == {"down", "loop", "poll", "permit", "launch", "starting", "launched",
              "supervise", "failing", "complete", "attention"}

AgentTypeOK ==
  /\ journal \in [Agents -> [Execs -> Phases]]
  /\ result \in [Agents -> [Execs -> Results \cup {"none"}]]
  /\ pc \in [Agents -> Locations]
  /\ cur \in [Agents -> Execs \cup {NoExec}]
  /\ reply \in [Agents -> Replies]
  /\ todo \in [Agents -> SUBSET Execs]
  /\ blocked \in [Agents -> SUBSET Execs]
  /\ canceled \in [Agents -> BOOLEAN]
  /\ killedFor \in [Agents -> {"nothing", "timeout", "cancel"}]
  /\ proc \in [Execs -> {"never", "running", "ok", "failed", "killed"}]
  /\ launches \in [Execs -> Nat]

AgentInit ==
  /\ journal = [a \in Agents |-> [e \in Execs |-> "none"]]
  /\ result = [a \in Agents |-> [e \in Execs |-> "none"]]
  /\ pc = [a \in Agents |-> "down"]
  /\ cur = [a \in Agents |-> NoExec]
  /\ reply = [a \in Agents |-> "none"]
  /\ todo = [a \in Agents |-> {}]
  /\ blocked = [a \in Agents |-> {}]
  /\ canceled = [a \in Agents |-> FALSE]
  /\ killedFor = [a \in Agents |-> "nothing"]
  /\ proc = [e \in Execs |-> "never"]
  /\ launches = [e \in Execs |-> 0]

-----------------------------------------------------------------------------
\* The entries on disk.
Tracked(a) == {e \in Execs : journal[a][e] # "none"}

\* What one journal.List, hence journal.IDs, may return.
Listings(a) == IF a \in FaultyDisks THEN SUBSET Tracked(a) ELSE {Tracked(a)}

Write(a, e, phase) == journal' = [journal EXCEPT ![a][e] = phase]

\* The main goroutine takes up execution e at location p.
TakeUp(a, e, p, r) ==
  /\ pc' = [pc EXCEPT ![a] = p]
  /\ cur' = [cur EXCEPT ![a] = e]
  /\ reply' = [reply EXCEPT ![a] = r]
  /\ canceled' = [canceled EXCEPT ![a] = FALSE]
  /\ killedFor' = [killedFor EXCEPT ![a] = "nothing"]

Return(a) == TakeUp(a, NoExec, "loop", "none")

\* It moves on with the execution it already has in hand.
Move(a, p, r) ==
  /\ pc' = [pc EXCEPT ![a] = p]
  /\ reply' = [reply EXCEPT ![a] = r]
  /\ UNCHANGED <<cur, canceled, killedFor>>

\* The run is over with status s: journal it and go on to report it, or lose
\* the write and return to the loop with the entry as it was.
Conclude(a, e, s) ==
  \/ /\ Write(a, e, "finished")
     /\ result' = [result EXCEPT ![a][e] = s]
     /\ Move(a, "complete", "sent")
  \/ /\ a \in FaultyDisks
     /\ UNCHANGED <<journal, result>>
     /\ Return(a)

\* Both recover, which visits every entry once, and resumePending, which runs
\* before each poll of an agent that is not blocked, pick entry e up.
Ready(a, e) ==
  /\ pc[a] = "loop"
  /\ IF todo[a] # {} THEN e \in todo[a] ELSE blocked[a] = {}

Visited(a, e) == todo' = [todo EXCEPT ![a] = @ \ {e}]

-----------------------------------------------------------------------------
AgentStart(a) ==
  /\ pc[a] = "down"
  /\ pc' = [pc EXCEPT ![a] = "loop"]
  /\ \E found \in Listings(a) : todo' = [todo EXCEPT ![a] = found]
  /\ UNCHANGED <<journal, result, cur, reply, blocked, canceled, killedFor, proc, launches>>

\* A crash, a shutdown or a reboot: memory is lost, the spool stays, and the
\* script goes on in its own process group (a reboot ends it: ProcessExits).
AgentStop(a) ==
  /\ pc[a] # "down"
  /\ TakeUp(a, NoExec, "down", "none")
  /\ todo' = [todo EXCEPT ![a] = {}]
  /\ blocked' = [blocked EXCEPT ![a] = {}]
  /\ UNCHANGED <<journal, result, proc, launches>>

\* Mutant: an accepted entry is run without asking for its permit.
RunUnpermitted(a, e) ==
  /\ Ready(a, e) /\ journal[a][e] = "accepted"
  /\ TakeUp(a, e, "launch", "none")
  /\ Visited(a, e)
  /\ UNCHANGED <<journal, result, blocked, proc, launches>>

\* runAssignment on an entry that still needs its permit, or already has it.
RunAccepted(a, e) ==
  /\ Ready(a, e) /\ journal[a][e] = "accepted"
  /\ TakeUp(a, e, "permit", "sent")
  /\ Visited(a, e)
  /\ UNCHANGED <<journal, result, blocked, proc, launches>>

RunPermitted(a, e) ==
  /\ Ready(a, e) /\ journal[a][e] = "permitted"
  /\ TakeUp(a, e, "launch", "none")
  /\ Visited(a, e)
  /\ UNCHANGED <<journal, result, blocked, proc, launches>>

\* completeExecution on an entry whose outcome is recorded but not reported.
CompleteFinished(a, e) ==
  /\ Ready(a, e) /\ journal[a][e] = "finished"
  /\ TakeUp(a, e, "complete", "sent")
  /\ Visited(a, e)
  /\ UNCHANGED <<journal, result, blocked, proc, launches>>

RemoveReported(a, e) ==
  /\ Ready(a, e) /\ journal[a][e] = "reported"
  /\ \/ Write(a, e, "none") /\ result' = [result EXCEPT ![a][e] = "none"]
     \/ a \in FaultyDisks /\ UNCHANGED <<journal, result>>
  /\ Visited(a, e)
  /\ UNCHANGED <<pc, cur, reply, blocked, canceled, killedFor, proc, launches>>

RecoverBlocked(a, e) ==
  /\ Ready(a, e) /\ e \in todo[a] /\ journal[a][e] = "blocked"
  /\ blocked' = [blocked EXCEPT ![a] = @ \cup {e}]
  /\ Visited(a, e)
  /\ UNCHANGED <<journal, result, pc, cur, reply, canceled, killedFor, proc, launches>>

\* Mutant: the orphan is reported as over without being killed.
RecoverWithoutKill(a, e) ==
  /\ Ready(a, e) /\ e \in todo[a] /\ journal[a][e] = "running"
  /\ Write(a, e, "finished")
  /\ result' = [result EXCEPT ![a][e] = "ABORTED"]
  /\ TakeUp(a, e, "complete", "sent")
  /\ Visited(a, e)
  /\ UNCHANGED <<blocked, proc, launches>>

\* recoverStarted when verifyOrphan proves the group ended, or that it is ours
\* and a kill ends it in time.  It takes a recorded process identity.
RecoverEnded(a, e) ==
  /\ Ready(a, e) /\ e \in todo[a] /\ journal[a][e] = "running"
  /\ proc' = [proc EXCEPT ![e] = IF @ = "running" THEN "killed" ELSE @]
  /\ \/ /\ Write(a, e, "finished")
        /\ result' = [result EXCEPT ![a][e] = "ABORTED"]
        /\ TakeUp(a, e, "complete", "sent")
     \/ a \in FaultyDisks /\ UNCHANGED <<journal, result>> /\ Return(a)
  /\ Visited(a, e)
  /\ UNCHANGED <<blocked, launches>>

\* recoverStarted when nothing can be proven: no identity was recorded, the
\* PID was reused, the group has other members, or it outlived the kill grace.
RecoverUnproven(a, e) ==
  /\ Ready(a, e) /\ e \in todo[a] /\ journal[a][e] \in {"started", "running"}
  /\ Write(a, e, "blocked") \/ (a \in FaultyDisks /\ UNCHANGED journal)
  /\ TakeUp(a, e, "attention", "sent")
  /\ Visited(a, e)
  /\ UNCHANGED <<result, blocked, proc, launches>>

Resumable(a, e) == journal[a][e] \in {"accepted", "permitted", "finished", "reported"}

\* An agent that is not blocked polls when resumePending finds nothing to
\* resume in what it could read of the journal.
Poll(a) ==
  /\ pc[a] = "loop" /\ todo[a] = {} /\ blocked[a] = {}
  /\ \E found \in Listings(a) : \A e \in found : ~Resumable(a, e)
  /\ TakeUp(a, NoExec, "poll", "sent")
  /\ UNCHANGED <<journal, result, todo, blocked, proc, launches>>

-----------------------------------------------------------------------------
\* Mutant: the assignment is run without being journaled first.
PollReplyUnjournaled(a) ==
  /\ pc[a] = "poll" /\ reply[a] = "answered"
  /\ \/ cur[a] = NoExec /\ Return(a)
     \/ cur[a] # NoExec /\ TakeUp(a, cur[a], "permit", "sent")
  /\ UNCHANGED <<journal, result, todo, blocked, proc, launches>>

\* handleAssignment: journal an assignment that has no readable entry, ignore
\* one that already ran, and otherwise run it.
PollReply(a) ==
  /\ pc[a] = "poll" /\ reply[a] = "answered"
  /\ LET e == cur[a] IN
     \/ e = NoExec /\ Return(a) /\ UNCHANGED journal
     \/ /\ e # NoExec /\ journal[a][e] \in {"started", "running", "finished", "reported"}
        /\ Return(a) /\ UNCHANGED journal
     \/ /\ e # NoExec /\ (journal[a][e] = "none" \/ a \in FaultyDisks)
        /\ \/ Write(a, e, "accepted") /\ TakeUp(a, e, "permit", "sent")
           \/ a \in FaultyDisks /\ UNCHANGED journal /\ Return(a)
     \/ /\ e # NoExec /\ journal[a][e] \in {"accepted", "blocked"}
        /\ TakeUp(a, e, "permit", "sent") /\ UNCHANGED journal
     \/ /\ e # NoExec /\ journal[a][e] = "permitted"
        /\ TakeUp(a, e, "launch", "none") /\ UNCHANGED journal
  /\ UNCHANGED <<result, todo, blocked, proc, launches>>

\* The permit's answer: granted, denied (the run is over, canceled before it
\* began) or refused for good, which leaves the entry as it is.
PermitReply(a) ==
  /\ pc[a] = "permit"
  /\ \/ /\ reply[a] = "granted"
        /\ \/ Write(a, cur[a], "permitted") /\ Move(a, "launch", "none")
           \/ a \in FaultyDisks /\ UNCHANGED journal /\ Return(a)
        /\ UNCHANGED result
     \/ reply[a] = "denied" /\ Conclude(a, cur[a], "CANCELED")
     \/ reply[a] = "refused" /\ Return(a) /\ UNCHANGED <<journal, result>>
  /\ UNCHANGED <<todo, blocked, proc, launches>>

-----------------------------------------------------------------------------
\* Mutant: the process is started without recording the intent to start it.
RecordNoIntent(a) ==
  /\ pc[a] = "launch"
  /\ Move(a, "starting", "none")
  /\ UNCHANGED <<journal, result, todo, blocked, proc, launches>>

\* runExecution records the intent to start before the process exists.
RecordIntent(a) ==
  /\ pc[a] = "launch"
  /\ Write(a, cur[a], "started")
  /\ Move(a, "starting", "none")
  /\ UNCHANGED <<result, todo, blocked, proc, launches>>

\* The work directory, the script file, a pipe or the journal write failed:
\* the first three need no disk fault.
PrepareFails(a) ==
  /\ pc[a] = "launch"
  /\ Move(a, "failing", "none")
  /\ UNCHANGED <<journal, result, todo, blocked, proc, launches>>

StartProcess(a) ==
  /\ pc[a] = "starting"
  /\ proc' = [proc EXCEPT ![cur[a]] = "running"]
  /\ launches' = [launches EXCEPT ![cur[a]] = @ + 1]
  /\ Move(a, "launched", "none")
  /\ UNCHANGED <<journal, result, todo, blocked>>

\* cmd.Start failed: the entry goes back to permitted, if that can be written.
StartFails(a) ==
  /\ pc[a] = "starting"
  /\ Write(a, cur[a], "permitted") \/ (a \in FaultyDisks /\ UNCHANGED journal)
  /\ Move(a, "failing", "none")
  /\ UNCHANGED <<result, todo, blocked, proc, launches>>

RecordIdentity(a) ==
  /\ pc[a] = "launched"
  /\ \/ /\ Write(a, cur[a], "running")
        /\ Move(a, "supervise", "none")
        /\ UNCHANGED proc
     \/ /\ a \in FaultyDisks
        /\ proc' = [proc EXCEPT ![cur[a]] = IF @ = "running" THEN "killed" ELSE @]
        /\ Move(a, "failing", "none")
        /\ UNCHANGED journal
  /\ UNCHANGED <<result, todo, blocked, launches>>

FailRun(a) ==
  /\ pc[a] = "failing"
  /\ Conclude(a, cur[a], "FAILED")
  /\ UNCHANGED <<todo, blocked, proc, launches>>

\* The supervisor's goroutine fires once, for the timeout or the closed cancel
\* channel; the process may have ended just before.
KillGroup(a, why) ==
  /\ pc[a] = "supervise" /\ killedFor[a] = "nothing"
  /\ why = "cancel" => canceled[a]
  /\ killedFor' = [killedFor EXCEPT ![a] = why]
  /\ proc' = [proc EXCEPT ![cur[a]] = IF @ = "running" THEN "killed" ELSE @]
  /\ UNCHANGED <<journal, result, pc, cur, reply, todo, blocked, canceled, launches>>

\* Mutant: whatever was not killed succeeded.
OutcomeIgnoringExit(a) == IF killedFor[a] = "nothing" THEN "SUCCESS" ELSE "FAILED"

OutcomeOf(a) ==
  CASE killedFor[a] = "timeout" -> "FAILED"
    [] killedFor[a] = "cancel" -> "CANCELED"
    [] OTHER -> IF proc[cur[a]] = "ok" THEN "SUCCESS" ELSE "FAILED"

\* The process was reaped: journal its outcome.
Reap(a) ==
  /\ pc[a] = "supervise" /\ proc[cur[a]] # "running"
  /\ Conclude(a, cur[a], OutcomeOf(a))
  /\ UNCHANGED <<todo, blocked, proc, launches>>

\* The script ends by itself, whether or not an agent still watches it.
ProcessExits(e) ==
  /\ proc[e] = "running"
  /\ \E s \in {"ok", "failed"} : proc' = [proc EXCEPT ![e] = s]
  /\ UNCHANGED <<journal, result, pc, cur, reply, memory, launches>>

-----------------------------------------------------------------------------
\* The result was accepted: mark the entry reported and remove the spool; or
\* it was refused for good: abandonExecution keeps the spool and blocks.  A
\* conflict is not taken for final and is tried again.
CompleteReply(a) ==
  /\ pc[a] = "complete"
  /\ \/ /\ reply[a] = "accepted"
        /\ \/ Write(a, cur[a], "none") /\ result' = [result EXCEPT ![a][cur[a]] = "none"]
           \/ Write(a, cur[a], "reported") /\ UNCHANGED result
           \/ a \in FaultyDisks /\ UNCHANGED <<journal, result>>
        /\ Return(a)
     \/ /\ reply[a] = "refused"
        /\ Write(a, cur[a], "blocked") \/ (a \in FaultyDisks /\ UNCHANGED journal)
        /\ Move(a, "attention", "sent")
        /\ UNCHANGED result
     \/ reply[a] = "conflict" /\ Move(a, "complete", "sent") /\ UNCHANGED <<journal, result>>
  /\ UNCHANGED <<todo, blocked, proc, launches>>

\* ReportAttention came back, with or without an error: the local block stands.
BlockLocally(a) ==
  /\ pc[a] = "attention"
  /\ blocked' = [blocked EXCEPT ![a] = @ \cup {cur[a]}]
  /\ Return(a)
  /\ UNCHANGED <<journal, result, todo, proc, launches>>

\* waitBlocked, once a heartbeat says e is unknown or terminal.
Unblock(a, e) ==
  /\ pc[a] = "loop" /\ todo[a] = {} /\ e \in blocked[a]
  /\ blocked' = [blocked EXCEPT ![a] = @ \ {e}]
  /\ \/ Write(a, e, "none") /\ result' = [result EXCEPT ![a][e] = "none"]
     \/ a \in FaultyDisks /\ UNCHANGED <<journal, result>>
  /\ UNCHANGED <<pc, cur, reply, todo, canceled, killedFor, proc, launches>>

\* A heartbeat names the execution runAssignment has in hand and is told that
\* its cancellation was requested; the cancel channel closes once.
CloseCancel(a) ==
  /\ pc[a] \in {"permit", "launch", "starting", "launched", "supervise"}
  /\ ~canceled[a]
  /\ canceled' = [canceled EXCEPT ![a] = TRUE]
  /\ UNCHANGED <<journal, result, pc, cur, reply, todo, blocked, killedFor, proc, launches>>
=============================================================================
