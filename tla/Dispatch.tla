------------------------------ MODULE Dispatch ------------------------------
(***************************************************************************)
(* The dispatch protocol: one controller (ControllerQueue), its agents     *)
(* (AgentJournal) and the HTTP calls between them.                         *)
(*                                                                         *)
(* A call is answered once, later, or never: the request may be lost, the  *)
(* answer may be lost, and a request whose caller gave up (a timeout, a    *)
(* dropped connection, a crash) may still be carried out afterwards.  Such *)
(* a request waits in one of the late sets; one that is never taken out    *)
(* again was lost.  A restart of the controller keeps its snapshot and     *)
(* drops the open calls, which is one way for calls to fail.               *)
(***************************************************************************)
EXTENDS ControllerQueue, AgentJournal

CONSTANT MaxLate  \* bound on the abandoned requests still under way

ASSUME MaxLateAssumption == MaxLate \in Nat

VARIABLES latePolls, latePermits, lateResults, lateAlerts

lvars == <<latePolls, latePermits, lateResults, lateAlerts>>
vars == <<cvars, avars, lvars>>

TypeOK ==
  /\ ControllerTypeOK
  /\ AgentTypeOK
  /\ latePolls \subseteq Agents \X SUBSET Execs
  /\ latePermits \subseteq Agents \X Execs
  /\ lateResults \subseteq Agents \X Execs \X Results
  /\ lateAlerts \subseteq Agents \X Execs

Init ==
  /\ ControllerInit
  /\ AgentInit
  /\ latePolls = {} /\ latePermits = {} /\ lateResults = {} /\ lateAlerts = {}

-----------------------------------------------------------------------------
(* The controller carries out the call an agent is waiting on.             *)

Answer(a, r) ==
  /\ reply' = [reply EXCEPT ![a] = r]
  /\ UNCHANGED <<journal, result, pc, cur, memory, proc, launches, lvars>>

\* handleAgentPoll reconciles and then holds the request open.
HandlePoll(a) ==
  /\ pc[a] = "poll" /\ reply[a] = "sent"
  /\ \E known \in Listings(a) : Reconcile(a, known)
  /\ Answer(a, "held")

\* It answers with the assignment it finds, or with none: at the deadline, on
\* a cancellation and after a reconciliation that acted.
AnswerPoll(a) ==
  /\ pc[a] = "poll" /\ reply[a] = "held"
  /\ \E e \in Assignable(a) \cup {NoExec} : cur' = [cur EXCEPT ![a] = e]
  /\ reply' = [reply EXCEPT ![a] = "answered"]
  /\ UNCHANGED <<cvars, journal, result, pc, memory, proc, launches, lvars>>

HandlePermit(a) ==
  /\ pc[a] = "permit" /\ reply[a] = "sent"
  /\ GrantPermit(a, cur[a])
  /\ Answer(a, PermitVerdict(a, cur[a]))

HandleResult(a) ==
  /\ pc[a] = "complete" /\ reply[a] = "sent"
  /\ SubmitResult(a, cur[a], result[a][cur[a]])
  /\ \E r \in ResultAnswers(a, cur[a]) : Answer(a, r)

HandleAttention(a) ==
  /\ pc[a] = "attention" /\ reply[a] = "sent"
  /\ ReportAttention(a, cur[a])
  /\ Answer(a, "noted")

-----------------------------------------------------------------------------
(* Calls that fail, and requests that are carried out late.                *)

LateCount == Cardinality(latePolls) + Cardinality(latePermits)
             + Cardinality(lateResults) + Cardinality(lateAlerts)

\* What becomes of agent a's outstanding request when it gives the call up.
LeaveBehind(a) ==
  \/ UNCHANGED lvars
  \/ /\ reply[a] = "sent" /\ LateCount < MaxLate
     /\ \E known \in Listings(a) :
          latePolls' = latePolls \cup (IF pc[a] = "poll" THEN {<<a, known>>} ELSE {})
     /\ latePermits' = latePermits \cup (IF pc[a] = "permit" THEN {<<a, cur[a]>>} ELSE {})
     /\ lateResults' = lateResults \cup
          (IF pc[a] = "complete" THEN {<<a, cur[a], result[a][cur[a]]>>} ELSE {})
     /\ lateAlerts' = lateAlerts \cup (IF pc[a] = "attention" THEN {<<a, cur[a]>>} ELSE {})

\* The agent sees an error.  A poll is given up; a permit is asked for again,
\* and given up after permitAttempts tries; a result is retried for ever.
CallFails(a) ==
  /\ pc[a] \in {"poll", "permit", "complete"}
  /\ \/ pc[a] \in {"poll", "permit"} /\ Return(a)
     \/ pc[a] \in {"permit", "complete"} /\ Move(a, pc[a], "sent")
  /\ LeaveBehind(a)
  /\ UNCHANGED <<cvars, journal, result, todo, blocked, proc, launches>>

Stop(a) == AgentStop(a) /\ LeaveBehind(a) /\ UNCHANGED cvars
Block(a) == BlockLocally(a) /\ LeaveBehind(a) /\ UNCHANGED cvars

LatePoll ==
  \E m \in latePolls :
    /\ Reconcile(m[1], m[2])
    /\ latePolls' = latePolls \ {m}
    /\ UNCHANGED <<avars, latePermits, lateResults, lateAlerts>>

LatePermit ==
  \E m \in latePermits :
    /\ GrantPermit(m[1], m[2])
    /\ latePermits' = latePermits \ {m}
    /\ UNCHANGED <<avars, latePolls, lateResults, lateAlerts>>

LateResult ==
  \E m \in lateResults :
    /\ SubmitResult(m[1], m[2], m[3])
    /\ lateResults' = lateResults \ {m}
    /\ UNCHANGED <<avars, latePolls, latePermits, lateAlerts>>

LateAlert ==
  \E m \in lateAlerts :
    /\ ReportAttention(m[1], m[2])
    /\ lateAlerts' = lateAlerts \ {m}
    /\ UNCHANGED <<avars, latePolls, latePermits, lateResults>>

-----------------------------------------------------------------------------
Operator(e) ==
  /\ Enqueue(e) \/ Cancel(e) \/ ResolveAttention(e) \/ Delete(e)
  /\ UNCHANGED <<avars, lvars>>

Schedule == ScheduleOnce /\ UNCHANGED <<avars, lvars>>

AgentEntry(a, e) ==
  /\ \/ RunAccepted(a, e) \/ RunPermitted(a, e) \/ CompleteFinished(a, e)
     \/ RemoveReported(a, e) \/ RecoverBlocked(a, e)
     \/ RecoverEnded(a, e) \/ RecoverUnproven(a, e)
     \/ HeartbeatSettled(a, e) /\ Unblock(a, e)
  /\ UNCHANGED <<cvars, lvars>>

\* The main goroutine receives an answer, or goes on with what it has.
Receive(a) ==
  /\ PollReply(a) \/ PermitReply(a) \/ CompleteReply(a)
  /\ UNCHANGED <<cvars, lvars>>

Work(a) ==
  /\ \/ Poll(a) \/ RecordIntent(a) \/ StartProcess(a) \/ RecordIdentity(a)
     \/ FailRun(a) \/ Reap(a)
  /\ UNCHANGED <<cvars, lvars>>

\* heartbeatLoop learns of a cancellation, and the supervisor acts on it.
Watch(a) ==
  /\ \/ cur[a] # NoExec /\ HeartbeatCancels(a, cur[a]) /\ CloseCancel(a)
     \/ KillGroup(a, "cancel")
  /\ UNCHANGED <<cvars, lvars>>

Mishap(a) ==
  /\ AgentStart(a) \/ PrepareFails(a) \/ StartFails(a) \/ KillGroup(a, "timeout")
  /\ UNCHANGED <<cvars, lvars>>

Host(e) == ProcessExits(e) /\ UNCHANGED <<cvars, lvars>>

ControllerCall(a) ==
  HandlePoll(a) \/ AnswerPoll(a) \/ HandlePermit(a) \/ HandleResult(a) \/ HandleAttention(a)

Late == LatePoll \/ LatePermit \/ LateResult \/ LateAlert

Next ==
  \/ \E e \in Execs : Operator(e) \/ Host(e)
  \/ Schedule
  \/ \E a \in Agents : ControllerCall(a) \/ CallFails(a) \/ Stop(a) \/ Block(a)
                         \/ Receive(a) \/ Work(a) \/ Watch(a) \/ Mishap(a)
  \/ \E a \in Agents, e \in Execs : AgentEntry(a, e)
  \/ Late

Spec == Init /\ [][Next]_vars

\* The goroutines of a running agent are scheduled, and a call that is tried
\* again and again is eventually carried out and its answer received.  Nothing
\* is assumed of operators, of scripts, of agents that are down or whose disk
\* is faulty, or of a call that is tried only once.
Fairness ==
  \A a \in Agents \ FaultyDisks :
    /\ WF_vars(\E e \in Execs : AgentEntry(a, e))
    /\ WF_vars(Work(a)) /\ WF_vars(Watch(a)) /\ WF_vars(Block(a))
    /\ SF_vars(ControllerCall(a)) /\ SF_vars(Receive(a))

FairSpec == Spec /\ Fairness

-----------------------------------------------------------------------------
(* Properties                                                              *)

\* "A duplicate message can never start a second process": cmd.Start succeeds
\* at most once for an execution, whatever is lost, late, repeated, requeued
\* or restarted.
AtMostOnce == \A e \in Execs : launches[e] <= 1

\* Revoking the permit "proves the script never ran": an execution without a
\* permit, canceled or not, never had a process.
NoPermitNoProcess == \A e \in Execs : ~permit[e] => launches[e] = 0

\* "Only marked CANCELED once the owning agent confirms the process group
\* ended": no end the agent reported is recorded while the script still runs.
\* (ABORTED is also how an operator closes a run nobody can account for.)
EndIsConfirmed ==
  \A e \in Execs : status[e] \in {"SUCCESS", "FAILED", "CANCELED"} => proc[e] # "running"

\* A run is recorded as SUCCESS only if its script exited with status 0.
SuccessIsReal == \A e \in Execs : status[e] = "SUCCESS" => proc[e] = "ok"

\* "Never silently drops the run": while the controller waits for a permitted
\* execution, its owner still has the journal entry.
NoLostRun ==
  \A e \in Execs : status[e] \in {"RUNNING", "CANCELING"} => journal[owner[e]][e] # "none"

\* History is never rewritten: a finished execution keeps its status until it
\* is deleted, and its ID never comes back.
TerminalIsFinal ==
  [][\A e \in Execs :
       /\ Terminal(e) => status'[e] \in {status[e], "DELETED"}
       /\ status[e] = "DELETED" => status'[e] = "DELETED"]_vars

\* "Must not reassign an execution whose start permit was granted".
PermitIsFinal ==
  [][\A e \in Execs : permit[e] =>
       permit'[e] /\ owner'[e] = owner[e] /\ status'[e] \notin {"QUEUED", "ASSIGNED"}]_vars

\* A cancellation of a permitted execution does not stay pending while its
\* agent is up and can write its journal: the controller gets the end of the
\* run, unless the agent went down meanwhile or could not account for the
\* process and waits blocked.
CancelCompletes ==
  \A e \in Execs, a \in Agents \ FaultyDisks :
    (status[e] = "CANCELING" /\ owner[e] = a) ~>
      (status[e] # "CANCELING" \/ pc[a] = "down" \/ e \in blocked[a])

\* rules/architecture.md: "block the execution for operator attention".  An
\* agent that blocks on a live execution gets the controller to show it to the
\* operator, who can resolve it only then.
BlockedIsShown ==
  \A e \in Execs, a \in Agents :
    (e \in blocked[a] /\ Owns(a, e) /\ ~Terminal(e)) ~>
      (attention[e] \/ ~Owns(a, e) \/ Terminal(e))

-----------------------------------------------------------------------------
(* The promise to the caller: Dispatch implements RunOnce.                 *)

StageOf(s) ==
  CASE s = "ABSENT" -> "absent"
    [] s \in {"QUEUED", "ASSIGNED"} -> "waiting"
    [] s \in {"RUNNING", "CANCELING"} -> "permitted"
    [] s \in Results -> "done"
    [] s = "DELETED" -> "forgotten"

Promise == INSTANCE RunOnce WITH
  stage <- [e \in Execs |-> StageOf(status[e])],
  everPermitted <- permit,
  starts <- launches,
  verdict <- [e \in Execs |-> IF status[e] \in Results THEN status[e] ELSE "none"]

\* Every step of the protocol is a step of RunOnce or leaves what a caller can
\* see of his run alone.
RunsOnce == Promise!AbsSpec
=============================================================================
