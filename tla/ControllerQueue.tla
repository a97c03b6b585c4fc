-------------------------- MODULE ControllerQueue --------------------------
(***************************************************************************)
(* The controller's half of the dispatch protocol: the executions it holds *)
(* in its persisted snapshot and the operations that change them.          *)
(*                                                                         *)
(* Every operation of the code is one ControllerStore.mutate call: it runs *)
(* on a clone under the store lock, is written to disk and only then       *)
(* committed, so each operation is one atomic, durable action here.  A     *)
(* failed write leaves the state alone and answers 500, which an agent     *)
(* cannot tell from a lost answer.                                         *)
(*                                                                         *)
(* The fields of an execution that decide control are functions on Execs.  *)
(* An execution that was deleted keeps its last field values: no operation *)
(* reads them, because each looks the execution up first (Found), and the  *)
(* properties use them as history.                                         *)
(***************************************************************************)
EXTENDS Executions

CONSTANT Matches  \* Matches[e]: the agents whose labels satisfy e's required labels

ASSUME MatchesAssumption == Matches \in [Execs -> SUBSET Agents]

VARIABLES
  status,     \* status[e]: lifecycle state
  owner,      \* owner[e]: AgentID
  permit,     \* permit[e]: PermitGranted
  revoked,    \* revoked[e]: PermitRevoked
  cancelReq,  \* cancelReq[e]: CancelRequested
  attention   \* attention[e]: NeedsAttention

cvars == <<status, owner, permit, revoked, cancelReq, attention>>

Active == {"ASSIGNED", "RUNNING", "CANCELING"}
\* ABSENT: not enqueued yet.  DELETED: removed from the snapshot.
Statuses == {"ABSENT", "QUEUED", "DELETED"} \cup Active \cup Results

ControllerTypeOK ==
  /\ status \in [Execs -> Statuses]
  /\ owner \in [Execs -> Agents \cup {NoAgent}]
  /\ permit \in [Execs -> BOOLEAN]
  /\ revoked \in [Execs -> BOOLEAN]
  /\ cancelReq \in [Execs -> BOOLEAN]
  /\ attention \in [Execs -> BOOLEAN]

ControllerInit ==
  /\ status = [e \in Execs |-> "ABSENT"]
  /\ owner = [e \in Execs |-> NoAgent]
  /\ permit = [e \in Execs |-> FALSE]
  /\ revoked = [e \in Execs |-> FALSE]
  /\ cancelReq = [e \in Execs |-> FALSE]
  /\ attention = [e \in Execs |-> FALSE]

-----------------------------------------------------------------------------
Found(e) == status[e] \notin {"ABSENT", "DELETED"}
Terminal(e) == status[e] \in Results
Owns(a, e) == Found(e) /\ owner[e] = a

\* Mutant: an ID may be given to a second execution once the first is gone.
EnqueueReusingID(e) ==
  /\ status[e] \in {"ABSENT", "DELETED"}
  /\ status' = [status EXCEPT ![e] = "QUEUED"]
  /\ UNCHANGED <<owner, permit, revoked, cancelReq, attention>>

\* Enqueue appends a new QUEUED execution under an ID no execution has.
Enqueue(e) ==
  /\ status[e] = "ABSENT"
  /\ status' = [status EXCEPT ![e] = "QUEUED"]
  /\ UNCHANGED <<owner, permit, revoked, cancelReq, attention>>

\* Cancel ends an execution that was never permitted and marks a permitted
\* one CANCELING; a finished one is refused with errExecutionDone.
Cancel(e) ==
  /\ Found(e) /\ ~Terminal(e)
  /\ LET beforePermit == status[e] = "QUEUED" \/ (status[e] = "ASSIGNED" /\ ~permit[e])
     IN  status' = [status EXCEPT ![e] = IF beforePermit THEN "CANCELED" ELSE "CANCELING"]
  /\ revoked' = [revoked EXCEPT ![e] = @ \/ (status[e] = "ASSIGNED" /\ ~permit[e])]
  /\ cancelReq' = [cancelReq EXCEPT ![e] = TRUE]
  /\ UNCHANGED <<owner, permit, attention>>

\* ResolveAttention: the operator closes an execution that needs attention.
ResolveAttention(e) ==
  /\ Found(e) /\ attention[e]
  /\ attention' = [attention EXCEPT ![e] = FALSE]
  /\ status' = [status EXCEPT ![e] = IF @ \in Results THEN @ ELSE "ABORTED"]
  /\ UNCHANGED <<owner, permit, revoked, cancelReq>>

\* DeleteExecution removes a terminal execution. pruneExecutions does so too
\* when the history cap is passed: which ones it drops is module History's
\* subject, what the agents' requests find afterwards is the same.
Delete(e) ==
  /\ Terminal(e)
  /\ status' = [status EXCEPT ![e] = "DELETED"]
  /\ UNCHANGED <<owner, permit, revoked, cancelReq, attention>>

-----------------------------------------------------------------------------
Holds(a, e) == owner[e] = a /\ status[e] \in Active

\* Mutant: an agent that is canceling its execution counts as free.
OccupiedUnlessCanceling(a) ==
  \E e \in Execs : owner[e] = a /\ status[e] \in {"ASSIGNED", "RUNNING"}

\* Busy or blocked, as computeOccupancy sees it: an execution that blocks its
\* agent has an owner and is not terminal.
Occupied(a) == \E e \in Execs : Holds(a, e) \/ (Owns(a, e) /\ ~Terminal(e) /\ attention[e])

Queued == {e \in Execs : status[e] = "QUEUED" /\ ~cancelReq[e]}

\* What one pass of scheduleOnce may assign, given the agents it judged online,
\* enabled and not paused before it took the lock: no agent twice, only free
\* agents whose labels match, and no queued execution left waiting while an
\* agent that could take it stays free.  Which of several queued executions
\* wins, and which of several free agents, is left open.
Assignment(avail, f) ==
  /\ \A e \in Queued : f[e] # NoAgent =>
        f[e] \in avail \cap Matches[e] /\ ~Occupied(f[e])
  /\ \A e1, e2 \in Queued : f[e1] = f[e2] /\ f[e1] # NoAgent => e1 = e2
  /\ \A e \in Queued : f[e] = NoAgent =>
        \A a \in avail \cap Matches[e] : Occupied(a) \/ \E e2 \in Queued : f[e2] = a
  /\ \E e \in Queued : f[e] # NoAgent

\* scheduleOnce: one transaction of its own.  The handlers call it after their
\* own transaction has released the lock, and schedulerLoop runs it on every
\* tick, so it may come between any two other operations.
ScheduleOnce ==
  \E avail \in SUBSET Agents : \E f \in [Queued -> Agents \cup {NoAgent}] :
    /\ Assignment(avail, f)
    /\ status' = [e \in Execs |->
         IF e \in Queued /\ f[e] # NoAgent THEN "ASSIGNED" ELSE status[e]]
    /\ owner' = [e \in Execs |->
         IF e \in Queued /\ f[e] # NoAgent THEN f[e] ELSE owner[e]]
    /\ UNCHANGED <<permit, revoked, cancelReq, attention>>

-----------------------------------------------------------------------------
\* Reconcile: the live executions of agent a that it did not name in its poll.
Unknown(a, known) == {e \in Execs : Owns(a, e) /\ ~Terminal(e) /\ e \notin known}

\* Mutants: the permit is not looked at; the old owner stays.
ReconcileRequeuesAll(a, known) ==
  /\ status' = [e \in Execs |-> IF e \in Unknown(a, known) THEN "QUEUED" ELSE status[e]]
  /\ UNCHANGED <<owner, permit, revoked, cancelReq, attention>>

ReconcileKeepsOwner(a, known) ==
  /\ status' = [e \in Execs |->
       IF e \in Unknown(a, known) /\ ~permit[e] THEN "QUEUED" ELSE status[e]]
  /\ UNCHANGED <<owner, permit, revoked, cancelReq, attention>>

\* An unpermitted one is requeued, a permitted one is flagged for the operator.
Reconcile(a, known) ==
  LET requeue == {e \in Unknown(a, known) : ~permit[e]}
      flag == {e \in Unknown(a, known) : permit[e]}
  IN  /\ status' = [e \in Execs |-> IF e \in requeue THEN "QUEUED" ELSE status[e]]
      /\ owner' = [e \in Execs |-> IF e \in requeue THEN NoAgent ELSE owner[e]]
      /\ revoked' = [e \in Execs |-> IF e \in requeue THEN FALSE ELSE revoked[e]]
      /\ attention' = [e \in Execs |-> IF e \in flag THEN TRUE ELSE attention[e]]
      /\ UNCHANGED <<permit, cancelReq>>

\* The executions AssignmentFor may hand to agent a.
Assignable(a) ==
  {e \in Execs : owner[e] = a /\ status[e] = "ASSIGNED" /\ ~revoked[e] /\ ~cancelReq[e]}

PermitVerdict(a, e) ==
  CASE ~Owns(a, e) -> "refused"
    [] Owns(a, e) /\ (revoked[e] \/ cancelReq[e]) -> "denied"
    [] OTHER -> IF status[e] \in {"ASSIGNED", "RUNNING"} THEN "granted" ELSE "denied"

\* GrantPermit: only a granted request on an ASSIGNED execution changes state.
GrantPermit(a, e) ==
  IF PermitVerdict(a, e) = "granted" /\ status[e] = "ASSIGNED"
  THEN /\ permit' = [permit EXCEPT ![e] = TRUE]
       /\ status' = [status EXCEPT ![e] = "RUNNING"]
       /\ UNCHANGED <<owner, revoked, cancelReq, attention>>
  ELSE UNCHANGED cvars

\* How completeExecution's upload and result may be answered.  Once the end is
\* recorded the log is closed: log bytes the agent believes it still has to
\* send conflict (409, errLogClosed), without them the result is accepted.  A
\* run that was never permitted has no log.
ResultAnswers(a, e) ==
  IF ~Owns(a, e) THEN {"refused"}
  ELSE {"accepted"} \cup (IF Terminal(e) /\ permit[e] THEN {"conflict"} ELSE {})

\* Mutant: a result that comes after the end was recorded overrides it.
SubmitResultAgain(a, e, res) ==
  IF Owns(a, e)
  THEN /\ status' = [status EXCEPT ![e] = res]
       /\ UNCHANGED <<owner, permit, revoked, cancelReq, attention>>
  ELSE UNCHANGED cvars

\* SubmitResult, once every log byte has arrived: the first result decides and
\* a repeated one changes nothing; a pending cancellation overrides anything
\* but SUCCESS.
SubmitResult(a, e, res) ==
  IF Owns(a, e) /\ ~Terminal(e)
  THEN /\ status' = [status EXCEPT ![e] =
            IF cancelReq[e] /\ res # "SUCCESS" THEN "CANCELED" ELSE res]
       /\ attention' = [attention EXCEPT ![e] = FALSE]
       /\ UNCHANGED <<owner, permit, revoked, cancelReq>>
  ELSE UNCHANGED cvars

\* ReportAttention: the agent cannot prove what happened to the execution.
ReportAttention(a, e) ==
  IF Owns(a, e) /\ ~Terminal(e)
  THEN /\ attention' = [attention EXCEPT ![e] = TRUE]
       /\ UNCHANGED <<status, owner, permit, revoked, cancelReq>>
  ELSE UNCHANGED cvars

\* Mutant: a heartbeat reports the cancellation of a RUNNING execution only.
HeartbeatCancelsRunning(a, e) == Owns(a, e) /\ cancelReq[e] /\ status[e] = "RUNNING"

\* What a heartbeat for execution e tells agent a: whether to cancel, and
\* whether a blocked execution was settled behind its back.
HeartbeatCancels(a, e) == Owns(a, e) /\ cancelReq[e]
HeartbeatSettled(a, e) == ~Owns(a, e) \/ Terminal(e)

-----------------------------------------------------------------------------
(* Properties                                                              *)

\* scheduleOnce recomputes occupancy inside its transaction, because reusing the
\* view from before the lock "would let two concurrent calls hand the same agent
\* two executions", of which it would run the first only: an agent never holds
\* two.
OneActivePerAgent ==
  \A a \in Agents : \A e1, e2 \in Execs : Holds(a, e1) /\ Holds(a, e2) => e1 = e2
=============================================================================
