--------------------------- MODULE DispatchProofs ---------------------------
(***************************************************************************)
(* The invariant of Dispatch is inductive, and the properties follow.      *)
(*                                                                         *)
(* The argument has two halves.  A controller operation may change the     *)
(* record of any execution, so it is first shown to treat each of them     *)
(* lawfully (Lawful), which is enough for what the agents know of it       *)
(* (ControllerStep).  A step of an agent changes only what is that agent's *)
(* own, so it is enough to look at the agent and the entry it works on     *)
(* (AgentStep, and PlaceStep and SpoolStep for its two usual forms).       *)
(***************************************************************************)
EXTENDS DispatchInvariant, TLAPS

USE NoAgentAssumption, NoExecAssumption DEF Results

\* The owner of e is done with it: nothing will start or run any more, and a
\* SUCCESS it reports is real.
Settled(e, s) ==
  /\ ~Unfinished(owner[e], e)
  /\ proc[e] # "running"
  /\ s = "SUCCESS" => proc[e] = "ok"

\* What one step may do to the controller's record of e.  Every operation of
\* ControllerQueue does only this: a permit is granted only on an assignment
\* the owner journaled and is never taken back, an execution never returns to
\* the queue once it left it permitted or canceled, ends stay, an end of a
\* permitted execution is recorded only when its owner is done with it, and a
\* new assignment goes to a free agent and only one to each.
Lawful(e) ==
  /\ InvRecord(e)'
  /\ permit[e] => permit'[e] /\ owner'[e] = owner[e]
  /\ permit'[e] /\ ~permit[e] =>
       status[e] = "ASSIGNED" /\ owner'[e] = owner[e] /\ journal[owner[e]][e] # "none"
  /\ status[e] \notin Early => status'[e] \notin Early
  /\ Terminal(e) => status'[e] \in {status[e], "DELETED"}
  /\ status[e] = "DELETED" => status'[e] = "DELETED"
  /\ status'[e] \in Reported =>
       \/ status'[e] = status[e]
       \/ ~permit'[e] /\ status'[e] = "CANCELED"
       \/ permit[e] /\ Settled(e, status'[e])
  /\ status'[e] \in Active =>
       \/ status[e] \in Active /\ owner'[e] = owner[e]
       \/ /\ ~Occupied(owner'[e])
          /\ \A o \in Execs : status'[o] \in Active /\ owner'[o] = owner'[e] =>
               o = e \/ Holds(owner'[e], o)

\* A step of the controller that treats every record lawfully, leaves spools
\* and processes alone and answers at most one agent keeps the invariant.
LEMMA ControllerStep ==
  ASSUME IInv, TypeOK', \A e \in Execs : Lawful(e),
         UNCHANGED <<journal, result, pc, cur, blocked, proc, launches>>,
         \A b \in Agents : reply'[b] = reply[b] \/ (reply'[b] # "answered" /\ InvPlace(b)'),
         latePermits' \subseteq latePermits, lateResults' \subseteq lateResults
  PROVE  IInv'
<1>0. TypeOK BY DEF IInv
<1>1. ASSUME NEW e \in Execs PROVE InvRecord(e)' /\ InvLaunch(e)' /\ InvOutcome(e)'
  <2>1. InvRecord(e) /\ InvLaunch(e) /\ InvOutcome(e) /\ Lawful(e)
    BY DEF IInv, Records
  <2>2. InvRecord(e)' /\ InvLaunch(e)'
    BY <2>1 DEF InvLaunch, Lawful
  <2>3. (status[e] \in Reported)' => proc[e] # "running" /\ (status'[e] = "SUCCESS" => proc[e] = "ok")
    BY <2>1 DEF Lawful, Settled, InvOutcome, InvLaunch, InvRecord, Reported, Early
  <2>4. status'[e] \in {"RUNNING", "CANCELING"} => journal[owner'[e]][e] # "none"
    BY <2>1, <1>0 DEF Lawful, Terminal, InvOutcome, InvRecord, Early, TypeOK, ControllerTypeOK, Statuses, Active
  <2> QED BY <2>2, <2>3, <2>4 DEF InvOutcome, Reported
<1>2. ASSUME NEW b \in Agents PROVE InvPlace(b)'
  <2>1. InvPlace(b)  BY DEF IInv, Places
  <2>2. cur[b] \in Execs => Lawful(cur[b])  OBVIOUS
  <2> QED BY <2>1, <2>2 DEF InvPlace, Lawful, Terminal, Offered, PermittedTo
<1>3. ASSUME NEW b \in Agents, NEW e \in Execs PROVE InvEntry(b, e)' /\ InvLate(b, e)'
  <2>1. /\ InvRecord(e) /\ InvLaunch(e) /\ Lawful(e)
        /\ InvPlace(b) /\ InvEntry(b, e) /\ InvLate(b, e)
    BY DEF IInv, Records, Places, Entries, Lates
  <2>2. /\ Offered(b, e)' => Offered(b, e)
        /\ Unfinished(b, e)' => Unfinished(b, e)
    BY DEF Offered, Unfinished
  <2>3. PermittedTo(b, e)' => PermittedTo(b, e) \/ (status[e] \in Early /\ launches[e] = 0 /\ proc[e] = "never")
    BY <2>1 DEF PermittedTo, Lawful, InvLaunch, Early
  <2>4. PermittedTo(b, e)' /\ Unfinished(b, e) => status'[e] \notin Reported
    BY <2>1, <2>2, <2>3 DEF PermittedTo, Lawful, Settled, InvEntry, InvRecord, Reported, Early
  <2>5. InvEntry(b, e)'
    BY <2>1, <2>2, <2>3, <2>4 DEF InvEntry, Lawful, Terminal, PermittedTo
  <2>6. InvLate(b, e)'
    BY <2>1, <2>2, <2>3 DEF InvLate, Lawful
  <2> QED BY <2>5, <2>6
<1> QED BY <1>1, <1>2, <1>3 DEF IInv, Records, Places, Entries, Lates

\* The controller waits for agent a to report the end of e.
Awaited(a, e) == owner[e] = a /\ status[e] \in {"RUNNING", "CANCELING"}

\* A step of agent a concerns only its own place and spool, the processes it is
\* permitted to run and its own late requests; if what the invariant says of a
\* holds afterwards, the whole invariant does.
LEMMA AgentStep ==
  ASSUME IInv, TypeOK', NEW a \in Agents, UNCHANGED cvars,
         \A b \in Agents \ {a} :
           /\ pc'[b] = pc[b] /\ cur'[b] = cur[b] /\ reply'[b] = reply[b]
           /\ blocked'[b] = blocked[b] /\ journal'[b] = journal[b] /\ result'[b] = result[b],
         \A b \in Agents \ {a}, e \in Execs :
           /\ <<b, e>> \in latePermits' => <<b, e>> \in latePermits
           /\ \A r \in Results : <<b, e, r>> \in lateResults' => <<b, e, r>> \in lateResults,
         \A e \in Execs :
           /\ InvLaunch(e)'
           /\ \/ proc'[e] = proc[e] /\ launches'[e] = launches[e]
              \/ /\ PermittedTo(a, e) /\ proc[e] # "ok"
                 /\ proc'[e] = "running" => status[e] \notin Reported
           /\ journal'[a][e] = "none" => journal[a][e] = "none" \/ ~Awaited(a, e),
         InvPlace(a)',
         \A e \in Execs : InvEntry(a, e)' /\ InvLate(a, e)'
  PROVE  IInv'
<1> USE DEF cvars
<1>0. TypeOK BY DEF IInv
<1>1. ASSUME NEW e \in Execs PROVE InvRecord(e)' /\ InvLaunch(e)' /\ InvOutcome(e)'
  <2>1. InvRecord(e) /\ InvLaunch(e) /\ InvOutcome(e)
    BY DEF IInv, Records
  <2>2. InvRecord(e)'  BY <2>1 DEF InvRecord
  <2>3. status[e] \in {"RUNNING", "CANCELING"} => journal'[owner[e]][e] # "none"
    BY <2>1 DEF InvRecord, InvOutcome, Awaited
  <2> QED BY <2>1, <2>2, <2>3 DEF InvOutcome
<1>2. ASSUME NEW b \in Agents \ {a} PROVE InvPlace(b)'
  <2>1. InvPlace(b)  BY DEF IInv, Places
  <2>2. cur[b] \in Execs => InvEntry(b, cur[b])  BY DEF IInv, Entries
  <2> QED BY <2>1, <2>2 DEF InvPlace, InvEntry, Offered, PermittedTo
<1>3. ASSUME NEW b \in Agents \ {a}, NEW e \in Execs PROVE InvEntry(b, e)' /\ InvLate(b, e)'
  <2>1. InvLaunch(e) /\ InvEntry(b, e) /\ InvLate(b, e)
    BY DEF IInv, Records, Entries, Lates
  <2>2. /\ Offered(b, e)' = Offered(b, e)
        /\ Unfinished(b, e)' = Unfinished(b, e)
        /\ PermittedTo(b, e)' = PermittedTo(b, e)
    BY DEF Offered, Unfinished, PermittedTo
  <2>3. PermittedTo(b, e) => proc'[e] = proc[e] /\ launches'[e] = launches[e]
    BY DEF PermittedTo
  <2>4. InvEntry(b, e)'
    BY <2>1, <2>2, <2>3 DEF InvEntry
  <2>5. InvLate(b, e)'
    BY <2>1, <2>2, <2>3 DEF InvLate
  <2> QED BY <2>4, <2>5
<1> QED BY <1>1, <1>2, <1>3 DEF IInv, Records, Places, Entries, Lates

-----------------------------------------------------------------------------
(* The controller's operations.                                            *)

\* Enqueue, Cancel, ResolveAttention and DeleteExecution are lawful.
LEMMA OperatorLawful ==
  ASSUME IInv, NEW x \in Execs, Enqueue(x) \/ Cancel(x) \/ ResolveAttention(x) \/ Delete(x)
  PROVE  ControllerTypeOK' /\ \A e \in Execs : Lawful(e)
<1>0. ControllerTypeOK  BY DEF IInv, TypeOK
<1>1. ControllerTypeOK'
  BY <1>0 DEF ControllerTypeOK, Statuses, Active, Enqueue, Cancel, ResolveAttention, Delete
<1>2. ASSUME NEW e \in Execs PROVE Lawful(e)
  <2>1. InvRecord(e) /\ InvOutcome(e)  BY DEF IInv, Records
  <2> USE <1>0, <2>1 DEF Lawful, InvRecord, InvOutcome, Early, Active, Reported, Found, Terminal, ControllerTypeOK
  <2>2. CASE Enqueue(x)  BY <2>2 DEF Enqueue
  <2>3. CASE Cancel(x)  BY <2>3 DEF Cancel, Statuses, Active
  <2>4. CASE ResolveAttention(x)  BY <2>4 DEF ResolveAttention
  <2>5. CASE Delete(x)  BY <2>5 DEF Delete
  <2> QED BY <2>2, <2>3, <2>4, <2>5
<1> QED BY <1>1, <1>2

\* scheduleOnce is lawful: it assigns queued executions to free agents only,
\* and no agent twice.
LEMMA ScheduleLawful ==
  ASSUME IInv, ScheduleOnce
  PROVE  ControllerTypeOK' /\ \A e \in Execs : Lawful(e)
<1>0. ControllerTypeOK  BY DEF IInv, TypeOK
<1>1. ControllerTypeOK'
  BY <1>0 DEF ControllerTypeOK, Statuses, Active, ScheduleOnce
<1>2. PICK avail \in SUBSET Agents, f \in [Queued -> Agents \cup {NoAgent}] :
        /\ Assignment(avail, f)
        /\ status' = [e \in Execs |-> IF e \in Queued /\ f[e] # NoAgent THEN "ASSIGNED" ELSE status[e]]
        /\ owner' = [e \in Execs |-> IF e \in Queued /\ f[e] # NoAgent THEN f[e] ELSE owner[e]]
        /\ UNCHANGED <<permit, revoked, cancelReq, attention>>
  BY DEF ScheduleOnce
<1>3. ASSUME NEW e \in Execs PROVE Lawful(e)
  <2>1. InvRecord(e)  BY DEF IInv, Records
  <2>2. CASE e \in Queued /\ f[e] # NoAgent
    <3>1. status[e] = "QUEUED" /\ ~cancelReq[e] /\ status'[e] = "ASSIGNED" /\ owner'[e] = f[e]
      BY <1>2, <2>2 DEF Queued
    <3>2. ~Occupied(f[e]) /\ f[e] \in Agents
      BY <1>2, <2>2 DEF Assignment
    <3>3. ASSUME NEW o \in Execs, status'[o] \in Active, owner'[o] = f[e], o # e
          PROVE  Holds(f[e], o)
      <4>1. CASE o \in Queued /\ f[o] # NoAgent
        BY <1>2, <2>2, <3>3, <4>1 DEF Assignment
      <4>2. CASE ~(o \in Queued /\ f[o] # NoAgent)
        BY <1>2, <3>3, <4>2 DEF Holds
      <4> QED BY <4>1, <4>2
    <3> QED BY <1>2, <2>1, <3>1, <3>2, <3>3 DEF Lawful, InvRecord, Terminal, Early, Reported
  <2>3. CASE ~(e \in Queued /\ f[e] # NoAgent)
    BY <1>2, <2>1, <2>3 DEF Lawful, InvRecord, Terminal
  <2> QED BY <2>2, <2>3
<1> QED BY <1>1, <1>3

\* Reconcile is lawful whatever the poll named: it requeues only what was
\* never permitted.
LEMMA ReconcileLawful ==
  ASSUME IInv, NEW a \in Agents, NEW known, Reconcile(a, known)
  PROVE  ControllerTypeOK' /\ \A e \in Execs : Lawful(e)
<1>0. ControllerTypeOK  BY DEF IInv, TypeOK
<1>1. ControllerTypeOK'
  BY <1>0 DEF ControllerTypeOK, Statuses, Active, Reconcile
<1>2. ASSUME NEW e \in Execs PROVE Lawful(e)
  <2>1. InvRecord(e)  BY DEF IInv, Records
  <2>2. permit'[e] = permit[e] /\ cancelReq'[e] = cancelReq[e]  BY DEF Reconcile
  <2>3. CASE e \in Unknown(a, known) /\ ~permit[e]
    <3>1. status'[e] = "QUEUED" /\ owner'[e] = NoAgent /\ revoked'[e] = FALSE
      BY <2>3 DEF Reconcile
    <3> QED BY <1>0, <2>1, <2>2, <2>3, <3>1
         DEF Unknown, Owns, Found, Terminal, Lawful, InvRecord, Terminal, Early, Reported, ControllerTypeOK, Statuses, Active
  <2>4. CASE ~(e \in Unknown(a, known) /\ ~permit[e])
    <3>1. status'[e] = status[e] /\ owner'[e] = owner[e] /\ revoked'[e] = revoked[e]
      BY <2>4 DEF Reconcile
    <3> QED BY <2>1, <2>2, <3>1 DEF Lawful, InvRecord
  <2> QED BY <2>3, <2>4
<1> QED BY <1>1, <1>2

\* GrantPermit is lawful for an agent that journaled the assignment.
LEMMA GrantPermitLawful ==
  ASSUME IInv, NEW a \in Agents, NEW x \in Execs, GrantPermit(a, x),
         status[x] \in Early => journal[a][x] # "none"
  PROVE  ControllerTypeOK' /\ \A e \in Execs : Lawful(e)
<1>0. ControllerTypeOK  BY DEF IInv, TypeOK
<1> USE DEF GrantPermit, PermitVerdict, Owns, Found, cvars
<1>1. ControllerTypeOK'
  BY <1>0 DEF ControllerTypeOK, Statuses, Active
<1>2. ASSUME NEW e \in Execs PROVE Lawful(e)
  <2>1. InvRecord(e)  BY DEF IInv, Records
  <2> QED BY <1>0, <2>1 DEF Lawful, InvRecord, Terminal, Early, Active, Reported, ControllerTypeOK
<1> QED BY <1>1, <1>2

\* SubmitResult is lawful for an agent that is done with the execution.
LEMMA SubmitResultLawful ==
  ASSUME IInv, NEW a \in Agents, NEW x \in Execs, NEW r \in Results, SubmitResult(a, x, r),
         status[x] \notin Early, ~Unfinished(a, x),
         PermittedTo(a, x) => proc[x] # "running",
         r = "SUCCESS" => proc[x] = "ok"
  PROVE  ControllerTypeOK' /\ \A e \in Execs : Lawful(e)
<1>0. ControllerTypeOK  BY DEF IInv, TypeOK
<1> USE DEF SubmitResult, Owns, Found, Terminal, cvars
<1>1. ControllerTypeOK'
  BY <1>0 DEF ControllerTypeOK, Statuses, Active
<1>2. ASSUME NEW e \in Execs PROVE Lawful(e)
  <2>1. InvRecord(e)  BY DEF IInv, Records
  <2> QED BY <1>0, <2>1 DEF Lawful, Settled, PermittedTo, InvRecord, Terminal, Early, Reported, ControllerTypeOK, Statuses, Active
<1> QED BY <1>1, <1>2

\* ReportAttention changes nothing but the attention flag.
LEMMA ReportAttentionLawful ==
  ASSUME IInv, NEW a \in Agents, NEW x \in Execs, ReportAttention(a, x)
  PROVE  ControllerTypeOK' /\ \A e \in Execs : Lawful(e)
<1>0. ControllerTypeOK  BY DEF IInv, TypeOK
<1> USE DEF ReportAttention, cvars
<1>1. ControllerTypeOK'
  BY <1>0 DEF ControllerTypeOK
<1>2. ASSUME NEW e \in Execs PROVE Lawful(e)
  <2>1. InvRecord(e)  BY DEF IInv, Records
  <2> QED BY <2>1 DEF Lawful, InvRecord
<1> QED BY <1>1, <1>2

\* A step that leaves the controller alone is lawful.
LEMMA StillLawful ==
  ASSUME IInv, UNCHANGED cvars
  PROVE  \A e \in Execs : Lawful(e)
<1> SUFFICES ASSUME NEW e \in Execs PROVE Lawful(e)  OBVIOUS
<1>1. InvRecord(e)  BY DEF IInv, Records
<1> QED BY <1>1 DEF Lawful, InvRecord, Terminal, cvars

\* Operators keep the invariant.
LEMMA OperatorInd ==
  ASSUME IInv, NEW x \in Execs, Operator(x)
  PROVE  IInv' /\ \A e \in Execs : Lawful(e)
<1>1. TypeOK'
  BY OperatorLawful DEF Operator, IInv, TypeOK, AgentTypeOK, avars, lvars
<1> QED BY <1>1, OperatorLawful, ControllerStep DEF Operator, avars, lvars

\* The scheduler keeps the invariant.
LEMMA ScheduleInd ==
  ASSUME IInv, Schedule
  PROVE  IInv' /\ \A e \in Execs : Lawful(e)
<1>1. TypeOK'
  BY ScheduleLawful DEF Schedule, IInv, TypeOK, AgentTypeOK, avars, lvars
<1> QED BY <1>1, ScheduleLawful, ControllerStep DEF Schedule, avars, lvars

\* Requests that are carried out after their caller gave up keep the invariant.
LEMMA LateInd ==
  ASSUME IInv, Late
  PROVE  IInv' /\ \A e \in Execs : Lawful(e)
<1> USE DEF avars, lvars
<1>0. TypeOK  BY DEF IInv
<1>1. CASE LatePoll
  <2>1. PICK m \in latePolls : Reconcile(m[1], m[2]) /\ latePolls' = latePolls \ {m}
    BY <1>1 DEF LatePoll
  <2>2. ControllerTypeOK' /\ \A e \in Execs : Lawful(e)
    BY <1>0, <2>1, ReconcileLawful DEF TypeOK
  <2>3. TypeOK'  BY <1>0, <1>1, <2>1, <2>2 DEF LatePoll, TypeOK, AgentTypeOK
  <2> QED BY <1>1, <2>2, <2>3, ControllerStep DEF LatePoll
<1>2. CASE LatePermit
  <2>1. PICK a \in Agents, x \in Execs :
          <<a, x>> \in latePermits /\ GrantPermit(a, x) /\ latePermits' = latePermits \ {<<a, x>>}
    BY <1>0, <1>2 DEF LatePermit, TypeOK
  <2>2. InvLate(a, x)  BY DEF IInv, Lates
  <2>3. ControllerTypeOK' /\ \A e \in Execs : Lawful(e)
    BY <2>1, <2>2, GrantPermitLawful DEF InvLate
  <2>4. TypeOK'  BY <1>0, <1>2, <2>1, <2>3 DEF LatePermit, TypeOK, AgentTypeOK
  <2> QED BY <1>2, <2>1, <2>3, <2>4, ControllerStep DEF LatePermit
<1>3. CASE LateResult
  <2>1. PICK a \in Agents, x \in Execs, r \in Results :
          <<a, x, r>> \in lateResults /\ SubmitResult(a, x, r) /\ lateResults' = lateResults \ {<<a, x, r>>}
    BY <1>0, <1>3 DEF LateResult, TypeOK
  <2>2. InvLate(a, x)  BY DEF IInv, Lates
  <2>3. ControllerTypeOK' /\ \A e \in Execs : Lawful(e)
    BY <2>1, <2>2, SubmitResultLawful DEF InvLate
  <2>4. TypeOK'  BY <1>0, <1>3, <2>1, <2>3 DEF LateResult, TypeOK, AgentTypeOK
  <2> QED BY <1>3, <2>1, <2>3, <2>4, ControllerStep DEF LateResult
<1>4. CASE LateAlert
  <2>1. PICK a \in Agents, x \in Execs :
          ReportAttention(a, x) /\ lateAlerts' = lateAlerts \ {<<a, x>>}
    BY <1>0, <1>4 DEF LateAlert, TypeOK
  <2>2. ControllerTypeOK' /\ \A e \in Execs : Lawful(e)
    BY <2>1, ReportAttentionLawful
  <2>3. TypeOK'  BY <1>0, <1>4, <2>1, <2>2 DEF LateAlert, TypeOK, AgentTypeOK
  <2> QED BY <1>4, <2>2, <2>3, ControllerStep DEF LateAlert
<1> QED BY <1>1, <1>2, <1>3, <1>4 DEF Late

\* A handler that treats the records lawfully and gives an answer that is right
\* for the caller's place keeps the invariant.
LEMMA HandledCall ==
  ASSUME IInv, NEW a \in Agents, NEW r \in Replies \ {"answered"}, Answer(a, r),
         ControllerTypeOK', \A e \in Execs : Lawful(e), InvPlace(a)'
  PROVE  IInv' /\ \A e \in Execs : Lawful(e)
<1> USE DEF Answer, memory, lvars
<1>1. TypeOK'  BY DEF IInv, TypeOK, AgentTypeOK
<1>2. \A b \in Agents : reply'[b] = reply[b] \/ (reply'[b] # "answered" /\ InvPlace(b)')
  BY DEF IInv, TypeOK, AgentTypeOK
<1> QED BY <1>1, <1>2, ControllerStep

\* The handlers of the agent protocol keep the invariant.
LEMMA ControllerCallInd ==
  ASSUME IInv, NEW a \in Agents, ControllerCall(a)
  PROVE  IInv' /\ \A e \in Execs : Lawful(e)
<1>0. TypeOK /\ AgentTypeOK /\ InvPlace(a)  BY DEF IInv, TypeOK, Places
<1>1. CASE HandlePoll(a)
  <2>1. ControllerTypeOK' /\ \A e \in Execs : Lawful(e)
    BY <1>1, ReconcileLawful DEF HandlePoll
  <2>2. InvPlace(a)'
    BY <1>0, <1>1 DEF HandlePoll, Answer, InvPlace, Offered, AgentTypeOK
  <2> QED BY <1>1, <2>1, <2>2, HandledCall DEF HandlePoll, Replies
<1>2. CASE AnswerPoll(a)
  <2> USE <1>2 DEF AnswerPoll, Assignable, memory, lvars, cvars
  <2>1. TypeOK'  BY <1>0 DEF TypeOK, ControllerTypeOK, AgentTypeOK, Replies
  <2>2. ASSUME NEW e \in Execs PROVE InvEntry(a, e)' /\ InvLate(a, e)'
    <3>1. InvEntry(a, e) /\ InvLate(a, e) /\ InvRecord(e)  BY DEF IInv, Records, Entries, Lates
    <3>2. Offered(a, e)' => status[e] = "ASSIGNED" /\ ~permit[e]
      BY <1>0, <3>1 DEF Offered, AgentTypeOK, InvRecord, Early
    <3>3. InvEntry(a, e)'
      BY <3>1, <3>2 DEF InvEntry, PermittedTo, Unfinished
    <3>4. InvLate(a, e)'
      BY <3>1, <3>2 DEF InvLate, PermittedTo, Unfinished, Early
    <3> QED BY <3>3, <3>4
  <2>3. InvPlace(a)'
    <3>1. \A e \in Execs : InvEntry(a, e)'  BY <2>2
    <3> QED BY <1>0, <3>1 DEF InvPlace, InvEntry, Offered, AgentTypeOK, Early
  <2>4. \A e \in Execs : InvLaunch(e)'  BY DEF IInv, Records, InvLaunch
  <2> QED BY <1>0, <2>1, <2>2, <2>3, <2>4, AgentStep, StillLawful DEF AgentTypeOK
<1>3. CASE HandlePermit(a)
  <2>1. cur[a] \in Execs /\ journal[a][cur[a]] = "accepted"
    BY <1>0, <1>3 DEF HandlePermit, InvPlace
  <2>2. ControllerTypeOK' /\ \A e \in Execs : Lawful(e)
    BY <1>3, <2>1, GrantPermitLawful DEF HandlePermit
  <2>3. InvRecord(cur[a]) /\ Lawful(cur[a])  BY <2>1, <2>2 DEF IInv, Records
  <2>4. PermitVerdict(a, cur[a]) = "granted" => PermittedTo(a, cur[a])'
    <3>1. PermitVerdict(a, cur[a]) = "granted" => Owns(a, cur[a]) /\ status[cur[a]] \in {"ASSIGNED", "RUNNING"}
      BY DEF PermitVerdict
    <3>2. PermitVerdict(a, cur[a]) = "granted" /\ status[cur[a]] = "ASSIGNED" => permit'[cur[a]]
      BY <1>0, <1>3, <2>1 DEF HandlePermit, GrantPermit, TypeOK, ControllerTypeOK
    <3>3. owner'[cur[a]] = owner[cur[a]] /\ cur' = cur
      BY <1>3 DEF HandlePermit, GrantPermit, Answer, cvars
    <3> QED BY <2>3, <3>1, <3>2, <3>3 DEF Lawful, InvRecord, PermittedTo, Owns
  <2>5. PermitVerdict(a, cur[a]) = "denied" => status'[cur[a]] \notin Early
    BY <1>3, <2>3 DEF HandlePermit, GrantPermit, PermitVerdict, Owns, Found, cvars,
          InvRecord, Early
  <2>6. InvPlace(a)'
    BY <1>0, <1>3, <2>1, <2>4, <2>5 DEF HandlePermit, Answer, InvPlace, Offered, AgentTypeOK
  <2> QED BY <1>3, <2>2, <2>6, HandledCall DEF HandlePermit, PermitVerdict, Replies
<1>4. CASE HandleResult(a)
  <2>1. cur[a] \in Execs /\ journal[a][cur[a]] = "finished" /\ InvEntry(a, cur[a])
    BY <1>0, <1>4 DEF HandleResult, InvPlace, IInv, Entries
  <2>2. ControllerTypeOK' /\ \A e \in Execs : Lawful(e)
    BY <1>4, <2>1, SubmitResultLawful DEF HandleResult, InvEntry, Unfinished, Offered
  <2>3. PICK r \in ResultAnswers(a, cur[a]) : Answer(a, r)  BY <1>4 DEF HandleResult
  <2>4. r \in {"accepted", "refused", "conflict"} /\ (r = "accepted" => Owns(a, cur[a]))
    BY <2>3 DEF ResultAnswers
  <2>5. Owns(a, cur[a]) => status'[cur[a]] \in Results
    BY <1>0, <1>4, <2>1 DEF HandleResult, SubmitResult, Owns, Terminal,
          cvars, InvEntry, TypeOK, ControllerTypeOK
  <2>6. InvPlace(a)'
    BY <1>0, <1>4, <2>1, <2>3, <2>4, <2>5 DEF HandleResult, Answer, InvPlace, Offered, AgentTypeOK
  <2> QED BY <1>4, <2>2, <2>3, <2>4, <2>6, HandledCall DEF HandleResult, Replies
<1>5. CASE HandleAttention(a)
  <2>1. cur[a] \in Execs  BY <1>0, <1>5 DEF HandleAttention, InvPlace
  <2>2. ControllerTypeOK' /\ \A e \in Execs : Lawful(e)
    BY <1>5, <2>1, ReportAttentionLawful DEF HandleAttention
  <2>3. InvPlace(a)'
    <3>1. Lawful(cur[a])  BY <2>1, <2>2
    <3> QED BY <1>0, <1>5, <3>1 DEF HandleAttention, Answer, Lawful, InvPlace, Offered, AgentTypeOK
  <2> QED BY <1>5, <2>2, <2>3, HandledCall DEF HandleAttention, Replies
<1> QED BY <1>1, <1>2, <1>3, <1>4, <1>5 DEF ControllerCall

-----------------------------------------------------------------------------
(* The agents' steps.                                                      *)

\* What a journal.Save or journal.Remove leaves on disk.
LEMMA WriteFacts ==
  ASSUME AgentTypeOK, NEW a \in Agents, NEW x \in Execs, NEW p \in Phases, Write(a, x, p)
  PROVE  /\ journal' \in [Agents -> [Execs -> Phases]]
         /\ \A b \in Agents \ {a} : journal'[b] = journal[b]
         /\ \A e \in Execs : journal'[a][e] = IF e = x THEN p ELSE journal[a][e]
BY DEF AgentTypeOK, Write

\* What recording a result in an entry leaves on disk.
LEMMA ResultFacts ==
  ASSUME AgentTypeOK, NEW a \in Agents, NEW x \in Execs, NEW r \in Results \cup {"none"},
         result' = [result EXCEPT ![a][x] = r]
  PROVE  /\ result' \in [Agents -> [Execs -> Results \cup {"none"}]]
         /\ \A b \in Agents \ {a} : result'[b] = result[b]
         /\ \A e \in Execs : result'[a][e] = IF e = x THEN r ELSE result[a][e]
BY DEF AgentTypeOK

\* The same for a step that may leave the result as it was.
LEMMA ResultKept ==
  ASSUME AgentTypeOK, NEW a \in Agents, NEW x \in Execs, NEW r \in Results \cup {"none"},
         result' = result \/ result' = [result EXCEPT ![a][x] = r]
  PROVE  /\ result' \in [Agents -> [Execs -> Results \cup {"none"}]]
         /\ \A b \in Agents \ {a} : result'[b] = result[b]
         /\ \A e \in Execs \ {x} : result'[a][e] = result[a][e]
<1>1. CASE result' = result  BY <1>1 DEF AgentTypeOK
<1>2. CASE result' = [result EXCEPT ![a][x] = r]  BY <1>2, ResultFacts
<1> QED BY <1>1, <1>2

\* A request an agent leaves behind says what its place said: a permit request
\* is for an accepted entry, a result is the recorded one of a finished entry.
LEMMA LeaveBehindFacts ==
  ASSUME IInv, NEW a \in Agents, LeaveBehind(a)
  PROVE  /\ latePolls' \subseteq Agents \X SUBSET Execs
         /\ latePermits' \subseteq Agents \X Execs
         /\ lateResults' \subseteq Agents \X Execs \X Results
         /\ lateAlerts' \subseteq Agents \X Execs
         /\ \A b \in Agents \ {a}, e \in Execs :
              /\ <<b, e>> \in latePermits' => <<b, e>> \in latePermits
              /\ \A r \in Results : <<b, e, r>> \in lateResults' => <<b, e, r>> \in lateResults
         /\ \A e \in Execs :
              /\ <<a, e>> \in latePermits' => <<a, e>> \in latePermits \/ journal[a][e] = "accepted"
              /\ \A r \in Results : <<a, e, r>> \in lateResults' =>
                   <<a, e, r>> \in lateResults
                     \/ (pc[a] = "complete" /\ journal[a][e] = "finished" /\ r = result[a][e])
<1>0. TypeOK /\ InvPlace(a)  BY DEF IInv, Places
<1>1. CASE UNCHANGED lvars  BY <1>0, <1>1 DEF lvars, TypeOK
<1>2. CASE ~UNCHANGED lvars
  <2>1. PICK known \in Listings(a) :
          /\ latePolls' = latePolls \cup (IF pc[a] = "poll" THEN {<<a, known>>} ELSE {})
          /\ latePermits' = latePermits \cup (IF pc[a] = "permit" THEN {<<a, cur[a]>>} ELSE {})
          /\ lateResults' = lateResults \cup
               (IF pc[a] = "complete" THEN {<<a, cur[a], result[a][cur[a]]>>} ELSE {})
          /\ lateAlerts' = lateAlerts \cup (IF pc[a] = "attention" THEN {<<a, cur[a]>>} ELSE {})
    BY <1>2 DEF LeaveBehind
  <2>2. known \in SUBSET Execs  BY DEF Listings, Tracked
  <2>3. /\ pc[a] \in {"permit", "complete", "attention"} => cur[a] \in Execs
        /\ pc[a] = "permit" => journal[a][cur[a]] = "accepted"
        /\ pc[a] = "complete" => journal[a][cur[a]] = "finished"
    BY <1>0 DEF InvPlace
  <2>4. pc[a] = "complete" => result[a][cur[a]] \in Results
    BY <2>3 DEF IInv, Entries, InvEntry
  <2>5. latePolls' \subseteq Agents \X SUBSET Execs  BY <1>0, <2>1, <2>2 DEF TypeOK
  <2>6. latePermits' \subseteq Agents \X Execs /\ lateAlerts' \subseteq Agents \X Execs
    BY <1>0, <2>1, <2>3 DEF TypeOK
  <2>7. lateResults' \subseteq Agents \X Execs \X Results
    BY <1>0, <2>1, <2>3, <2>4 DEF TypeOK
  <2>8. ASSUME NEW b \in Agents, NEW e \in Execs
        PROVE /\ <<b, e>> \in latePermits' =>
                   <<b, e>> \in latePermits \/ (b = a /\ journal[a][e] = "accepted")
              /\ \A r \in Results : <<b, e, r>> \in lateResults' =>
                   <<b, e, r>> \in lateResults
                     \/ (b = a /\ pc[a] = "complete" /\ journal[a][e] = "finished" /\ r = result[a][e])
    BY <2>1, <2>3
  <2> QED BY <2>5, <2>6, <2>7, <2>8
<1> QED BY <1>1, <1>2

\* A step that moves agent a's main goroutine, changes no other agent, leaves
\* no offered execution pending and blocks only on executions past Early.
Moves(a) ==
  /\ pc' \in [Agents -> Locations] /\ cur' \in [Agents -> Execs \cup {NoExec}]
  /\ reply' \in [Agents -> Replies] /\ todo' \in [Agents -> SUBSET Execs]
  /\ blocked' \in [Agents -> SUBSET Execs] /\ canceled' \in [Agents -> BOOLEAN]
  /\ killedFor' \in [Agents -> {"nothing", "timeout", "cancel"}]
  /\ \A b \in Agents \ {a} :
       pc'[b] = pc[b] /\ cur'[b] = cur[b] /\ reply'[b] = reply[b] /\ blocked'[b] = blocked[b]
  /\ \A e \in Execs : ~Offered(a, e)' /\ (e \in blocked'[a] => status[e] \notin Early)

\* A move of agent a that writes nothing keeps the invariant.
LEMMA PlaceStep ==
  ASSUME IInv, NEW a \in Agents, Moves(a), InvPlace(a)', LeaveBehind(a),
         UNCHANGED <<cvars, journal, result, proc, launches>>
  PROVE  IInv'
<1> USE DEF Moves
<1>0. TypeOK'
  BY LeaveBehindFacts DEF IInv, TypeOK, ControllerTypeOK, AgentTypeOK, cvars
<1>1. \A e \in Execs : InvLaunch(e)'  BY DEF IInv, Records, InvLaunch, cvars
<1>2. ASSUME NEW e \in Execs PROVE InvEntry(a, e)' /\ InvLate(a, e)'
  <2>1. InvEntry(a, e) /\ InvLate(a, e)  BY DEF IInv, Entries, Lates
  <2>2. InvEntry(a, e)'
    BY <2>1 DEF InvEntry, PermittedTo, Unfinished, cvars
  <2>3. InvLate(a, e)'
    BY <2>1, LeaveBehindFacts DEF InvLate, InvEntry, PermittedTo, Unfinished, Offered, cvars
  <2> QED BY <2>2, <2>3
<1> QED BY <1>0, <1>1, <1>2, LeaveBehindFacts, AgentStep DEF cvars

\* So does a step that leaves its place as it was.
LEMMA IdleStep ==
  ASSUME IInv, NEW a \in Agents, pc[a] # "poll",
         UNCHANGED <<cvars, lvars, journal, result, pc, cur, reply, proc, launches>>,
         todo' \in [Agents -> SUBSET Execs], blocked' \in [Agents -> SUBSET Execs],
         canceled' \in [Agents -> BOOLEAN], killedFor' \in [Agents -> {"nothing", "timeout", "cancel"}],
         \A b \in Agents \ {a} : blocked'[b] = blocked[b],
         \A e \in Execs : e \in blocked'[a] => status[e] \notin Early
  PROVE  IInv'
<1>1. Moves(a)
  BY DEF Moves, IInv, TypeOK, AgentTypeOK, Offered
<1>2. InvPlace(a)'
  <2>1. InvPlace(a)  BY DEF IInv, Places
  <2> QED BY <2>1 DEF InvPlace, Offered, PermittedTo, cvars
<1> QED BY <1>1, <1>2, PlaceStep DEF LeaveBehind

\* TakeUp is a move, to the place it names.
LEMMA TakeUpMoves ==
  ASSUME IInv, NEW a \in Agents, NEW x \in Execs \cup {NoExec}, NEW p \in Locations,
         NEW r \in {"none", "sent"}, TakeUp(a, x, p, r),
         todo' \in [Agents -> SUBSET Execs], blocked' \in [Agents -> SUBSET Execs],
         \A b \in Agents \ {a} : blocked'[b] = blocked[b],
         \A e \in Execs : e \in blocked'[a] => e \in blocked[a] \/ status[e] \notin Early
  PROVE  Moves(a) /\ pc'[a] = p /\ cur'[a] = x /\ reply'[a] = r
<1>1. \A e \in Execs : InvEntry(a, e)  BY DEF IInv, Entries
<1> QED BY <1>1 DEF Moves, TakeUp, IInv, TypeOK, AgentTypeOK, Offered, Replies, InvEntry

\* Move is a move, to the place it names.
LEMMA MoveMoves ==
  ASSUME IInv, NEW a \in Agents, NEW p \in Locations \ {"poll"}, NEW r \in {"none", "sent"},
         Move(a, p, r), UNCHANGED <<todo, blocked>>
  PROVE  Moves(a) /\ pc'[a] = p /\ cur'[a] = cur[a] /\ reply'[a] = r
<1>1. \A e \in Execs : InvEntry(a, e)  BY DEF IInv, Entries
<1> QED BY <1>1 DEF Moves, Move, IInv, TypeOK, AgentTypeOK, Offered, Replies, InvEntry

\* A move of agent a that writes one journal entry keeps the invariant, if the
\* invariant holds of that entry afterwards, an entry is removed only when the
\* controller no longer waits for it, and no result of it is under way when it
\* goes back to work.
LEMMA SpoolStep ==
  ASSUME IInv, NEW a \in Agents, NEW x \in Execs, NEW p \in Phases, Write(a, x, p),
         NEW s \in Results \cup {"none"},
         result' = result \/ result' = [result EXCEPT ![a][x] = s],
         UNCHANGED <<cvars, lvars, launches>>, Moves(a), InvPlace(a)', InvEntry(a, x)',
         proc' \in [Execs -> {"never", "running", "ok", "failed", "killed"}],
         \A e \in Execs : proc'[e] = proc[e] \/
            (e = x /\ PermittedTo(a, x) /\ proc[e] = "running" /\ proc'[e] = "killed"),
         p = "none" => ~Awaited(a, x) /\ status[x] \notin Early,
         p \in {"accepted", "permitted", "started", "running"} =>
            \A r \in Results : <<a, x, r>> \notin lateResults
  PROVE  IInv'
<1>0. TypeOK /\ AgentTypeOK  BY DEF IInv, TypeOK
<1>1. /\ journal' \in [Agents -> [Execs -> Phases]]
      /\ \A b \in Agents \ {a} : journal'[b] = journal[b]
      /\ \A e \in Execs : journal'[a][e] = IF e = x THEN p ELSE journal[a][e]
  BY <1>0, WriteFacts
<1>2. /\ result' \in [Agents -> [Execs -> Results \cup {"none"}]]
      /\ \A b \in Agents \ {a} : result'[b] = result[b]
      /\ \A e \in Execs \ {x} : result'[a][e] = result[a][e]
  BY <1>0, ResultKept
<1>3. TypeOK'
  BY <1>0, <1>1, <1>2 DEF Moves, TypeOK, ControllerTypeOK, AgentTypeOK, cvars, lvars
<1>4. \A e \in Execs : InvLaunch(e)'
  BY DEF IInv, Records, InvLaunch, cvars
<1>5. ASSUME NEW e \in Execs PROVE InvEntry(a, e)' /\ InvLate(a, e)'
  <2>1. InvEntry(a, e) /\ InvLate(a, e)
    BY DEF IInv, Entries, Lates
  <2>2. InvEntry(a, e)'
    <3>1. CASE e # x
      <4>1. journal'[a][e] = journal[a][e] /\ result'[a][e] = result[a][e] /\ proc'[e] = proc[e]
        BY <1>1, <1>2, <3>1
      <4> QED BY <2>1, <4>1 DEF InvEntry, PermittedTo, Unfinished, Moves, cvars
    <3> QED BY <3>1
  <2>3. /\ Unfinished(a, e)' =>
             Unfinished(a, e) \/ (e = x /\ p \in {"accepted", "permitted", "started", "running"})
        /\ journal'[a][e] = "none" => journal[a][e] = "none" \/ status[e] \notin Early
        /\ proc'[e] = proc[e] \/ (proc[e] = "running" /\ proc'[e] = "killed")
    BY <1>1 DEF Unfinished, Moves
  <2>4. InvLate(a, e)'
    BY <2>1, <2>3 DEF InvLate, PermittedTo, cvars, lvars
  <2> QED BY <2>2, <2>4
<1>6. ASSUME NEW e \in Execs
      PROVE /\ \/ proc'[e] = proc[e] /\ launches'[e] = launches[e]
               \/ /\ PermittedTo(a, e) /\ proc[e] # "ok"
                  /\ proc'[e] = "running" => status[e] \notin Reported
            /\ journal'[a][e] = "none" => journal[a][e] = "none" \/ ~Awaited(a, e)
  BY <1>1
<1>7. latePermits' = latePermits /\ lateResults' = lateResults  BY DEF lvars
<1> QED BY <1>1, <1>2, <1>3, <1>4, <1>5, <1>6, <1>7, AgentStep DEF Moves

\* Taking up an entry at the place its phase calls for keeps the invariant.
LEMMA TakeUpStep ==
  ASSUME IInv, NEW a \in Agents, NEW e \in Execs \cup {NoExec},
         NEW p \in {"loop", "poll", "permit", "launch", "complete", "attention"},
         NEW r \in {"none", "sent"}, TakeUp(a, e, p, r),
         UNCHANGED <<cvars, lvars, journal, result, blocked, proc, launches>>,
         todo' \in [Agents -> SUBSET Execs],
         \/ p \in {"loop", "poll"}
         \/ /\ e \in Execs
            /\ \/ p = "permit" /\ journal[a][e] = "accepted"
               \/ p = "launch" /\ journal[a][e] = "permitted"
               \/ p = "complete" /\ journal[a][e] = "finished"
               \/ p = "attention" /\ status[e] \notin Early
  PROVE  IInv'
<1>0. p \in Locations /\ blocked' \in [Agents -> SUBSET Execs]
  BY DEF IInv, TypeOK, AgentTypeOK, Locations
<1>1. Moves(a) /\ pc'[a] = p /\ cur'[a] = e /\ reply'[a] = r
  BY <1>0, TakeUpMoves
<1>2. InvPlace(a)'
  BY <1>1 DEF InvPlace, Moves, cvars
<1> QED BY <1>1, <1>2, PlaceStep DEF LeaveBehind

\* Concluding a run that is over keeps the invariant.
LEMMA ConcludeStep ==
  ASSUME IInv, NEW a \in Agents, cur[a] \in Execs, NEW s \in Results, Conclude(a, cur[a], s),
         UNCHANGED <<cvars, lvars, todo, blocked, proc, launches>>,
         status[cur[a]] \notin Early,
         PermittedTo(a, cur[a]) => proc[cur[a]] # "running",
         s = "SUCCESS" => proc[cur[a]] = "ok"
  PROVE  IInv'
<1>0. TypeOK /\ AgentTypeOK /\ InvEntry(a, cur[a])  BY DEF IInv, TypeOK, Entries
<1>1. CASE /\ Write(a, cur[a], "finished")
           /\ result' = [result EXCEPT ![a][cur[a]] = s]
           /\ Move(a, "complete", "sent")
  <2>1. Moves(a) /\ pc'[a] = "complete" /\ cur'[a] = cur[a] /\ reply'[a] = "sent"
    BY <1>1, MoveMoves DEF Locations
  <2>2. journal'[a][cur[a]] = "finished"  BY <1>0, <1>1, WriteFacts DEF Phases
  <2>3. result'[a][cur[a]] = s  BY <1>0, <1>1, ResultFacts
  <2>4. InvPlace(a)'  BY <2>1, <2>2 DEF InvPlace, Moves
  <2>5. ASSUME NEW x \in Execs, x = cur[a] PROVE InvEntry(a, x)'
    BY <1>0, <2>1, <2>2, <2>3, <2>5 DEF InvEntry, PermittedTo, Unfinished, Moves, cvars
  <2> QED BY <1>0, <1>1, <2>1, <2>4, <2>5, SpoolStep DEF AgentTypeOK, Phases
<1>2. CASE UNCHANGED <<journal, result>> /\ Return(a)
  BY <1>0, <1>2, TakeUpStep DEF Return, AgentTypeOK
<1> QED BY <1>1, <1>2 DEF Conclude

\* Killing the group of a process the agent was permitted to run keeps the
\* invariant.
LEMMA ProcessStep ==
  ASSUME IInv, NEW a \in Agents, NEW x \in Execs, PermittedTo(a, x), Moves(a), InvPlace(a)',
         UNCHANGED <<cvars, lvars, journal, result, launches>>,
         proc' = [proc EXCEPT ![x] = IF @ = "running" THEN "killed" ELSE @]
  PROVE  IInv'
<1>0. TypeOK /\ AgentTypeOK  BY DEF IInv, TypeOK
<1>1. /\ proc' \in [Execs -> {"never", "running", "ok", "failed", "killed"}]
      /\ \A e \in Execs : proc'[e] = proc[e] \/
           (e = x /\ PermittedTo(a, x) /\ proc[e] = "running" /\ proc'[e] = "killed")
  BY <1>0 DEF AgentTypeOK
<1>2. TypeOK'
  BY <1>0, <1>1 DEF TypeOK, ControllerTypeOK, AgentTypeOK, Moves, cvars, lvars
<1>3. ASSUME NEW e \in Execs PROVE InvLaunch(e)' /\ InvEntry(a, e)' /\ InvLate(a, e)'
  <2>1. InvLaunch(e) /\ InvEntry(a, e) /\ InvLate(a, e)
    BY DEF IInv, Records, Entries, Lates
  <2>2. InvLaunch(e)'  BY <1>1, <2>1 DEF InvLaunch, cvars
  <2>3. InvEntry(a, e)'
    BY <1>1, <2>1 DEF InvEntry, PermittedTo, Unfinished, Moves, cvars
  <2>4. InvLate(a, e)'
    BY <1>1, <2>1 DEF InvLate, PermittedTo, Unfinished, Moves, cvars, lvars
  <2> QED BY <2>2, <2>3, <2>4
<1>4. latePermits' = latePermits /\ lateResults' = lateResults  BY DEF lvars
<1> QED BY <1>1, <1>2, <1>3, <1>4, AgentStep DEF Moves, AgentTypeOK

\* Calls that fail keep the invariant.
LEMMA CallFailsInd ==
  ASSUME IInv, NEW a \in Agents, CallFails(a)
  PROVE  IInv'
<1>0. AgentTypeOK /\ InvPlace(a)  BY DEF IInv, TypeOK, Places
<1>1. CASE Return(a)
  <2>1. Moves(a) /\ pc'[a] = "loop"
    BY <1>0, <1>1, TakeUpMoves DEF CallFails, Return, AgentTypeOK, Locations
  <2>2. InvPlace(a)'  BY <2>1 DEF InvPlace, Moves
  <2> QED BY <2>1, <2>2, PlaceStep DEF CallFails
<1>2. CASE pc[a] \in {"permit", "complete"} /\ Move(a, pc[a], "sent")
  <2>1. Moves(a) /\ pc'[a] = pc[a] /\ cur'[a] = cur[a] /\ reply'[a] = "sent"
    BY <1>2, MoveMoves DEF CallFails, Locations
  <2>2. InvPlace(a)'  BY <1>0, <1>2, <2>1 DEF InvPlace, Moves, CallFails
  <2> QED BY <2>1, <2>2, PlaceStep DEF CallFails
<1> QED BY <1>1, <1>2 DEF CallFails

\* The end of an agent process keeps the invariant.
LEMMA StopInd ==
  ASSUME IInv, NEW a \in Agents, Stop(a)
  PROVE  IInv'
<1> USE DEF Stop, AgentStop
<1>1. Moves(a) /\ pc'[a] = "down"
  BY TakeUpMoves DEF IInv, TypeOK, AgentTypeOK, Locations
<1>2. InvPlace(a)'  BY <1>1 DEF InvPlace, Moves
<1> QED BY <1>1, <1>2, PlaceStep

\* Blocking on an execution keeps the invariant.
LEMMA BlockInd ==
  ASSUME IInv, NEW a \in Agents, Block(a)
  PROVE  IInv'
<1> USE DEF Block, BlockLocally, Return
<1>0. AgentTypeOK /\ InvPlace(a)  BY DEF IInv, TypeOK, Places
<1>1. cur[a] \in Execs /\ status[cur[a]] \notin Early  BY <1>0 DEF InvPlace
<1>2. Moves(a) /\ pc'[a] = "loop"
  BY <1>0, <1>1, TakeUpMoves DEF AgentTypeOK, Locations
<1>3. InvPlace(a)'  BY <1>2 DEF InvPlace, Moves
<1> QED BY <1>2, <1>3, PlaceStep

\* recover, resumePending and waitBlocked keep the invariant.
LEMMA AgentEntryInd ==
  ASSUME IInv, NEW a \in Agents, NEW x \in Execs, AgentEntry(a, x)
  PROVE  IInv'
<1> USE DEF Visited, Return
<1>0. /\ AgentTypeOK /\ UNCHANGED <<cvars, lvars>>
      /\ InvRecord(x) /\ InvLaunch(x) /\ InvPlace(a) /\ InvEntry(a, x) /\ InvLate(a, x)
  BY DEF IInv, TypeOK, Records, Places, Entries, Lates, AgentEntry
<1>1. CASE RunAccepted(a, x)
  BY <1>0, <1>1, TakeUpStep DEF RunAccepted, AgentTypeOK
<1>2. CASE RunPermitted(a, x)
  BY <1>0, <1>2, TakeUpStep DEF RunPermitted, AgentTypeOK
<1>3. CASE CompleteFinished(a, x)
  BY <1>0, <1>3, TakeUpStep DEF CompleteFinished, AgentTypeOK
<1>4. CASE RecoverBlocked(a, x)
  <2>1. \A e \in Execs : e \in blocked'[a] => status[e] \notin Early
    BY <1>0, <1>4 DEF RecoverBlocked, IInv, Entries, InvEntry, AgentTypeOK
  <2> QED BY <1>0, <1>4, <2>1, IdleStep DEF RecoverBlocked, Ready, AgentTypeOK
<1>5. CASE RemoveReported(a, x) \/ (HeartbeatSettled(a, x) /\ Unblock(a, x))
  <2>1. ~Awaited(a, x) /\ status[x] \notin Early
    BY <1>0, <1>5 DEF RemoveReported, HeartbeatSettled, Unblock, Owns, Found, Terminal,
         InvEntry, Awaited, Early
  <2>2. /\ pc[a] = "loop" /\ UNCHANGED <<pc, cur, reply, canceled, killedFor, proc, launches>>
        /\ todo' \in [Agents -> SUBSET Execs] /\ blocked' \in [Agents -> SUBSET Execs]
        /\ \A b \in Agents \ {a} : blocked'[b] = blocked[b]
        /\ \A e \in Execs : e \in blocked'[a] => e \in blocked[a]
    <3>1. CASE RemoveReported(a, x)  BY <1>0, <3>1 DEF RemoveReported, Ready, AgentTypeOK
    <3>2. CASE Unblock(a, x)  BY <1>0, <3>2 DEF Unblock, AgentTypeOK
    <3> QED BY <1>5, <3>1, <3>2
  <2>3. \A e \in Execs : e \in blocked'[a] => status[e] \notin Early
    BY <2>2 DEF IInv, Entries, InvEntry
  <2>4. CASE Write(a, x, "none") /\ result' = [result EXCEPT ![a][x] = "none"]
    <3>1. Moves(a)  BY <1>0, <2>2, <2>3 DEF Moves, AgentTypeOK, Offered
    <3>2. InvPlace(a)'  BY <2>2 DEF InvPlace, Offered
    <3>3. journal'[a][x] = "none"  BY <1>0, <2>4, WriteFacts DEF Phases
    <3>4. InvEntry(a, x)'
      BY <1>0, <2>2, <3>1, <3>3 DEF InvEntry, Unfinished, Moves, cvars
    <3> QED BY <1>0, <2>1, <2>2, <2>4, <3>1, <3>2, <3>4, SpoolStep DEF AgentTypeOK, Phases
  <2>5. CASE UNCHANGED <<journal, result>>
    BY <1>0, <2>2, <2>3, <2>5, IdleStep DEF AgentTypeOK
  <2> QED BY <1>5, <2>4, <2>5 DEF RemoveReported, Unblock
<1>6. CASE RecoverUnproven(a, x)
  <2>1. status[x] \notin Early  BY <1>0, <1>6 DEF RecoverUnproven, InvEntry
  <2>2. CASE UNCHANGED journal
    BY <1>0, <1>6, <2>1, <2>2, TakeUpStep DEF RecoverUnproven, AgentTypeOK
  <2>3. CASE Write(a, x, "blocked")
    <3>1. Moves(a) /\ pc'[a] = "attention" /\ cur'[a] = x
      BY <1>0, <1>6, TakeUpMoves DEF RecoverUnproven, AgentTypeOK, Locations
    <3>2. InvPlace(a)'  BY <1>0, <2>1, <3>1 DEF InvPlace, Moves, cvars
    <3>3. journal'[a][x] = "blocked"  BY <1>0, <2>3, WriteFacts DEF Phases
    <3>4. InvEntry(a, x)'
      BY <1>0, <2>1, <3>1, <3>3 DEF InvEntry, Unfinished, Moves, cvars
    <3> QED BY <1>0, <1>6, <2>3, <3>1, <3>2, <3>4, SpoolStep DEF RecoverUnproven, AgentTypeOK, Phases
  <2> QED BY <1>6, <2>2, <2>3 DEF RecoverUnproven
<1>7. CASE RecoverEnded(a, x)
  <2>1. /\ proc' \in [Execs -> {"never", "running", "ok", "failed", "killed"}] /\ proc'[x] # "running"
        /\ \A e \in Execs : proc'[e] = proc[e] \/
             (e = x /\ PermittedTo(a, x) /\ proc[e] = "running" /\ proc'[e] = "killed")
    BY <1>0, <1>7 DEF RecoverEnded, InvEntry, AgentTypeOK
  <2>2. CASE /\ Write(a, x, "finished") /\ result' = [result EXCEPT ![a][x] = "ABORTED"]
             /\ TakeUp(a, x, "complete", "sent")
    <3>1. Moves(a) /\ pc'[a] = "complete" /\ cur'[a] = x /\ reply'[a] = "sent"
      BY <1>0, <1>7, <2>2, TakeUpMoves DEF RecoverEnded, AgentTypeOK, Locations
    <3>2. journal'[a][x] = "finished"  BY <1>0, <2>2, WriteFacts DEF Phases
    <3>3. result'[a][x] = "ABORTED"  BY <1>0, <2>2, ResultFacts
    <3>4. InvPlace(a)'  BY <3>1, <3>2 DEF InvPlace, Moves
    <3>5. InvEntry(a, x)'
      BY <1>0, <1>7, <2>1, <3>1, <3>2, <3>3 DEF RecoverEnded, InvEntry, Unfinished, Moves, cvars
    <3> QED BY <1>0, <1>7, <2>1, <2>2, <3>1, <3>4, <3>5, SpoolStep DEF RecoverEnded, Phases
  <2>3. CASE UNCHANGED <<journal, result>> /\ TakeUp(a, NoExec, "loop", "none")
    <3>1. Moves(a) /\ pc'[a] = "loop"
      BY <1>0, <1>7, <2>3, TakeUpMoves DEF RecoverEnded, AgentTypeOK, Locations
    <3>2. InvPlace(a)'  BY <3>1 DEF InvPlace, Moves
    <3>3. PermittedTo(a, x)  BY <1>0, <1>7 DEF RecoverEnded, InvEntry
    <3> QED BY <1>0, <1>7, <2>3, <3>1, <3>2, <3>3, ProcessStep DEF RecoverEnded
  <2> QED BY <1>7, <2>2, <2>3 DEF RecoverEnded
<1> QED BY <1>1, <1>2, <1>3, <1>4, <1>5, <1>6, <1>7 DEF AgentEntry

\* What the agent does with an answer keeps the invariant.
LEMMA ReceiveInd ==
  ASSUME IInv, NEW a \in Agents, Receive(a)
  PROVE  IInv'
<1> USE DEF Return
<1>0. /\ AgentTypeOK /\ InvPlace(a) /\ UNCHANGED <<cvars, lvars>>
      /\ todo' \in [Agents -> SUBSET Execs] /\ UNCHANGED <<todo, blocked, proc, launches>>
  BY DEF IInv, TypeOK, AgentTypeOK, Places, Receive, PollReply, PermitReply, CompleteReply
<1>1. CASE PollReply(a)
  <2>0. UNCHANGED result  BY <1>1 DEF PollReply
  <2>1. CASE UNCHANGED journal /\ TakeUp(a, NoExec, "loop", "none")
    BY <1>0, <2>0, <2>1, TakeUpStep
  <2>2. CASE cur[a] \in Execs
    <3>0. /\ Offered(a, cur[a]) /\ journal[a][cur[a]] \in {"none", "accepted"}
          /\ InvEntry(a, cur[a]) /\ InvLate(a, cur[a])
      BY <1>0, <1>1, <2>2 DEF PollReply, Offered, InvPlace, IInv, Entries, Lates
    <3>1. CASE UNCHANGED journal /\ journal[a][cur[a]] = "accepted" /\ TakeUp(a, cur[a], "permit", "sent")
      BY <1>0, <2>0, <2>2, <3>1, TakeUpStep
    <3>2. CASE Write(a, cur[a], "accepted") /\ TakeUp(a, cur[a], "permit", "sent")
      <4>1. PICK x \in Execs : x = cur[a]  BY <2>2
      <4>2. Moves(a) /\ pc'[a] = "permit" /\ cur'[a] = x /\ reply'[a] = "sent"
        BY <1>0, <3>2, <4>1, TakeUpMoves DEF AgentTypeOK, Locations
      <4>3. journal'[a][x] = "accepted"  BY <1>0, <3>2, <4>1, WriteFacts DEF Phases
      <4>4. InvPlace(a)'  BY <4>2, <4>3 DEF InvPlace, Moves
      <4>5. InvEntry(a, x)'
        BY <1>0, <3>0, <4>1, <4>2, <4>3 DEF InvEntry, PermittedTo, Unfinished, Moves, cvars
      <4>6. \A r \in Results : <<a, x, r>> \notin lateResults
        BY <3>0, <4>1 DEF InvLate, Unfinished
      <4> QED BY <1>0, <2>0, <3>2, <4>1, <4>2, <4>4, <4>5, <4>6, SpoolStep DEF AgentTypeOK, Phases
    <3> QED BY <1>1, <2>1, <2>2, <3>0, <3>1, <3>2 DEF PollReply
  <2> QED BY <1>0, <1>1, <2>1, <2>2 DEF PollReply, AgentTypeOK
<1>2. CASE PermitReply(a)
  <2>0. /\ cur[a] \in Execs /\ journal[a][cur[a]] = "accepted"
        /\ InvRecord(cur[a]) /\ InvLaunch(cur[a]) /\ InvEntry(a, cur[a]) /\ InvLate(a, cur[a])
    BY <1>0, <1>2 DEF PermitReply, InvPlace, IInv, Records, Entries, Lates
  <2>1. CASE UNCHANGED <<journal, result>> /\ TakeUp(a, NoExec, "loop", "none")
    BY <1>0, <2>1, TakeUpStep
  <2>2. CASE reply[a] = "denied" /\ Conclude(a, cur[a], "CANCELED")
    <3>1. status[cur[a]] \notin Early /\ (PermittedTo(a, cur[a]) => proc[cur[a]] # "running")
      BY <1>0, <1>2, <2>0, <2>2 DEF PermitReply, InvPlace, InvEntry, InvLaunch
    <3> QED BY <1>0, <2>0, <2>2, <3>1, ConcludeStep
  <2>3. CASE /\ reply[a] = "granted" /\ UNCHANGED result
             /\ Write(a, cur[a], "permitted") /\ Move(a, "launch", "none")
    <3>1. PICK x \in Execs : x = cur[a]  BY <2>0
    <3>2. PermittedTo(a, x)  BY <1>0, <1>2, <2>3, <3>1 DEF PermitReply, InvPlace
    <3>3. Moves(a) /\ pc'[a] = "launch" /\ cur'[a] = x /\ reply'[a] = "none"
      BY <1>0, <2>3, <3>1, MoveMoves DEF Locations
    <3>4. journal'[a][x] = "permitted"  BY <1>0, <2>3, <3>1, WriteFacts DEF Phases
    <3>5. InvPlace(a)'  BY <3>3, <3>4 DEF InvPlace, Moves
    <3>6. InvEntry(a, x)'
      BY <1>0, <2>0, <3>1, <3>2, <3>3, <3>4 DEF InvEntry, InvRecord, PermittedTo, Unfinished, Moves, cvars
    <3>7. \A r \in Results : <<a, x, r>> \notin lateResults
      BY <2>0, <3>1 DEF InvLate, Unfinished
    <3> QED BY <1>0, <2>3, <3>1, <3>3, <3>5, <3>6, <3>7, SpoolStep DEF AgentTypeOK, Phases
  <2> QED BY <1>2, <2>1, <2>2, <2>3 DEF PermitReply
<1>3. CASE CompleteReply(a)
  <2>0. /\ cur[a] \in Execs /\ journal[a][cur[a]] = "finished" /\ InvEntry(a, cur[a])
        /\ status[cur[a]] \notin Early
    BY <1>0, <1>3 DEF CompleteReply, InvPlace, IInv, Entries, InvEntry
  <2>1. PICK x \in Execs : x = cur[a]  BY <2>0
  <2>2. CASE reply[a] = "accepted"
    <3>1. status[x] \in Results \cup {"DELETED"}
      BY <1>0, <1>3, <2>1, <2>2 DEF CompleteReply, InvPlace
    <3>2. TakeUp(a, NoExec, "loop", "none")  BY <1>3, <2>2 DEF CompleteReply
    <3>3. CASE UNCHANGED <<journal, result>>  BY <1>0, <3>2, <3>3, TakeUpStep
    <3>4. ASSUME NEW p \in {"none", "reported"}, Write(a, x, p),
                 result' = result \/ result' = [result EXCEPT ![a][x] = "none"]
          PROVE  IInv'
      <4>1. Moves(a) /\ pc'[a] = "loop"
        BY <1>0, <3>2, TakeUpMoves DEF AgentTypeOK, Locations
      <4>2. journal'[a][x] = p /\ p \in Phases  BY <1>0, <3>4, WriteFacts DEF Phases
      <4>3. InvPlace(a)'  BY <4>1 DEF InvPlace, Moves
      <4>4. InvEntry(a, x)'
        BY <1>0, <2>0, <2>1, <3>1, <4>1, <4>2 DEF InvEntry, PermittedTo, Unfinished, Moves, cvars, Early
      <4> QED BY <1>0, <3>1, <3>4, <4>1, <4>2, <4>3, <4>4, SpoolStep DEF AgentTypeOK, Awaited, Early
    <3> QED BY <1>3, <2>1, <2>2, <3>3, <3>4 DEF CompleteReply
  <2>3. CASE reply[a] = "refused"
    <3>1. Moves(a) /\ pc'[a] = "attention" /\ cur'[a] = x
      BY <1>0, <1>3, <2>1, <2>3, MoveMoves DEF CompleteReply, Locations
    <3>2. InvPlace(a)'  BY <1>0, <2>0, <2>1, <3>1 DEF InvPlace, Moves, cvars
    <3>3. CASE UNCHANGED <<journal, result>>
      BY <1>0, <3>1, <3>2, <3>3, PlaceStep DEF LeaveBehind
    <3>4. CASE Write(a, x, "blocked") /\ UNCHANGED result
      <4>1. journal'[a][x] = "blocked"  BY <1>0, <3>4, WriteFacts DEF Phases
      <4>2. InvEntry(a, x)'
        BY <1>0, <2>0, <2>1, <3>1, <4>1 DEF InvEntry, Unfinished, Moves, cvars
      <4> QED BY <1>0, <3>1, <3>2, <3>4, <4>2, SpoolStep DEF AgentTypeOK, Phases
    <3> QED BY <1>3, <2>1, <2>3, <3>3, <3>4 DEF CompleteReply
  <2>4. CASE reply[a] = "conflict"
    <3>1. Move(a, "complete", "sent") /\ UNCHANGED <<journal, result>>
      BY <1>3, <2>4 DEF CompleteReply
    <3>2. Moves(a) /\ pc'[a] = "complete" /\ cur'[a] = cur[a] /\ reply'[a] = "sent"
      BY <1>0, <3>1, MoveMoves DEF Locations
    <3>3. InvPlace(a)'  BY <2>0, <3>1, <3>2 DEF InvPlace, Moves
    <3> QED BY <1>0, <3>1, <3>2, <3>3, PlaceStep DEF LeaveBehind
  <2> QED BY <1>3, <2>2, <2>3, <2>4 DEF CompleteReply
<1> QED BY <1>1, <1>2, <1>3 DEF Receive

\* Journaling the phases of a launch keeps the invariant.
LEMMA LaunchStep ==
  ASSUME IInv, NEW a \in Agents, NEW x \in Execs, x = cur[a],
         pc[a] \in {"launch", "starting", "launched"},
         NEW p \in {"permitted", "started", "running"}, Write(a, x, p),
         NEW q \in {"starting", "supervise", "failing"}, Move(a, q, "none"),
         UNCHANGED <<cvars, lvars, result, todo, blocked, proc, launches>>,
         q = "starting" => pc[a] = "launch" /\ p = "started",
         q = "supervise" => p = "running",
         q = "failing" => pc[a] = "starting" /\ p = "permitted"
  PROVE  IInv'
<1>0. /\ AgentTypeOK /\ InvPlace(a) /\ InvRecord(x) /\ InvLaunch(x) /\ InvEntry(a, x) /\ InvLate(a, x)
      /\ journal[a][x] \in {"permitted", "started"}
  BY DEF IInv, TypeOK, Places, Records, Entries, Lates, InvPlace
<1>1. Moves(a) /\ pc'[a] = q /\ cur'[a] = x /\ reply'[a] = "none"
  BY MoveMoves DEF Locations
<1>2. journal'[a][x] = p /\ p \in Phases  BY <1>0, WriteFacts DEF Phases
<1>3. q \in {"starting", "failing"} => launches[x] = 0 /\ proc[x] # "running"
  BY <1>0 DEF InvPlace, InvEntry, InvLaunch
<1>4. InvPlace(a)'
  BY <1>1, <1>2, <1>3 DEF InvPlace, Moves
<1>5. InvEntry(a, x)'
  BY <1>0, <1>1, <1>2, <1>3 DEF InvEntry, PermittedTo, Unfinished, Moves, cvars
<1>6. \A r \in Results : <<a, x, r>> \notin lateResults
  BY <1>0 DEF InvLate, Unfinished
<1> QED BY <1>0, <1>1, <1>2, <1>4, <1>5, <1>6, SpoolStep DEF AgentTypeOK

\* Starting the process keeps the invariant: it is the first.
LEMMA StartProcessInd ==
  ASSUME IInv, NEW a \in Agents, StartProcess(a), UNCHANGED <<cvars, lvars>>
  PROVE  IInv'
<1>0. TypeOK /\ AgentTypeOK /\ InvPlace(a)  BY DEF IInv, TypeOK, Places
<1>1. PICK x \in Execs : x = cur[a] /\ launches[x] = 0 /\ journal[a][x] = "started"
  BY <1>0 DEF StartProcess, InvPlace
<1>2. InvRecord(x) /\ InvLaunch(x) /\ InvEntry(a, x) /\ InvLate(a, x) /\ PermittedTo(a, x)
  BY <1>1 DEF IInv, Records, Entries, Lates, InvEntry
<1>3. /\ proc' \in [Execs -> {"never", "running", "ok", "failed", "killed"}]
      /\ launches' \in [Execs -> Nat]
      /\ proc'[x] = "running" /\ launches'[x] = 1
      /\ \A e \in Execs \ {x} : proc'[e] = proc[e] /\ launches'[e] = launches[e]
  BY <1>0, <1>1 DEF StartProcess, AgentTypeOK
<1>4. Moves(a) /\ pc'[a] = "launched" /\ cur'[a] = x
  BY <1>1, MoveMoves DEF StartProcess, Locations
<1>5. UNCHANGED <<journal, result, todo, blocked>>  BY DEF StartProcess
<1>6. TypeOK'
  BY <1>0, <1>3, <1>4, <1>5 DEF TypeOK, ControllerTypeOK, AgentTypeOK, Moves, cvars, lvars
<1>7. InvPlace(a)'
  BY <1>1, <1>4, <1>5 DEF InvPlace, Moves
<1>8. ASSUME NEW e \in Execs PROVE InvLaunch(e)' /\ InvEntry(a, e)' /\ InvLate(a, e)'
  <2>1. InvLaunch(e) /\ InvEntry(a, e) /\ InvLate(a, e)  BY DEF IInv, Records, Entries, Lates
  <2>2. InvLaunch(e)'  BY <1>2, <1>3, <2>1 DEF InvLaunch, PermittedTo, cvars
  <2>3. InvEntry(a, e)'
    BY <1>1, <1>3, <1>4, <1>5, <2>1 DEF InvEntry, PermittedTo, Unfinished, Moves, cvars
  <2>4. InvLate(a, e)'
    BY <1>1, <1>3, <1>4, <1>5, <2>1 DEF InvLate, PermittedTo, Unfinished, Moves, cvars, lvars
  <2> QED BY <2>2, <2>3, <2>4
<1>9. status[x] \notin Reported /\ proc[x] # "ok"
  BY <1>1, <1>2 DEF InvEntry, InvLaunch, Unfinished
<1>10. latePermits' = latePermits /\ lateResults' = lateResults  BY DEF lvars
<1> QED BY <1>2, <1>3, <1>4, <1>5, <1>6, <1>7, <1>8, <1>9, <1>10, AgentStep DEF Moves

\* Giving up a launch, with its process killed, keeps the invariant.
LEMMA FailingStep ==
  ASSUME IInv, NEW a \in Agents, NEW x \in Execs, x = cur[a],
         journal[a][x] \in {"permitted", "started"}, Move(a, "failing", "none"),
         UNCHANGED <<cvars, lvars, journal, result, todo, blocked, launches>>,
         proc' = [proc EXCEPT ![x] = IF @ = "running" THEN "killed" ELSE @]
  PROVE  IInv'
<1>0. AgentTypeOK /\ InvEntry(a, x)  BY DEF IInv, TypeOK, Entries
<1>1. Moves(a) /\ pc'[a] = "failing" /\ cur'[a] = x  BY MoveMoves DEF Locations
<1>2. InvPlace(a)'  BY <1>0, <1>1 DEF InvPlace, Moves, AgentTypeOK
<1>3. PermittedTo(a, x)  BY <1>0 DEF InvEntry
<1> QED BY <1>1, <1>2, <1>3, ProcessStep

\* Polling, launching, supervising, canceling and restarting keep the invariant.
LEMMA RunInd ==
  ASSUME IInv, NEW a \in Agents, Work(a) \/ Watch(a) \/ Mishap(a)
  PROVE  IInv'
<1>0. AgentTypeOK /\ InvPlace(a) /\ UNCHANGED <<cvars, lvars>>
  BY DEF IInv, TypeOK, Places, Work, Watch, Mishap
<1>1. CASE Poll(a)
  BY <1>0, <1>1, TakeUpStep DEF Poll, AgentTypeOK
<1>2. CASE AgentStart(a)
  <2>1. todo' \in [Agents -> SUBSET Execs]
    BY <1>0, <1>2 DEF AgentStart, Listings, Tracked, AgentTypeOK
  <2>2. \A e \in Execs : e \in blocked[a] => status[e] \notin Early
    BY DEF IInv, Entries, InvEntry
  <2>3. Moves(a) /\ pc'[a] = "loop"
    BY <1>0, <1>2, <2>1, <2>2 DEF AgentStart, Moves, Offered, AgentTypeOK, Locations
  <2>4. InvPlace(a)'  BY <2>3 DEF InvPlace, Moves
  <2> QED BY <1>0, <1>2, <2>3, <2>4, PlaceStep DEF AgentStart, LeaveBehind
<1>3. CASE RecordIntent(a)
  <2>1. PICK x \in Execs : x = cur[a]  BY <1>0, <1>3 DEF RecordIntent, InvPlace
  <2> QED BY <1>0, <1>3, <2>1, LaunchStep DEF RecordIntent
<1>4. CASE StartProcess(a)
  BY <1>0, <1>4, StartProcessInd
<1>5. CASE PrepareFails(a)
  <2>1. PICK x \in Execs : x = cur[a] /\ journal[a][x] = "permitted" /\ InvEntry(a, x) /\ InvLaunch(x)
    BY <1>0, <1>5 DEF PrepareFails, InvPlace, IInv, Entries, Records
  <2>2. proc' = proc /\ proc[x] # "running"  BY <1>5, <2>1 DEF PrepareFails, InvEntry, InvLaunch
  <2>3. proc' = [proc EXCEPT ![x] = IF @ = "running" THEN "killed" ELSE @]
    BY <1>0, <2>2 DEF AgentTypeOK
  <2> QED BY <1>0, <1>5, <2>1, <2>3, FailingStep DEF PrepareFails
<1>6. CASE StartFails(a)
  <2>1. PICK x \in Execs : x = cur[a] /\ journal[a][x] = "started" /\ launches[x] = 0 /\ InvLaunch(x)
    BY <1>0, <1>6 DEF StartFails, InvPlace, IInv, Records
  <2>2. CASE Write(a, x, "permitted")
    BY <1>0, <1>6, <2>1, <2>2, LaunchStep DEF StartFails
  <2>3. CASE UNCHANGED journal
    <3>1. proc' = proc /\ proc[x] # "running"  BY <1>6, <2>1 DEF StartFails, InvLaunch
    <3>2. proc' = [proc EXCEPT ![x] = IF @ = "running" THEN "killed" ELSE @]
      BY <1>0, <3>1 DEF AgentTypeOK
    <3> QED BY <1>0, <1>6, <2>1, <2>3, <3>2, FailingStep DEF StartFails
  <2> QED BY <1>6, <2>1, <2>2, <2>3 DEF StartFails
<1>7. CASE RecordIdentity(a)
  <2>1. PICK x \in Execs : x = cur[a] /\ journal[a][x] = "started"
    BY <1>0, <1>7 DEF RecordIdentity, InvPlace
  <2>2. CASE Write(a, x, "running") /\ Move(a, "supervise", "none") /\ UNCHANGED proc
    BY <1>0, <1>7, <2>1, <2>2, LaunchStep DEF RecordIdentity
  <2>3. CASE UNCHANGED journal /\ Move(a, "failing", "none")
             /\ proc' = [proc EXCEPT ![x] = IF @ = "running" THEN "killed" ELSE @]
    BY <1>0, <1>7, <2>1, <2>3, FailingStep DEF RecordIdentity
  <2> QED BY <1>7, <2>1, <2>2, <2>3 DEF RecordIdentity
<1>8. CASE FailRun(a)
  <2>1. cur[a] \in Execs /\ proc[cur[a]] # "running" /\ status[cur[a]] \notin Early
    BY <1>0, <1>8 DEF FailRun, InvPlace, IInv, Entries, InvEntry
  <2> QED BY <1>0, <1>8, <2>1, ConcludeStep DEF FailRun
<1>9. CASE Reap(a)
  <2>1. cur[a] \in Execs /\ status[cur[a]] \notin Early
    BY <1>0, <1>9 DEF Reap, InvPlace, IInv, Entries, InvEntry
  <2>2. OutcomeOf(a) \in Results /\ (OutcomeOf(a) = "SUCCESS" => proc[cur[a]] = "ok")
    BY DEF OutcomeOf
  <2> QED BY <1>0, <1>9, <2>1, <2>2, ConcludeStep DEF Reap
<1>10. CASE CloseCancel(a)
  <2>1. \A e \in Execs : e \in blocked[a] => status[e] \notin Early
    BY DEF IInv, Entries, InvEntry
  <2> QED BY <1>0, <1>10, <2>1, IdleStep DEF CloseCancel, AgentTypeOK
<1>11. ASSUME NEW why \in {"timeout", "cancel"}, KillGroup(a, why) PROVE IInv'
  <2>1. PICK x \in Execs : x = cur[a] /\ journal[a][x] = "running" /\ InvEntry(a, x)
    BY <1>0, <1>11 DEF KillGroup, InvPlace, IInv, Entries
  <2>2. \A e \in Execs : e \in blocked[a] => status[e] \notin Early
    BY DEF IInv, Entries, InvEntry
  <2>3. Moves(a)
    BY <1>0, <1>11, <2>2 DEF KillGroup, Moves, Offered, AgentTypeOK
  <2>4. InvPlace(a)'
    BY <1>0, <1>11 DEF KillGroup, InvPlace, Offered
  <2> QED BY <1>0, <1>11, <2>1, <2>3, <2>4, ProcessStep DEF KillGroup, InvEntry
<1> QED BY <1>1, <1>2, <1>3, <1>4, <1>5, <1>6, <1>7, <1>8, <1>9, <1>10, <1>11
     DEF Work, Watch, Mishap

\* The end of a script keeps the invariant.
LEMMA HostInd ==
  ASSUME IInv, NEW x \in Execs, Host(x)
  PROVE  IInv'
<1> USE DEF Host, ProcessExits, memory, cvars, lvars
<1>0. TypeOK /\ AgentTypeOK  BY DEF IInv, TypeOK
<1>1. TypeOK'  BY <1>0 DEF TypeOK, ControllerTypeOK, AgentTypeOK
<1>2. \A e \in Execs : proc'[e] = proc[e] \/ (e = x /\ proc[e] = "running" /\ proc'[e] \in {"ok", "failed"})
  BY <1>0 DEF AgentTypeOK
<1>3. ASSUME NEW e \in Execs PROVE InvRecord(e)' /\ InvLaunch(e)' /\ InvOutcome(e)'
  <2>1. InvRecord(e) /\ InvLaunch(e) /\ InvOutcome(e)  BY DEF IInv, Records
  <2> QED BY <1>2, <2>1 DEF InvRecord, InvLaunch, InvOutcome
<1>4. ASSUME NEW b \in Agents PROVE InvPlace(b)'
  <2>1. InvPlace(b)  BY DEF IInv, Places
  <2> QED BY <1>2, <2>1 DEF InvPlace, Offered, PermittedTo
<1>5. ASSUME NEW b \in Agents, NEW e \in Execs PROVE InvEntry(b, e)' /\ InvLate(b, e)'
  <2>1. InvEntry(b, e) /\ InvLate(b, e)  BY DEF IInv, Entries, Lates
  <2>2. InvEntry(b, e)'  BY <1>2, <2>1 DEF InvEntry, PermittedTo, Unfinished, Offered
  <2>3. InvLate(b, e)'  BY <1>2, <2>1 DEF InvLate, PermittedTo, Unfinished, Offered
  <2> QED BY <2>2, <2>3
<1> QED BY <1>1, <1>3, <1>4, <1>5 DEF IInv, Records, Places, Entries, Lates

-----------------------------------------------------------------------------
(* The theorems.                                                           *)

\* The invariant holds initially.
LEMMA InitIInv == Init => IInv
<1> SUFFICES ASSUME Init PROVE IInv  OBVIOUS
<1> USE DEF Init, ControllerInit, AgentInit
<1>1. TypeOK
  BY DEF TypeOK, ControllerTypeOK, AgentTypeOK, Statuses, Active, Phases, Locations, Replies
<1>2. Records
  BY DEF Records, InvRecord, InvLaunch, InvOutcome, Reported
<1>3. Places
  BY DEF Places, InvPlace, Offered
<1>4. Entries
  BY DEF Entries, InvEntry, Offered, PermittedTo, Unfinished
<1>5. Lates
  BY DEF Lates, InvLate
<1> QED BY <1>1, <1>2, <1>3, <1>4, <1>5 DEF IInv

\* Every step keeps the invariant and is lawful.
LEMMA NextIInv ==
  ASSUME IInv, [Next]_vars
  PROVE  IInv' /\ \A e \in Execs : Lawful(e)
<1>1. ASSUME NEW e \in Execs, Operator(e) PROVE IInv' /\ \A x \in Execs : Lawful(x)
  BY <1>1, OperatorInd
<1>2. ASSUME NEW e \in Execs, Host(e) PROVE IInv' /\ \A x \in Execs : Lawful(x)
  BY <1>2, HostInd, StillLawful DEF Host
<1>3. CASE Schedule
  BY <1>3, ScheduleInd
<1>4. ASSUME NEW a \in Agents, ControllerCall(a) PROVE IInv' /\ \A x \in Execs : Lawful(x)
  BY <1>4, ControllerCallInd
<1>5. ASSUME NEW a \in Agents, CallFails(a) PROVE IInv' /\ \A x \in Execs : Lawful(x)
  BY <1>5, CallFailsInd, StillLawful DEF CallFails
<1>6. ASSUME NEW a \in Agents, Stop(a) PROVE IInv' /\ \A x \in Execs : Lawful(x)
  BY <1>6, StopInd, StillLawful DEF Stop
<1>7. ASSUME NEW a \in Agents, Block(a) PROVE IInv' /\ \A x \in Execs : Lawful(x)
  BY <1>7, BlockInd, StillLawful DEF Block
<1>8. ASSUME NEW a \in Agents, Receive(a) PROVE IInv' /\ \A x \in Execs : Lawful(x)
  BY <1>8, ReceiveInd, StillLawful DEF Receive
<1>9. ASSUME NEW a \in Agents, Work(a) \/ Watch(a) \/ Mishap(a)
      PROVE IInv' /\ \A x \in Execs : Lawful(x)
  BY <1>9, RunInd, StillLawful DEF Work, Watch, Mishap
<1>10. ASSUME NEW a \in Agents, NEW e \in Execs, AgentEntry(a, e)
       PROVE IInv' /\ \A x \in Execs : Lawful(x)
  BY <1>10, AgentEntryInd, StillLawful DEF AgentEntry
<1>11. CASE Late
  BY <1>11, LateInd
<1>12. CASE UNCHANGED vars
  <2> USE <1>12 DEF vars, cvars, avars, lvars
  <2>1. TypeOK'  BY DEF IInv, TypeOK, ControllerTypeOK, AgentTypeOK
  <2>2. Records'  BY DEF IInv, Records, InvRecord, InvLaunch, InvOutcome
  <2>3. Places'  BY DEF IInv, Places, InvPlace, Offered, PermittedTo
  <2>4. Entries'  BY DEF IInv, Entries, InvEntry, Offered, PermittedTo, Unfinished
  <2>5. Lates'  BY DEF IInv, Lates, InvLate, Offered, PermittedTo, Unfinished
  <2> QED BY <2>1, <2>2, <2>3, <2>4, <2>5, StillLawful DEF IInv
<1> QED BY <1>1, <1>2, <1>3, <1>4, <1>5, <1>6, <1>7, <1>8, <1>9, <1>10, <1>11, <1>12 DEF Next

\* The controller's record, every agent's journal and place and every request
\* under way agree, for any agents and executions and any number of late
\* requests.
THEOREM Invariance == Spec => []IInv
<1>1. IInv /\ [Next]_vars => IInv'  BY NextIInv
<1> QED BY <1>1, InitIInv, PTL DEF Spec

\* The type invariant, for every value of the constants.
THEOREM TypeCorrect == Spec => []TypeOK
<1>1. IInv => TypeOK  BY DEF IInv
<1> QED BY <1>1, Invariance, PTL

\* No execution's process is started twice, whatever is lost, late, repeated,
\* requeued, restarted or not written.
THEOREM StartedAtMostOnce == Spec => []AtMostOnce
<1>1. IInv => AtMostOnce
  BY DEF IInv, Records, InvLaunch, AtMostOnce
<1> QED BY <1>1, Invariance, PTL

\* A process is only ever started under a permit.
THEOREM NoProcessWithoutPermit == Spec => []NoPermitNoProcess
<1>1. IInv => NoPermitNoProcess
  BY DEF IInv, Records, InvLaunch, NoPermitNoProcess
<1> QED BY <1>1, Invariance, PTL

\* No SUCCESS, FAILED or CANCELED is recorded while the script still runs.
THEOREM EndsAreConfirmed == Spec => []EndIsConfirmed
<1>1. IInv => EndIsConfirmed
  BY DEF IInv, Records, InvOutcome, Reported, EndIsConfirmed
<1> QED BY <1>1, Invariance, PTL

\* A recorded SUCCESS is the exit status 0 of the script.
THEOREM SuccessesAreReal == Spec => []SuccessIsReal
<1>1. IInv => SuccessIsReal
  BY DEF IInv, Records, InvOutcome, SuccessIsReal
<1> QED BY <1>1, Invariance, PTL

\* While the controller waits for a permitted execution its owner has the
\* journal entry that makes it go on with it.
THEOREM NoRunIsLost == Spec => []NoLostRun
<1>1. IInv => NoLostRun
  BY DEF IInv, Records, InvOutcome, NoLostRun
<1> QED BY <1>1, Invariance, PTL

\* A finished execution keeps its status until it is deleted for good.
THEOREM HistoryIsFinal == Spec => TerminalIsFinal
<1>1. IInv /\ [Next]_vars =>
        [\A e \in Execs : /\ Terminal(e) => status'[e] \in {status[e], "DELETED"}
                          /\ status[e] = "DELETED" => status'[e] = "DELETED"]_vars
  BY NextIInv DEF Lawful
<1> QED BY <1>1, Invariance, PTL DEF Spec, TerminalIsFinal

\* A permitted execution keeps its permit and its owner and is never requeued.
THEOREM PermitsAreFinal == Spec => PermitIsFinal
<1>1. ASSUME IInv, [Next]_vars
      PROVE  \A e \in Execs : permit[e] =>
               permit'[e] /\ owner'[e] = owner[e] /\ status'[e] \notin {"QUEUED", "ASSIGNED"}
  <2> SUFFICES ASSUME NEW e \in Execs, permit[e]
               PROVE  permit'[e] /\ owner'[e] = owner[e] /\ status'[e] \notin {"QUEUED", "ASSIGNED"}
    OBVIOUS
  <2>1. Lawful(e) /\ InvRecord(e)  BY <1>1, NextIInv DEF IInv, Records
  <2> QED BY <2>1 DEF Lawful, InvRecord, Early
<1>2. IInv /\ [Next]_vars =>
        [\A e \in Execs : permit[e] =>
           permit'[e] /\ owner'[e] = owner[e] /\ status'[e] \notin {"QUEUED", "ASSIGNED"}]_vars
  BY <1>1
<1> QED BY <1>2, Invariance, PTL DEF Spec, PermitIsFinal

\* The controller never holds an agent to two active executions.
THEOREM AgentsHoldOneExecution == Spec => []OneActivePerAgent
<1>1. Init => OneActivePerAgent
  BY DEF Init, ControllerInit, OneActivePerAgent, Holds, Active
<1>2. ASSUME IInv, OneActivePerAgent, [Next]_vars PROVE OneActivePerAgent'
  <2> SUFFICES ASSUME NEW a \in Agents, NEW e1 \in Execs, NEW e2 \in Execs,
                      Holds(a, e1)', Holds(a, e2)', e1 # e2
               PROVE  FALSE
    BY DEF OneActivePerAgent
  <2>1. Lawful(e1) /\ Lawful(e2)  BY <1>2, NextIInv
  <2>2. CASE Holds(a, e1) /\ Holds(a, e2)
    BY <1>2, <2>2 DEF OneActivePerAgent
  <2>3. CASE ~Holds(a, e1)
    BY <2>1, <2>3 DEF Lawful, Holds, Occupied
  <2>4. CASE ~Holds(a, e2)
    BY <2>1, <2>4 DEF Lawful, Holds, Occupied
  <2> QED BY <2>2, <2>3, <2>4
<1>3. IInv /\ OneActivePerAgent /\ [Next]_vars => OneActivePerAgent'  BY <1>2
<1> QED BY <1>1, <1>3, Invariance, PTL DEF Spec
=============================================================================
