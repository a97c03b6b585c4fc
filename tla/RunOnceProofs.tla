---------------------------- MODULE RunOnceProofs ----------------------------
(***************************************************************************)
(* Dispatch implements RunOnce, for any agents and executions and any      *)
(* number of late requests.                                                *)
(*                                                                         *)
(* Every step of the protocol moves at most one run, and by a step that    *)
(* RunOnce has.  Beyond the invariant of Dispatch this needs to know that  *)
(* an operator is only ever asked about a run that was permitted           *)
(* (InvAlert): closing one that still waits would be a verdict RunOnce     *)
(* does not allow.                                                         *)
(***************************************************************************)
EXTENDS DispatchProofs

\* Nobody asks for attention before the permit, nor with a request that is late.
InvAlert(e) ==
  /\ attention[e] => status[e] \notin Early
  /\ \A a \in Agents : <<a, e>> \in lateAlerts => status[e] \notin Early

AlertInv == \A e \in Execs : InvAlert(e)

-----------------------------------------------------------------------------
(* What RunOnce sees.                                                      *)

Verdict(s) == IF s \in Results THEN s ELSE "none"

\* What is left alone as RunOnce sees it.
LEMMA Unseen ==
  ASSUME \A e \in Execs : StageOf(status'[e]) = StageOf(status[e]) /\ Verdict(status'[e]) = Verdict(status[e]),
         UNCHANGED <<permit, launches>>
  PROVE  UNCHANGED Promise!absVars
BY DEF Promise!absVars, Verdict

\* One run moves.
LEMMA Moved ==
  ASSUME NEW x \in Execs, status' = [status EXCEPT ![x] = status'[x]], status \in [Execs -> Statuses]
  PROVE  /\ [e \in Execs |-> StageOf(status[e])]' =
              [[e \in Execs |-> StageOf(status[e])] EXCEPT ![x] = StageOf(status'[x])]
         /\ [e \in Execs |-> IF status[e] \in Results THEN status[e] ELSE "none"]' =
              [[e \in Execs |-> IF status[e] \in Results THEN status[e] ELSE "none"]
                 EXCEPT ![x] = Verdict(status'[x])]
BY DEF Verdict

LEMMA StageLaw ==
  /\ StageOf("ABSENT") = "absent" /\ StageOf("QUEUED") = "waiting" /\ StageOf("ASSIGNED") = "waiting"
  /\ StageOf("RUNNING") = "permitted" /\ StageOf("CANCELING") = "permitted"
  /\ \A s \in Results : StageOf(s) = "done" /\ Verdict(s) = s
  /\ StageOf("DELETED") = "forgotten"
  /\ \A s \in {"ABSENT", "QUEUED", "ASSIGNED", "RUNNING", "CANCELING", "DELETED"} : Verdict(s) = "none"
BY DEF StageOf, Verdict, Results

-----------------------------------------------------------------------------
(* Steps.                                                                  *)

Promised == [Promise!AbsNext]_Promise!absVars

LEMMA EnqueueAccepts ==
  ASSUME IInv, NEW x \in Execs, Enqueue(x), UNCHANGED launches
  PROVE  Promised
<1>1. /\ status \in [Execs -> Statuses] /\ status[x] = "ABSENT" /\ status'[x] = "QUEUED"
      /\ status' = [status EXCEPT ![x] = "QUEUED"] /\ UNCHANGED permit
  BY DEF IInv, TypeOK, Enqueue, ControllerTypeOK
<1>2. Promise!Accept(x)
  BY <1>1, Moved, StageLaw DEF Promise!Accept, Verdict
<1> QED BY <1>2 DEF Promised, Promise!AbsNext

\* A verdict: of a run that was permitted, or a cancellation of one that waits.
LEMMA Decides ==
  ASSUME IInv, NEW x \in Execs, NEW v \in Results, status' = [status EXCEPT ![x] = v],
         \/ status[x] \in {"RUNNING", "CANCELING"}
         \/ status[x] \in {"QUEUED", "ASSIGNED"} /\ v = "CANCELED",
         UNCHANGED <<permit, launches>>
  PROVE  Promised
<1>1. status \in [Execs -> Statuses] /\ status'[x] = v
  BY DEF IInv, TypeOK, ControllerTypeOK
<1>2. \/ StageOf(status[x]) = "permitted"
      \/ StageOf(status[x]) = "waiting" /\ v = "CANCELED"
  BY StageLaw
<1>3. Promise!Decide(x, v)
  BY <1>1, <1>2, Moved, StageLaw DEF Promise!Decide
<1>4. \E w \in Promise!Results : Promise!Decide(x, w)
  BY <1>3 DEF Results, Promise!Results
<1> QED BY <1>4 DEF Promised, Promise!AbsNext

LEMMA CancelDecides ==
  ASSUME IInv, NEW x \in Execs, Cancel(x), UNCHANGED launches
  PROVE  Promised
<1> DEFINE before == status[x] = "QUEUED" \/ (status[x] = "ASSIGNED" /\ ~permit[x])
<1>0. /\ status \in [Execs -> Statuses] /\ InvRecord(x) /\ UNCHANGED permit
      /\ status[x] \notin {"ABSENT", "DELETED"} \cup Results
  BY DEF IInv, TypeOK, ControllerTypeOK, Records, Cancel, Found, Terminal
<1>1. status[x] \in {"QUEUED", "ASSIGNED", "RUNNING", "CANCELING"}
  BY <1>0 DEF Statuses, Active
<1>2. CASE before
  <2>1. status' = [status EXCEPT ![x] = "CANCELED"]  BY <1>2 DEF Cancel
  <2>2. "CANCELED" \in Results  BY DEF Results
  <2> QED BY <1>0, <1>2, <2>1, <2>2, Decides
<1>3. CASE ~before
  <2>1. status' = [status EXCEPT ![x] = "CANCELING"]  BY <1>3 DEF Cancel
  <2>2. status[x] \in {"RUNNING", "CANCELING"}  BY <1>0, <1>1, <1>3 DEF InvRecord, Early
  <2>3. \A e \in Execs : StageOf(status'[e]) = StageOf(status[e]) /\ Verdict(status'[e]) = Verdict(status[e])
    BY <1>0, <2>1, <2>2, StageLaw
  <2> QED BY <1>0, <2>3, Unseen DEF Promised
<1> QED BY <1>2, <1>3

LEMMA ResolveDecides ==
  ASSUME IInv, AlertInv, NEW x \in Execs, ResolveAttention(x), UNCHANGED launches
  PROVE  Promised
<1>0. /\ status \in [Execs -> Statuses] /\ UNCHANGED permit /\ status[x] \notin {"ABSENT", "DELETED"}
      /\ status[x] \notin Early
      /\ status' = [status EXCEPT ![x] = IF status[x] \in Results THEN status[x] ELSE "ABORTED"]
  BY DEF IInv, TypeOK, ControllerTypeOK, ResolveAttention, Found, AlertInv, InvAlert
<1>1. CASE status[x] \in Results
  <2>1. status' = status  BY <1>0, <1>1
  <2> QED BY <1>0, <2>1, Unseen DEF Promised
<1>2. CASE status[x] \notin Results
  <2>1. status[x] \in {"RUNNING", "CANCELING"}  BY <1>0, <1>2 DEF Statuses, Active, Early
  <2>2. status' = [status EXCEPT ![x] = "ABORTED"] /\ "ABORTED" \in Results  BY <1>0, <1>2 DEF Results
  <2> QED BY <1>0, <2>1, <2>2, Decides
<1> QED BY <1>1, <1>2

LEMMA DeleteForgets ==
  ASSUME IInv, NEW x \in Execs, Delete(x), UNCHANGED launches
  PROVE  Promised
<1>1. /\ status \in [Execs -> Statuses] /\ status[x] \in Results /\ status'[x] = "DELETED"
      /\ status' = [status EXCEPT ![x] = "DELETED"] /\ UNCHANGED permit
  BY DEF IInv, TypeOK, ControllerTypeOK, Delete, Terminal
<1>2. Promise!Forget(x)
  BY <1>1, Moved, StageLaw DEF Promise!Forget
<1> QED BY <1>2 DEF Promised, Promise!AbsNext

LEMMA ScheduleUnseen ==
  ASSUME IInv, ScheduleOnce, UNCHANGED launches
  PROVE  Promised
<1>1. UNCHANGED permit /\ \A e \in Execs : status'[e] = status[e] \/ (status[e] = "QUEUED" /\ status'[e] = "ASSIGNED")
  BY DEF ScheduleOnce, Queued
<1>2. \A e \in Execs : StageOf(status'[e]) = StageOf(status[e]) /\ Verdict(status'[e]) = Verdict(status[e])
  BY <1>1, StageLaw
<1> QED BY <1>1, <1>2, Unseen DEF Promised

LEMMA ReconcileUnseen ==
  ASSUME IInv, NEW a, NEW known, Reconcile(a, known), UNCHANGED launches
  PROVE  Promised
<1>1. ASSUME NEW e \in Execs
      PROVE  status'[e] = status[e] \/ (status[e] \in {"QUEUED", "ASSIGNED"} /\ status'[e] = "QUEUED")
  <2>1. status[e] \in Statuses /\ InvRecord(e)  BY DEF IInv, TypeOK, ControllerTypeOK, Records
  <2> QED BY <2>1 DEF Reconcile, Unknown, Owns, Found, Terminal, InvRecord, Statuses, Active
<1>2. UNCHANGED permit  BY DEF Reconcile
<1>3. \A e \in Execs : StageOf(status'[e]) = StageOf(status[e]) /\ Verdict(status'[e]) = Verdict(status[e])
  BY <1>1, StageLaw
<1> QED BY <1>2, <1>3, Unseen DEF Promised

LEMMA StatusUnseen ==
  ASSUME UNCHANGED <<status, permit, launches>>
  PROVE  Promised
BY Unseen DEF Promised

LEMMA GrantPermits ==
  ASSUME IInv, NEW a, NEW x \in Execs, GrantPermit(a, x), UNCHANGED launches
  PROVE  Promised
<1>0. status \in [Execs -> Statuses]  BY DEF IInv, TypeOK, ControllerTypeOK
<1>1. CASE UNCHANGED cvars  BY <1>1, StatusUnseen DEF cvars
<1>2. CASE ~UNCHANGED cvars
  <2>1. /\ status[x] = "ASSIGNED" /\ status' = [status EXCEPT ![x] = "RUNNING"]
        /\ permit' = [permit EXCEPT ![x] = TRUE]
    BY <1>2 DEF GrantPermit
  <2>2. status'[x] = "RUNNING"  BY <1>0, <2>1
  <2>3. Promise!Permit(x)
    BY <1>0, <2>1, <2>2, Moved, StageLaw DEF Promise!Permit, Verdict
  <2> QED BY <2>3 DEF Promised, Promise!AbsNext
<1> QED BY <1>1, <1>2

LEMMA ResultDecides ==
  ASSUME IInv, NEW a, NEW x \in Execs, NEW r \in Results, SubmitResult(a, x, r), status[x] \notin Early,
         UNCHANGED launches
  PROVE  Promised
<1>0. status \in [Execs -> Statuses]  BY DEF IInv, TypeOK, ControllerTypeOK
<1>1. CASE UNCHANGED cvars  BY <1>1, StatusUnseen DEF cvars
<1>2. CASE ~UNCHANGED cvars
  <2>1. PICK v \in Results : status' = [status EXCEPT ![x] = v]
    BY <1>2 DEF SubmitResult, Results
  <2>2. status[x] \in {"RUNNING", "CANCELING"} /\ UNCHANGED permit
    BY <1>0, <1>2 DEF SubmitResult, Owns, Found, Terminal, Statuses, Active, Early
  <2> QED BY <2>1, <2>2, Decides
<1> QED BY <1>1, <1>2

LEMMA AttentionUnseen ==
  ASSUME NEW a, NEW x, ReportAttention(a, x), UNCHANGED launches
  PROVE  Promised
BY StatusUnseen DEF ReportAttention, cvars

LEMMA StartStarts ==
  ASSUME IInv, NEW a \in Agents, StartProcess(a), UNCHANGED cvars
  PROVE  Promised
<1>1. PICK x \in Execs : x = cur[a] /\ launches[x] = 0 /\ journal[a][x] = "started"
  BY DEF IInv, Places, StartProcess, InvPlace
<1>2. permit[x]  BY <1>1 DEF IInv, Entries, InvEntry, PermittedTo
<1>3. launches' = [launches EXCEPT ![x] = 1]  BY <1>1 DEF StartProcess
<1>4. Promise!Start(x)  BY <1>1, <1>2, <1>3 DEF Promise!Start, cvars
<1> QED BY <1>4 DEF Promised, Promise!AbsNext

-----------------------------------------------------------------------------
(* The refinement.                                                         *)

LEMMA OperatorPromised ==
  ASSUME IInv, AlertInv, NEW x \in Execs, Operator(x)
  PROVE  Promised
<1>1. UNCHANGED launches  BY DEF Operator, avars
<1> QED BY <1>1, EnqueueAccepts, CancelDecides, ResolveDecides, DeleteForgets DEF Operator

LEMMA CallPromised ==
  ASSUME IInv, NEW a \in Agents, ControllerCall(a)
  PROVE  Promised
<1>0. InvPlace(a) /\ AgentTypeOK  BY DEF IInv, Places, TypeOK
<1>1. CASE HandlePoll(a)
  BY <1>1, ReconcileUnseen DEF HandlePoll, Answer
<1>2. CASE AnswerPoll(a)
  BY <1>2, StatusUnseen DEF AnswerPoll, cvars
<1>3. CASE HandlePermit(a)
  <2>1. cur[a] \in Execs  BY <1>0, <1>3 DEF HandlePermit, InvPlace
  <2> QED BY <1>3, <2>1, GrantPermits DEF HandlePermit, Answer
<1>4. CASE HandleResult(a)
  <2>1. PICK x \in Execs : x = cur[a] /\ journal[a][x] = "finished"  BY <1>0, <1>4 DEF HandleResult, InvPlace
  <2>2. result[a][x] \in Results /\ status[x] \notin Early  BY <2>1 DEF IInv, Entries, InvEntry
  <2> QED BY <1>4, <2>1, <2>2, ResultDecides DEF HandleResult, Answer
<1>5. CASE HandleAttention(a)
  BY <1>5, AttentionUnseen DEF HandleAttention, Answer
<1> QED BY <1>1, <1>2, <1>3, <1>4, <1>5 DEF ControllerCall

LEMMA LatePromised ==
  ASSUME IInv, Late
  PROVE  Promised
<1>0. TypeOK  BY DEF IInv
<1>1. UNCHANGED launches  BY DEF Late, LatePoll, LatePermit, LateResult, LateAlert, avars
<1>2. CASE LatePoll  BY <1>1, <1>2, ReconcileUnseen DEF LatePoll
<1>3. CASE LatePermit
  <2>1. PICK a \in Agents, x \in Execs : GrantPermit(a, x)  BY <1>0, <1>3 DEF LatePermit, TypeOK
  <2> QED BY <1>1, <2>1, GrantPermits
<1>4. CASE LateResult
  <2>1. PICK a \in Agents, x \in Execs, r \in Results : <<a, x, r>> \in lateResults /\ SubmitResult(a, x, r)
    BY <1>0, <1>4 DEF LateResult, TypeOK
  <2>2. status[x] \notin Early  BY <2>1 DEF IInv, Lates, InvLate
  <2> QED BY <1>1, <2>1, <2>2, ResultDecides
<1>5. CASE LateAlert  BY <1>1, <1>5, AttentionUnseen DEF LateAlert
<1> QED BY <1>2, <1>3, <1>4, <1>5 DEF Late

\* Of the agents' steps RunOnce sees only the start of a process.
LEMMA AgentPromised ==
  ASSUME IInv, NEW a \in Agents,
         \/ CallFails(a) \/ Stop(a) \/ Block(a) \/ Receive(a) \/ Work(a) \/ Watch(a) \/ Mishap(a)
         \/ \E e \in Execs : AgentEntry(a, e)
  PROVE  Promised
<1>1. UNCHANGED cvars
  BY DEF CallFails, Stop, Block, Receive, Work, Watch, Mishap, AgentEntry
<1>2. CASE StartProcess(a)  BY <1>1, <1>2, StartStarts
<1>3. CASE UNCHANGED launches  BY <1>1, <1>3, StatusUnseen DEF cvars
<1>4. StartProcess(a) \/ UNCHANGED launches
  <2>1. CASE CallFails(a) \/ Stop(a) \/ Block(a) \/ Receive(a)
    BY <2>1 DEF CallFails, Stop, AgentStop, Block, BlockLocally, Receive, PollReply, PermitReply, CompleteReply
  <2>2. CASE Work(a)
    BY <2>2 DEF Work, Poll, RecordIntent, RecordIdentity, FailRun, Reap
  <2>3. CASE Watch(a) \/ Mishap(a)
    BY <2>3 DEF Watch, Mishap, CloseCancel, KillGroup, AgentStart, PrepareFails, StartFails
  <2>4. CASE \E e \in Execs : AgentEntry(a, e)
    BY <2>4 DEF AgentEntry, RunAccepted, RunPermitted, CompleteFinished, RemoveReported, RecoverBlocked,
                RecoverEnded, RecoverUnproven, Unblock
  <2> QED BY <2>1, <2>2, <2>3, <2>4
<1> QED BY <1>2, <1>3, <1>4

LEMMA NextPromised ==
  ASSUME IInv, AlertInv, [Next]_vars
  PROVE  Promised
<1>1. ASSUME NEW e \in Execs, Operator(e) PROVE Promised  BY <1>1, OperatorPromised
<1>2. ASSUME NEW e \in Execs, Host(e) PROVE Promised
  BY <1>2, StatusUnseen DEF Host, ProcessExits, cvars
<1>3. CASE Schedule  BY <1>3, ScheduleUnseen DEF Schedule, avars
<1>4. ASSUME NEW a \in Agents, ControllerCall(a) PROVE Promised  BY <1>4, CallPromised
<1>5. ASSUME NEW a \in Agents,
             \/ CallFails(a) \/ Stop(a) \/ Block(a) \/ Receive(a) \/ Work(a) \/ Watch(a) \/ Mishap(a)
             \/ \E e \in Execs : AgentEntry(a, e)
      PROVE Promised
  BY <1>5, AgentPromised
<1>6. CASE Late  BY <1>6, LatePromised
<1>7. CASE UNCHANGED vars  BY <1>7, StatusUnseen DEF vars, cvars, avars
<1> QED BY <1>1, <1>2, <1>3, <1>4, <1>5, <1>6, <1>7 DEF Next

-----------------------------------------------------------------------------
(* Attention.                                                              *)

\* Attention is asked for by the agent that holds the run, by a request it left
\* behind, or by Reconcile for a run that was permitted.
LEMMA AlertStep ==
  ASSUME IInv, AlertInv, [Next]_vars
  PROVE  AlertInv'
<1>0. \A e \in Execs : Lawful(e)  BY NextIInv
<1>1. ASSUME NEW e \in Execs PROVE status[e] \notin Early => status'[e] \notin Early
  BY <1>0 DEF Lawful
<1>2. ASSUME NEW e \in Execs, attention'[e] PROVE attention[e] \/ status[e] \notin Early
  <2>0. attention \in [Execs -> BOOLEAN] /\ InvRecord(e) /\ TypeOK
    BY DEF IInv, TypeOK, ControllerTypeOK, Records
  <2>1. ASSUME NEW a, NEW known, Reconcile(a, known) PROVE attention[e] \/ status[e] \notin Early
    BY <1>2, <2>0, <2>1 DEF Reconcile, Unknown, InvRecord
  <2>2. ASSUME NEW a, NEW x \in Execs, ReportAttention(a, x), status[x] \notin Early
        PROVE  attention[e] \/ status[e] \notin Early
    BY <1>2, <2>0, <2>2 DEF ReportAttention, cvars
  <2>3. CASE \E x \in Execs : Operator(x) \/ Host(x)
    BY <1>2, <2>0, <2>3 DEF Operator, Host, Enqueue, Cancel, ResolveAttention, Delete, cvars
  <2>4. CASE Schedule  BY <1>2, <2>4 DEF Schedule, ScheduleOnce
  <2>5. ASSUME NEW a \in Agents, ControllerCall(a) PROVE attention[e] \/ status[e] \notin Early
    <3>1. CASE HandlePoll(a)  BY <2>1, <3>1 DEF HandlePoll
    <3>2. CASE AnswerPoll(a)  BY <1>2, <3>2 DEF AnswerPoll, cvars
    <3>3. CASE HandlePermit(a)  BY <1>2, <3>3 DEF HandlePermit, GrantPermit, cvars
    <3>4. CASE HandleResult(a)
      <4>1. PICK x : SubmitResult(a, x, result[a][x])  BY <3>4 DEF HandleResult
      <4> QED BY <1>2, <2>0, <4>1 DEF SubmitResult, cvars
    <3>5. CASE HandleAttention(a)
      <4>1. cur[a] \in Execs /\ status[cur[a]] \notin Early
        BY <3>5 DEF HandleAttention, IInv, Places, InvPlace
      <4> QED BY <2>2, <3>5, <4>1 DEF HandleAttention
    <3> QED BY <2>5, <3>1, <3>2, <3>3, <3>4, <3>5 DEF ControllerCall
  <2>6. CASE Late
    <3>1. CASE LatePoll  BY <2>1, <3>1 DEF LatePoll
    <3>2. CASE LatePermit  BY <1>2, <3>2 DEF LatePermit, GrantPermit, cvars
    <3>3. CASE LateResult
      <4>1. PICK a, x, r : SubmitResult(a, x, r)  BY <3>3 DEF LateResult
      <4> QED BY <1>2, <2>0, <4>1 DEF SubmitResult, cvars
    <3>4. CASE LateAlert
      <4>1. PICK a \in Agents, x \in Execs : <<a, x>> \in lateAlerts /\ ReportAttention(a, x)
        BY <2>0, <3>4 DEF LateAlert, TypeOK
      <4>2. status[x] \notin Early  BY <4>1 DEF AlertInv, InvAlert
      <4> QED BY <2>2, <4>1, <4>2
    <3> QED BY <2>6, <3>1, <3>2, <3>3, <3>4 DEF Late
  <2>7. CASE \/ \E a \in Agents : \/ CallFails(a) \/ Stop(a) \/ Block(a) \/ Receive(a) \/ Work(a) \/ Watch(a) \/ Mishap(a)
                                  \/ \E x \in Execs : AgentEntry(a, x)
             \/ UNCHANGED vars
    <3>1. UNCHANGED cvars
      BY <2>7 DEF CallFails, Stop, Block, Receive, Work, Watch, Mishap, AgentEntry, vars
    <3> QED BY <1>2, <3>1 DEF cvars
  <2> QED BY <2>3, <2>4, <2>5, <2>6, <2>7 DEF Next
<1>3. ASSUME NEW a \in Agents, NEW e \in Execs, <<a, e>> \in lateAlerts'
      PROVE  <<a, e>> \in lateAlerts \/ status[e] \notin Early
  <2>1. ASSUME NEW b \in Agents, LeaveBehind(b) PROVE <<a, e>> \in lateAlerts \/ status[e] \notin Early
    <3>1. CASE <<a, e>> \in lateAlerts  BY <3>1
    <3>2. CASE <<a, e>> \notin lateAlerts
      <4>1. pc[b] = "attention" /\ e = cur[b]  BY <1>3, <2>1, <3>2 DEF LeaveBehind, lvars
      <4> QED BY <4>1 DEF IInv, Places, InvPlace
    <3> QED BY <3>1, <3>2
  <2>2. CASE \E b \in Agents : CallFails(b) \/ Stop(b) \/ Block(b)
    BY <2>1, <2>2 DEF CallFails, Stop, Block
  <2>3. CASE \E x \in Execs : Operator(x) \/ Host(x)  BY <1>3, <2>3 DEF Operator, Host, lvars
  <2>4. CASE Schedule \/ UNCHANGED vars  BY <1>3, <2>4 DEF Schedule, vars, lvars
  <2>5. CASE \E b \in Agents : ControllerCall(b)
    BY <1>3, <2>5 DEF ControllerCall, HandlePoll, AnswerPoll, HandlePermit, HandleResult, HandleAttention, Answer, lvars
  <2>6. CASE Late  BY <1>3, <2>6 DEF Late, LatePoll, LatePermit, LateResult, LateAlert
  <2>7. CASE \E b \in Agents : \/ Receive(b) \/ Work(b) \/ Watch(b) \/ Mishap(b) \/ \E x \in Execs : AgentEntry(b, x)
    BY <1>3, <2>7 DEF Receive, Work, Watch, Mishap, AgentEntry, lvars
  <2> QED BY <2>2, <2>3, <2>4, <2>5, <2>6, <2>7 DEF Next
<1> QED BY <1>1, <1>2, <1>3 DEF AlertInv, InvAlert

LEMMA AlertInvariance == Spec => [](IInv /\ AlertInv)
<1>1. Init => AlertInv  BY DEF Init, ControllerInit, AlertInv, InvAlert
<1>2. IInv /\ AlertInv /\ [Next]_vars => AlertInv'  BY AlertStep
<1> QED BY <1>1, <1>2, Invariance, PTL DEF Spec

\* The protocol keeps the promise to the caller of a run: with every loss,
\* repetition, crash and restart it does what RunOnce allows and nothing else.
THEOREM PromiseIsKept == Spec => RunsOnce
<1>1. Init => Promise!AbsInit
  BY StageLaw DEF Init, ControllerInit, AgentInit, Promise!AbsInit, Verdict
<1>2. IInv /\ AlertInv /\ [Next]_vars => [Promise!AbsNext]_Promise!absVars
  BY NextPromised DEF Promised
<1> QED BY <1>1, <1>2, AlertInvariance, PTL DEF Spec, RunsOnce, Promise!AbsSpec
=============================================================================
