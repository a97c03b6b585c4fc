------------------------- MODULE DispatchInvariant -------------------------
(***************************************************************************)
(* The inductive invariant of Dispatch.  The properties of Dispatch say    *)
(* what must never happen to one execution; they hold because of what the  *)
(* controller's record, the owner's journal, the place of the owner's main *)
(* goroutine and the requests still under way say together, which is what  *)
(* the parts below write down.                                             *)
(***************************************************************************)
EXTENDS Dispatch

\* Before the permit.  Once an execution leaves these it never returns.
Early == {"ABSENT", "QUEUED", "ASSIGNED"}

\* Ends that only the owner's report, or a cancel before the permit, records.
Reported == {"SUCCESS", "FAILED", "CANCELED"}

\* The controller's record is coherent.
InvRecord(e) ==
  /\ status[e] \in Early => ~permit[e] /\ ~cancelReq[e] /\ ~revoked[e]
  /\ status[e] \in {"RUNNING", "CANCELING"} => permit[e]
  /\ status[e] \in {"ABSENT", "QUEUED"} => owner[e] = NoAgent
  /\ permit[e] => owner[e] \in Agents

\* A process needs the permit and there is at most one.
InvLaunch(e) ==
  /\ launches[e] \in {0, 1}
  /\ launches[e] = 0 <=> proc[e] = "never"
  /\ launches[e] = 1 => permit[e]

\* Agent a was just told of e by a poll it has not acted on.
Offered(a, e) == pc[a] = "poll" /\ reply[a] = "answered" /\ cur[a] = e

\* Agent a may still start e, or is running it.
Unfinished(a, e) ==
  Offered(a, e) \/ journal[a][e] \in {"accepted", "permitted", "started", "running"}

PermittedTo(a, e) == permit[e] /\ owner[e] = a

\* What a journal entry says of the controller and of the process.
InvEntry(a, e) ==
  /\ journal[a][e] \notin {"none", "accepted"} => status[e] \notin Early
  /\ journal[a][e] \in {"permitted", "started", "running"} => PermittedTo(a, e)
  /\ PermittedTo(a, e) /\ (Offered(a, e) \/ journal[a][e] \in {"accepted", "permitted"})
       => launches[e] = 0
  /\ journal[a][e] = "reported" => status[e] \in Results \cup {"DELETED"}
  /\ journal[a][e] = "finished" => result[a][e] \in Results
  /\ journal[a][e] = "finished" /\ result[a][e] = "SUCCESS" => proc[e] = "ok"
  /\ PermittedTo(a, e) /\ Unfinished(a, e) => status[e] \notin Reported
  /\ PermittedTo(a, e) /\ proc[e] = "running" => journal[a][e] \notin {"finished", "reported"}
  /\ e \in blocked[a] => status[e] \notin Early

\* What the place of the main goroutine says of the entry in hand.
InvPlace(a) ==
  /\ pc[a] \in {"permit", "launch", "starting", "launched", "supervise", "failing",
                "complete", "attention"} => cur[a] \in Execs
  /\ \A e \in Execs : Offered(a, e) => journal[a][e] \in {"none", "accepted"}
  /\ pc[a] = "permit" => journal[a][cur[a]] = "accepted"
  /\ pc[a] = "permit" /\ reply[a] = "granted" => PermittedTo(a, cur[a])
  /\ pc[a] = "permit" /\ reply[a] = "denied" => status[cur[a]] \notin Early
  /\ pc[a] = "launch" => journal[a][cur[a]] = "permitted"
  /\ pc[a] = "starting" => journal[a][cur[a]] = "started" /\ launches[cur[a]] = 0
  /\ pc[a] = "launched" => journal[a][cur[a]] = "started"
  /\ pc[a] = "supervise" => journal[a][cur[a]] = "running"
  /\ pc[a] = "failing" => journal[a][cur[a]] \in {"permitted", "started"} /\ proc[cur[a]] # "running"
  /\ pc[a] = "complete" => journal[a][cur[a]] = "finished"
  /\ pc[a] = "complete" /\ reply[a] = "accepted" => status[cur[a]] \in Results \cup {"DELETED"}
  /\ pc[a] = "attention" => status[cur[a]] \notin Early

\* What a request that outlived its call says.
InvLate(a, e) ==
  /\ <<a, e>> \in latePermits /\ status[e] \in Early => journal[a][e] # "none"
  /\ \A r \in Results : <<a, e, r>> \in lateResults =>
       /\ status[e] \notin Early
       /\ ~Unfinished(a, e)
       /\ PermittedTo(a, e) => proc[e] # "running"
       /\ r = "SUCCESS" => proc[e] = "ok"

\* The properties themselves, for one execution.
InvOutcome(e) ==
  /\ status[e] \in Reported => proc[e] # "running"
  /\ status[e] = "SUCCESS" => proc[e] = "ok"
  /\ status[e] \in {"RUNNING", "CANCELING"} => journal[owner[e]][e] # "none"

Records == \A e \in Execs : InvRecord(e) /\ InvLaunch(e) /\ InvOutcome(e)
Places == \A a \in Agents : InvPlace(a)
Entries == \A a \in Agents, e \in Execs : InvEntry(a, e)
Lates == \A a \in Agents, e \in Execs : InvLate(a, e)

\* The inductive invariant: the controller's record, every agent's place and
\* journal, and every request under way agree about each execution.
IInv == TypeOK /\ Records /\ Places /\ Entries /\ Lates
=============================================================================
