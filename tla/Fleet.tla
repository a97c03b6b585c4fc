------------------------------- MODULE Fleet -------------------------------
(***************************************************************************)
(* The scheduler and the administration of the agents it schedules on.     *)
(* scheduleOnce judges definitions and liveness before it takes the store  *)
(* lock and occupancy under it; meanwhile administrators pause, disable,   *)
(* create and delete agents, agents come, go and report, and operators     *)
(* cancel.  Module ControllerQueue has the operations on the executions,   *)
(* and an abstract ScheduleOnce that leaves the choices open which are     *)
(* made here.                                                              *)
(*                                                                         *)
(* An execution's number is its RequestedAt, which Enqueue takes before    *)
(* the lock, and an agent's number its place among the IDs.  The labels of *)
(* an agent do not change, and an agent's request is checked (bindAgent)   *)
(* and carried out in one step.                                            *)
(***************************************************************************)
EXTENDS ControllerQueue

CONSTANTS
  Schedulers, \* callers of scheduleOnce: schedulerLoop and handlers
  Loop,       \* of these, schedulerLoop
  Admins,     \* requests that change definitions or tokens
  MaxEvents,  \* bound on those requests, stops of the controller and failed writes
  Idle        \* of a scheduler: no view taken

ASSUME FleetAssumption ==
  /\ Agents \subseteq Nat /\ IsFiniteSet(Agents) /\ Execs \subseteq Nat
  /\ MaxEvents \in Nat /\ Loop \in Schedulers

VARIABLES
  def,      \* def[a]: the agent's definition
  online,   \* the agents seen within OfflineAfter
  last,     \* last[a]: the rank of LastAssignedAt among the agents
  view,     \* view[s]: the agents a scheduler found available, or Idle
  admin,    \* admin[d]: the step and the agent of a request
  events    \* how many of the events MaxEvents bounds there were

fleet == <<def, online, last, view, admin, events>>
vars == <<cvars, fleet>>

\* off: paused or disabled, which the scheduler does not tell apart.
Definitions == {"on", "off", "none"}

FleetTypeOK ==
  /\ ControllerTypeOK
  /\ def \in [Agents -> Definitions] /\ online \subseteq Agents
  /\ last \in [Agents -> 0 .. Cardinality(Agents)]
  /\ view \in [Schedulers -> (SUBSET Agents) \cup {Idle}]
  /\ admin \in [Admins -> [pc : {"idle", "remove"}, agent : Agents \cup {NoAgent}]]
  /\ events \in 0 .. MaxEvents

NoRequest == [pc |-> "idle", agent |-> NoAgent]

Init ==
  /\ ControllerInit
  /\ def = [a \in Agents |-> "on"] /\ online = {}
  /\ last = [a \in Agents |-> 0] /\ view = [s \in Schedulers |-> Idle]
  /\ admin = [d \in Admins |-> NoRequest] /\ events = 0

Event == events < MaxEvents /\ events' = events + 1

-----------------------------------------------------------------------------
(* scheduleOnce.                                                           *)

\* Online, enabled and not paused.
Available(a) == a \in online /\ def[a] = "on"

\* AgentViews, before the lock; with nobody available the call is over.
View(s) ==
  /\ view[s] = Idle
  /\ LET found == {a \in Agents : Available(a)}
     IN  view' = [view EXCEPT ![s] = IF found = {} THEN Idle ELSE found]
  /\ UNCHANGED <<cvars, def, online, last, admin, events>>

\* The candidate with the oldest last assignment, then the first by ID.
Chosen(S) == CHOOSE a \in S : \A b \in S : last[a] < last[b] \/ (last[a] = last[b] /\ a <= b)

Assigned(f) == {f[e] : e \in DOMAIN f} \ {NoAgent}

Candidates(e, avail, taken) == {a \in (avail \cap Matches[e]) \ taken : ~Occupied(a)}

\* Mutants: the newest comes first; an execution that nobody can take ends the
\* pass; occupancy is taken from the view.
PassNewestFirst(avail) ==
  LET f[e \in Queued] ==
        LET c == Candidates(e, avail, {f[x] : x \in {y \in Queued : y > e}})
        IN  IF c = {} THEN NoAgent ELSE Chosen(c)
  IN  f

PassBreaks(avail) ==
  LET f[e \in Queued] ==
        LET before == {f[x] : x \in {y \in Queued : y < e}}
            c == Candidates(e, avail, before)
        IN  IF c = {} \/ NoAgent \in before THEN NoAgent ELSE Chosen(c)
  IN  f

PassTrustsView(avail) ==
  LET f[e \in Queued] ==
        LET c == (avail \cap Matches[e]) \ {f[x] : x \in {y \in Queued : y < e}}
        IN  IF c = {} THEN NoAgent ELSE Chosen(c)
  IN  f

\* In the order of RequestedAt every queued execution gets the best agent that
\* is still free, and one that nobody can take is passed over.
Pass(avail) ==
  LET f[e \in Queued] ==
        LET c == Candidates(e, avail, {f[x] : x \in {y \in Queued : y < e}})
        IN  IF c = {} THEN NoAgent ELSE Chosen(c)
  IN  f

\* The agents that got work in this pass share one LastAssignedAt, the latest.
Ranked(late) ==
  LET time == [a \in Agents |-> IF a \in late THEN Cardinality(Agents) + 1 ELSE last[a]]
  IN  [a \in Agents |-> Cardinality({time[b] : b \in {x \in Agents : time[x] < time[a]}})]

\* The transaction.  A pass that assigns nothing writes nothing.
Schedule(s) ==
  /\ view[s] # Idle /\ view' = [view EXCEPT ![s] = Idle]
  /\ LET f == Pass(view[s])
     IN  /\ status' = [e \in Execs |-> IF e \in Queued /\ f[e] # NoAgent THEN "ASSIGNED" ELSE status[e]]
         /\ owner' = [e \in Execs |-> IF e \in Queued /\ f[e] # NoAgent THEN f[e] ELSE owner[e]]
         /\ last' = IF Assigned(f) = {} THEN last ELSE Ranked(Assigned(f))
  /\ UNCHANGED <<permit, revoked, cancelReq, attention, def, online, admin, events>>

\* The snapshot cannot be written; the call is logged and over.
ScheduleFails(s) ==
  /\ view[s] # Idle /\ view' = [view EXCEPT ![s] = Idle]
  /\ Event
  /\ UNCHANGED <<cvars, def, online, last, admin>>

-----------------------------------------------------------------------------
(* Agents: a request needs a definition.                                   *)

\* bindAgent and markAgentSeen.
Seen(a) ==
  /\ def[a] # "none" /\ online' = online \cup {a}
  /\ UNCHANGED <<def, last, view, admin, events>>

\* handleAgentPoll: the agent knows some of what it owns.
Poll(a) == Seen(a) /\ \E known \in SUBSET Unknown(a, {}) : Reconcile(a, known)

\* The calls of an agent that works.
Report(a, e) ==
  /\ Owns(a, e) /\ ~Terminal(e) /\ Seen(a)
  /\ GrantPermit(a, e) \/ ReportAttention(a, e) \/ SubmitResult(a, e, "SUCCESS")

GoOffline(a) ==
  /\ a \in online /\ online' = online \ {a}
  /\ UNCHANGED <<cvars, def, last, view, admin, events>>

\* What users and operators do with executions.
Operate(e) ==
  /\ Enqueue(e) \/ Cancel(e) \/ ResolveAttention(e)
  /\ UNCHANGED fleet

\* Liveness and the calls under way are only in memory.
Restart ==
  /\ Event
  /\ online' = {} /\ view' = [s \in Schedulers |-> Idle] /\ admin' = [d \in Admins |-> NoRequest]
  /\ UNCHANGED <<cvars, def, last>>

-----------------------------------------------------------------------------
(* Administrators.  editConfig is one step here: module Config has its own *)
(* steps.                                                                  *)

Asks(d) == admin[d] = NoRequest /\ Event

\* handleCreateAgent and handleUpdateAgent.
SetDefinition(d, a, value) ==
  /\ Asks(d) /\ value # "none" /\ value # def[a]
  /\ def' = [def EXCEPT ![a] = value]
  /\ UNCHANGED <<cvars, online, last, view, admin>>

\* A document that lacks the agent, saved or written by hand: nothing looks at
\* what the agent is doing, and its token stays.
DropDefinition(a) ==
  /\ Event
  /\ def[a] # "none" /\ def' = [def EXCEPT ![a] = "none"]
  /\ UNCHANGED <<cvars, online, last, view, admin>>

\* handleDeleteAgent: an agent among the AgentViews must be free, and one that is
\* not defined passes; then the definition goes, if there is one by now.  Last
\* its token goes: module Credentials.
CheckDelete(d, a) ==
  /\ Asks(d) /\ (def[a] = "none" \/ ~Occupied(a))
  /\ admin' = [admin EXCEPT ![d] = [pc |-> "remove", agent |-> a]]
  /\ UNCHANGED <<cvars, def, online, last, view>>

RemoveDefinition(d, a) ==
  /\ admin[d] = [pc |-> "remove", agent |-> a]
  /\ admin' = [admin EXCEPT ![d] = NoRequest]
  /\ def' = [def EXCEPT ![a] = "none"]
  /\ UNCHANGED <<cvars, online, last, view, events>>

Administer(d, a) ==
  \/ \E value \in Definitions : SetDefinition(d, a, value)
  \/ CheckDelete(d, a) \/ RemoveDefinition(d, a)

-----------------------------------------------------------------------------
Next ==
  \/ \E s \in Schedulers : View(s) \/ Schedule(s) \/ ScheduleFails(s)
  \/ \E a \in Agents : Poll(a) \/ GoOffline(a) \/ DropDefinition(a) \/ \E e \in Execs : Report(a, e)
  \/ \E e \in Execs : Operate(e)
  \/ \E d \in Admins, a \in Agents : Administer(d, a)
  \/ Restart

\* schedulerLoop calls scheduleOnce on every tick; a handler calls it once.
Spec == Init /\ [][Next]_vars /\ WF_vars(View(Loop) \/ Schedule(Loop))

-----------------------------------------------------------------------------
(* Properties                                                              *)

\* Mutant: an agent that cancels its execution counts as ready.
ReadyWhenCanceling(e, a) ==
  a \in online /\ def[a] = "on" /\ a \in Matches[e] /\ ~OccupiedUnlessCanceling(a)

\* queueReason says "ready" if it finds such an agent.
ReadyOn(e, a) == a \in online /\ def[a] = "on" /\ a \in Matches[e] /\ ~Occupied(a)

\* The types, and: what the queue page shows as ready is what the scheduler,
\* which decides it elsewhere and in another way, would assign now.
Inv ==
  /\ FleetTypeOK
  /\ (\E e \in Queued, a \in Agents : ReadyOn(e, a)) <=> Assigned(Pass({a \in Agents : Available(a)})) # {}

\* The scheduler in detail does what ControllerQueue's ScheduleOnce allows, so
\* what module Dispatch proves of the protocol holds of this scheduler, from
\* whatever stale view it starts.
QueueNext ==
  \/ \E e \in Execs : Enqueue(e) \/ Cancel(e) \/ ResolveAttention(e)
  \/ \E a \in Agents, e \in Execs : GrantPermit(a, e) \/ ReportAttention(a, e) \/ SubmitResult(a, e, "SUCCESS")
  \/ \E a \in Agents, known \in SUBSET Execs : Reconcile(a, known)
  \/ ScheduleOnce

QueueRefined == ControllerInit /\ [][QueueNext]_cvars

\* "Queue items are considered in enqueue order": an agent never gets an
\* execution while an older one that it could run stays in the queue.
OldestFirst ==
  [][\A e, old \in Execs :
       status[e] = "QUEUED" /\ status'[e] = "ASSIGNED" /\ old \in Queued /\ old < e /\ status'[old] = "QUEUED"
         => owner'[e] \notin Matches[old]]_vars

\* "A blocked item never stalls the items behind it": an execution that is shown
\* as ready because of some agent is soon assigned, or that agent is not free.
NoStall ==
  \A e \in Execs : \A a \in Matches[e] :
    (e \in Queued /\ ReadyOn(e, a)) ~> ~(e \in Queued /\ ReadyOn(e, a))

\* handleDeleteAgent "refuses to remove an agent that still owns work, so an
\* active execution can never lose its owner": no agent that has work is removed.
OwnerStays ==
  [][\A d \in Admins, a \in Agents :
       RemoveDefinition(d, a) /\ def[a] # "none" => \A e \in Execs : ~Holds(a, e)]_vars
=============================================================================
