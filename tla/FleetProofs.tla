---------------------------- MODULE FleetProofs ----------------------------
(***************************************************************************)
(* The scheduler keeps what ControllerQueue's ScheduleOnce promises, for   *)
(* any fleet, any queue and any number of schedulers and administrators.   *)
(*                                                                         *)
(* First: the recursion by which a pass walks the queue has a solution     *)
(* (PassLaw), so that Pass is what its equation says.  Every property of a *)
(* pass follows from that equation.                                        *)
(***************************************************************************)
EXTENDS Fleet, NaturalsInduction, WellFoundedInduction, FiniteSetTheorems, TLAPS

-----------------------------------------------------------------------------
(* Least elements.                                                         *)

LEMMA LeastNat ==
  ASSUME NEW S, S \subseteq Nat, S # {}
  PROVE  \E n \in S : \A m \in S : n <= m
<1> DEFINE Less == OpToRel(<, Nat)
<1>1. IsWellFoundedOn(Less, Nat)
  BY NatLessThanWellFounded, Zenon
<1>2. \A m, n \in Nat : m < n => <<m, n>> \in Less
  BY DEF OpToRel
<1> HIDE DEF Less
<1>3. PICK n \in S : \A m \in S : ~(<<m, n>> \in Less)
  BY <1>1, WFMin, S \subseteq Nat, Zenon
<1>4. ASSUME NEW m \in S PROVE n <= m
  <2>1. ~(m < n)  BY <1>2, <1>3, m \in Nat, n \in Nat, Zenon
  <2> QED BY <2>1
<1> QED BY <1>4

\* The agent that scheduleOnce prefers is one of the candidates.
LEMMA ChosenIsCandidate ==
  ASSUME NEW c, c \subseteq Agents, c # {}, last \in [Agents -> Nat]
  PROVE  Chosen(c) \in c
<1>1. c \subseteq Nat
  BY FleetAssumption
<1> DEFINE times == {last[a] : a \in c}
<1>2. times \subseteq Nat /\ times # {}
  OBVIOUS
<1>3. PICK t \in times : \A u \in times : t <= u
  BY <1>2, LeastNat, Zenon
<1> DEFINE oldest == {a \in c : last[a] = t}
<1>4. oldest \subseteq Nat /\ oldest # {}
  BY <1>1, <1>3
<1>5. PICK a \in oldest : \A b \in oldest : a <= b
  BY <1>4, LeastNat, Zenon
<1>6. ASSUME NEW b \in c PROVE last[a] < last[b] \/ (last[a] = last[b] /\ a <= b)
  <2>1. last[a] = t /\ t <= last[b] /\ last[b] \in Nat /\ t \in Nat  BY <1>2, <1>3, <1>5
  <2>2. CASE last[b] = t  BY <1>5, <2>1, <2>2
  <2>3. CASE last[b] # t  BY <2>1, <2>3
  <2> QED BY <2>2, <2>3
<1> QED BY <1>5, <1>6 DEF Chosen

-----------------------------------------------------------------------------
(* The recursion of Pass.                                                  *)

\* What an execution gets once the ones before it have got `taken'.
Gets(e, avail, taken) ==
  LET c == Candidates(e, avail, taken) IN IF c = {} THEN NoAgent ELSE Chosen(c)

Before(e) == {y \in Queued : y < e}

\* f follows the rule of the pass for the queued executions below n.
Follows(f, avail, n) ==
  \A e \in Queued : e < n => f[e] = Gets(e, avail, {f[x] : x \in Before(e)})

\* Two functions that follow the rule agree.
LEMMA FollowsOnce ==
  ASSUME NEW avail, NEW f, NEW g, NEW n \in Nat, NEW m \in Nat,
         Follows(f, avail, n), Follows(g, avail, m)
  PROVE  \A e \in Queued : e < n /\ e < m => f[e] = g[e]
<1> DEFINE bad == {e \in Queued : e < n /\ e < m /\ f[e] # g[e]}
<1>1. bad \subseteq Nat
  BY FleetAssumption DEF Queued
<1>2. SUFFICES ASSUME bad # {} PROVE FALSE
  OBVIOUS
<1>3. PICK e \in bad : \A x \in bad : e <= x
  BY <1>1, <1>2, LeastNat, Zenon
<1>4. \A x \in Before(e) : f[x] = g[x]
  BY <1>1, <1>3, FleetAssumption DEF Before, Queued
<1>5. {f[x] : x \in Before(e)} = {g[x] : x \in Before(e)}
  BY <1>4
<1>6. /\ f[e] = Gets(e, avail, {f[x] : x \in Before(e)})
      /\ g[e] = Gets(e, avail, {g[x] : x \in Before(e)})
  BY DEF Follows
<1> QED BY <1>5, <1>6

LEMMA FollowsSomehow ==
  ASSUME NEW avail
  PROVE  \A n \in Nat : \E f : Follows(f, avail, n)
<1> DEFINE bad == {n \in Nat : ~ \E f : Follows(f, avail, n)}
<1>1. SUFFICES ASSUME bad # {} PROVE FALSE
  OBVIOUS
<1>2. PICK n \in bad : \A m \in bad : n <= m
  BY <1>1, LeastNat, bad \subseteq Nat, Zenon
<1>3. n # 0
  <2>1. Queued \subseteq Nat  BY FleetAssumption DEF Queued
  <2>2. Follows(<<>>, avail, 0)  BY <2>1 DEF Follows
  <2> QED BY <1>2, <2>2
<1>4. n - 1 \in Nat /\ ~(n <= n - 1)
  BY <1>2, <1>3
<1>5. PICK f : Follows(f, avail, n - 1)
  BY <1>2, <1>4
<1> DEFINE g == [e \in Queued |-> IF e < n - 1 THEN f[e] ELSE Gets(e, avail, {f[x] : x \in Before(e)})]
<1>6. Follows(g, avail, n)
  <2> SUFFICES ASSUME NEW e \in Queued, e < n
               PROVE  g[e] = Gets(e, avail, {g[x] : x \in Before(e)})
    BY DEF Follows
  <2>1. e \in Nat /\ Before(e) \subseteq Nat /\ Before(e) \subseteq Queued
    BY FleetAssumption DEF Queued, Before
  <2>2. \A x \in Before(e) : g[x] = f[x]
    BY <2>1, <1>2, <1>4 DEF Before
  <2>3. {g[x] : x \in Before(e)} = {f[x] : x \in Before(e)}
    BY <2>2
  <2>4. g[e] = Gets(e, avail, {f[x] : x \in Before(e)})
    BY <1>5 DEF Follows
  <2> QED BY <2>3, <2>4
<1> QED BY <1>2, <1>6

\* The walk over the queue has a result, and Pass is that result.
LEMMA PassLaw ==
  ASSUME NEW avail
  PROVE  Pass(avail) = [e \in Queued |-> Gets(e, avail, {Pass(avail)[x] : x \in Before(e)})]
<1> DEFINE upTo(n) == CHOOSE f : Follows(f, avail, n)
<1>1. \A n \in Nat : Follows(upTo(n), avail, n)
  BY FollowsSomehow, Zenon
<1> HIDE DEF upTo
<1> DEFINE g == [e \in Queued |-> upTo(e + 1)[e]]
<1>2. ASSUME NEW e \in Queued
      PROVE  g[e] = Gets(e, avail, {g[x] : x \in Before(e)})
  <2>1. e \in Nat /\ Before(e) \subseteq Nat /\ Before(e) \subseteq Queued
    BY FleetAssumption DEF Queued, Before
  <2>2. \A x \in Before(e) : x < e + 1 /\ x < x + 1 /\ x + 1 \in Nat /\ e + 1 \in Nat
    BY <2>1 DEF Before
  <2>3. ASSUME NEW x \in Before(e) PROVE upTo(x + 1)[x] = upTo(e + 1)[x]
    <3>1. Follows(upTo(x + 1), avail, x + 1) /\ Follows(upTo(e + 1), avail, e + 1)
      BY <1>1, <2>2
    <3> QED BY <3>1, <2>1, <2>2, FollowsOnce
  <2>4. {g[x] : x \in Before(e)} = {upTo(e + 1)[x] : x \in Before(e)}
    BY <2>1, <2>3
  <2>5. upTo(e + 1)[e] = Gets(e, avail, {upTo(e + 1)[x] : x \in Before(e)})
    BY <2>1, <1>1 DEF Follows
  <2> QED BY <2>4, <2>5
<1> DEFINE Solves(f) == f = [e \in Queued |-> Gets(e, avail, {f[x] : x \in Before(e)})]
<1>3. Solves(g)
  BY <1>2
<1> HIDE DEF g
<1>4. Pass(avail) = CHOOSE f : Solves(f)
  BY Zenon DEF Pass, Gets, Before
<1>5. SUFFICES Solves(Pass(avail))
  OBVIOUS
<1> HIDE DEF Solves
<1> QED BY <1>3, <1>4, Zenon

\* A pass gives out only free agents that match, none of them twice and in the
\* order of the queue, and leaves nobody waiting that such an agent could run.
LEMMA PassFacts ==
  ASSUME NEW avail, avail \subseteq Agents, last \in [Agents -> Nat]
  PROVE  /\ Pass(avail) \in [Queued -> Agents \cup {NoAgent}]
         /\ \A e \in Queued : Pass(avail)[e] # NoAgent =>
              /\ Pass(avail)[e] \in avail \cap Matches[e] /\ ~Occupied(Pass(avail)[e])
              /\ \A x \in Before(e) : Pass(avail)[x] # Pass(avail)[e]
         /\ \A e \in Queued : Pass(avail)[e] = NoAgent =>
              \A a \in avail \cap Matches[e] : Occupied(a) \/ \E x \in Before(e) : Pass(avail)[x] = a
<1> DEFINE f == Pass(avail)
<1> DEFINE c(e) == Candidates(e, avail, {f[x] : x \in Before(e)})
<1>1. f = [e \in Queued |-> Gets(e, avail, {f[x] : x \in Before(e)})]
  BY PassLaw
<1> HIDE DEF f
<1>2. \A e \in Queued : f[e] = IF c(e) = {} THEN NoAgent ELSE Chosen(c(e))
  BY <1>1 DEF Gets
<1>3. \A e \in Queued : c(e) \subseteq avail \cap Matches[e]
  BY DEF Candidates
<1>4. ASSUME NEW e \in Queued
      PROVE  (c(e) = {} /\ f[e] = NoAgent) \/ (f[e] \in c(e) /\ f[e] \in Agents /\ f[e] # NoAgent)
  <2>1. CASE c(e) = {}  BY <1>2, <2>1
  <2>2. CASE c(e) # {}
    <3>1. c(e) \subseteq Agents  BY <1>3
    <3> HIDE DEF c
    <3>2. Chosen(c(e)) \in c(e)  BY <3>1, <2>2, ChosenIsCandidate
    <3> QED BY <1>2, <2>2, <3>1, <3>2, NoAgentAssumption
  <2> QED BY <2>1, <2>2
<1>5. f \in [Queued -> Agents \cup {NoAgent}]
  <2>1. \A e \in Queued : f[e] \in Agents \cup {NoAgent}  BY <1>4
  <2> QED BY <1>1, <2>1
<1>6. ASSUME NEW e \in Queued, f[e] # NoAgent
      PROVE  /\ f[e] \in avail \cap Matches[e] /\ ~Occupied(f[e])
             /\ \A x \in Before(e) : f[x] # f[e]
  <2>1. f[e] \in c(e)  BY <1>4, <1>6
  <2> QED BY <2>1 DEF Candidates
<1>7. ASSUME NEW e \in Queued, f[e] = NoAgent, NEW a \in avail \cap Matches[e]
      PROVE  Occupied(a) \/ \E x \in Before(e) : f[x] = a
  <2>1. c(e) = {}  BY <1>4, <1>7
  <2> QED BY <2>1 DEF Candidates
<1>8. f = Pass(avail)  BY DEF f
<1> QED BY <1>5, <1>6, <1>7, <1>8

\* The order of the queue is the order of the numbers.
LEMMA PassAssigns ==
  ASSUME NEW avail, avail \subseteq Agents, last \in [Agents -> Nat], Assigned(Pass(avail)) # {}
  PROVE  Assignment(avail, Pass(avail))
<1> DEFINE f == Pass(avail)
<1>1. /\ f \in [Queued -> Agents \cup {NoAgent}]
      /\ \A e \in Queued : f[e] # NoAgent =>
           /\ f[e] \in avail \cap Matches[e] /\ ~Occupied(f[e])
           /\ \A x \in Before(e) : f[x] # f[e]
      /\ \A e \in Queued : f[e] = NoAgent =>
           \A a \in avail \cap Matches[e] : Occupied(a) \/ \E x \in Before(e) : f[x] = a
  BY PassFacts
<1>2. Assigned(f) # {}
  OBVIOUS
<1> HIDE DEF f
<1>3. \A e \in Queued : Before(e) \subseteq Queued
  BY DEF Before
<1>4. ASSUME NEW e1 \in Queued, NEW e2 \in Queued, f[e1] = f[e2], f[e1] # NoAgent
      PROVE  e1 = e2
  <2>1. e1 \in Nat /\ e2 \in Nat  BY FleetAssumption DEF Queued
  <2>2. e1 \notin Before(e2) /\ e2 \notin Before(e1)  BY <1>1, <1>4
  <2> QED BY <2>1, <2>2 DEF Before
<1>5. \E e \in Queued : f[e] # NoAgent
  BY <1>1, <1>2 DEF Assigned
<1>6. Assignment(avail, f)
  BY <1>1, <1>3, <1>4, <1>5 DEF Assignment
<1> QED BY <1>6 DEF f

-----------------------------------------------------------------------------
(* The inductive invariant.                                                *)

\* The types, and that nobody has more than one execution to work on.
IInv == FleetTypeOK /\ OneActivePerAgent

\* No execution becomes an agent's work, or changes hands.
Keeps == \A e \in Execs : status'[e] \in Active => status[e] \in Active /\ owner'[e] = owner[e]

-----------------------------------------------------------------------------
(* Types.                                                                  *)

LEMMA RankedType ==
  ASSUME NEW late
  PROVE  Ranked(late) \in [Agents -> 0 .. Cardinality(Agents)]
<1> DEFINE time == [a \in Agents |-> IF a \in late THEN Cardinality(Agents) + 1 ELSE last[a]]
<1>1. ASSUME NEW a \in Agents
      PROVE  Cardinality({time[b] : b \in {x \in Agents : time[x] < time[a]}}) \in 0 .. Cardinality(Agents)
  <2> HIDE DEF time
  <2> DEFINE S == {x \in Agents : time[x] < time[a]}
  <2> DEFINE T == {time[b] : b \in S}
  <2>1. IsFiniteSet(S) /\ Cardinality(S) <= Cardinality(Agents)
    <3>1. S \in SUBSET Agents  OBVIOUS
    <3> HIDE DEF S
    <3> QED BY <3>1, FS_Subset, FleetAssumption
  <2>2. [b \in S |-> time[b]] \in Surjection(S, T)
    <3> HIDE DEF S
    <3> QED BY DEF Surjection
  <2> HIDE DEF S, T
  <2>3. IsFiniteSet(T) /\ Cardinality(T) <= Cardinality(S)
    BY <2>1, <2>2, FS_Surjection
  <2>4. Cardinality(T) \in Nat /\ Cardinality(S) \in Nat /\ Cardinality(Agents) \in Nat
    BY <2>1, <2>3, FS_CardinalityType, FleetAssumption
  <2>5. Cardinality(T) \in 0 .. Cardinality(Agents)
    BY <2>1, <2>3, <2>4
  <2> QED BY <2>5 DEF S, T
<1> QED BY <1>1 DEF Ranked

LEMMA LastIsNat ==
  ASSUME last \in [Agents -> 0 .. Cardinality(Agents)]
  PROVE  last \in [Agents -> Nat]
OBVIOUS

LEMMA Operations ==
  ASSUME ControllerTypeOK, NEW e \in Execs, Enqueue(e) \/ Cancel(e) \/ ResolveAttention(e)
  PROVE  ControllerTypeOK' /\ Keeps
<1>1. CASE Enqueue(e)
  BY <1>1 DEF Enqueue, ControllerTypeOK, Keeps, Statuses, Active
<1>2. CASE Cancel(e)
  <2>1. status[e] \notin Results \cup {"ABSENT", "DELETED"}  BY <1>2 DEF Cancel, Found, Terminal
  <2>2. status' \in [Execs -> Statuses] /\ cancelReq' \in [Execs -> BOOLEAN] /\ UNCHANGED <<owner, permit, attention>>
    BY <1>2 DEF Cancel, ControllerTypeOK, Statuses, Active, Results
  <2>3. revoked' \in [Execs -> BOOLEAN]
    BY <1>2, Zenon DEF Cancel, ControllerTypeOK
  <2>4. Keeps
    BY <1>2, <2>1 DEF Cancel, ControllerTypeOK, Keeps, Statuses, Active
  <2> QED BY <2>2, <2>3, <2>4 DEF ControllerTypeOK
<1>3. CASE ResolveAttention(e)
  BY <1>3 DEF ResolveAttention, ControllerTypeOK, Keeps, Statuses, Active, Results
<1> QED BY <1>1, <1>2, <1>3

LEMMA Reports ==
  ASSUME ControllerTypeOK, NEW a \in Agents, NEW e \in Execs,
         GrantPermit(a, e) \/ ReportAttention(a, e) \/ SubmitResult(a, e, "SUCCESS")
  PROVE  ControllerTypeOK' /\ Keeps
<1>1. CASE GrantPermit(a, e)
  BY <1>1 DEF GrantPermit, ControllerTypeOK, Keeps, Statuses, Active, cvars
<1>2. CASE ReportAttention(a, e)
  BY <1>2 DEF ReportAttention, ControllerTypeOK, Keeps, cvars
<1>3. CASE SubmitResult(a, e, "SUCCESS")
  BY <1>3 DEF SubmitResult, ControllerTypeOK, Keeps, Statuses, Active, Results, cvars
<1> QED BY <1>1, <1>2, <1>3

LEMMA Reconciles ==
  ASSUME ControllerTypeOK, NEW a \in Agents, NEW known, Reconcile(a, known)
  PROVE  ControllerTypeOK' /\ Keeps
BY DEF Reconcile, ControllerTypeOK, Keeps, Statuses, Active

-----------------------------------------------------------------------------
(* The invariant is inductive.                                             *)

LEMMA InitIInv == Init => IInv
<1> SUFFICES ASSUME Init PROVE IInv
  OBVIOUS
<1>1. Cardinality(Agents) \in Nat
  BY FS_CardinalityType, FleetAssumption
<1>2. FleetTypeOK
  BY <1>1, FleetAssumption
     DEF Init, FleetTypeOK, ControllerInit, ControllerTypeOK, Statuses, Definitions, NoRequest
<1>3. OneActivePerAgent
  BY DEF Init, ControllerInit, OneActivePerAgent, Holds, Active
<1> QED BY <1>2, <1>3 DEF IInv

\* A step that gives nobody work keeps the invariant.
LEMMA KeptStep ==
  ASSUME IInv, FleetTypeOK', Keeps
  PROVE  IInv'
<1>1. \A a \in Agents, e \in Execs : Holds(a, e)' => Holds(a, e)
  BY DEF Keeps, Holds
<1>2. OneActivePerAgent'
  BY <1>1 DEF IInv, OneActivePerAgent
<1> QED BY <1>2 DEF IInv

\* A pass gives work only to agents that have none, and one execution to each,
\* however old its view and whatever other passes have done since.
LEMMA ScheduleStep ==
  ASSUME IInv, NEW s \in Schedulers, Schedule(s)
  PROVE  IInv'
<1> DEFINE f == Pass(view[s])
<1>0. view[s] \subseteq Agents /\ last \in [Agents -> Nat] /\ FleetTypeOK
  BY LastIsNat DEF Schedule, IInv, FleetTypeOK
<1>1. /\ f \in [Queued -> Agents \cup {NoAgent}]
      /\ \A e \in Queued : f[e] # NoAgent => ~Occupied(f[e]) /\ \A x \in Before(e) : f[x] # f[e]
  BY <1>0, PassFacts
<1>2. /\ view' = [view EXCEPT ![s] = Idle]
      /\ status' = [e \in Execs |-> IF e \in Queued /\ f[e] # NoAgent THEN "ASSIGNED" ELSE status[e]]
      /\ owner' = [e \in Execs |-> IF e \in Queued /\ f[e] # NoAgent THEN f[e] ELSE owner[e]]
      /\ last' = IF Assigned(f) = {} THEN last ELSE Ranked(Assigned(f))
      /\ UNCHANGED <<permit, revoked, cancelReq, attention, def, online, admin, events>>
  BY DEF Schedule
<1> HIDE DEF f
<1>3. ControllerTypeOK'
  BY <1>0, <1>1, <1>2 DEF FleetTypeOK, ControllerTypeOK, Statuses, Active
<1>4. last' \in [Agents -> 0 .. Cardinality(Agents)]
  BY <1>0, <1>2, RankedType DEF FleetTypeOK
<1>5. FleetTypeOK'
  BY <1>0, <1>2, <1>3, <1>4 DEF FleetTypeOK
<1>6. ASSUME NEW a \in Agents, NEW e \in Execs, Holds(a, e)'
      PROVE  Holds(a, e) \/ (e \in Queued /\ f[e] = a /\ f[e] # NoAgent /\ ~Occupied(a))
  BY <1>1, <1>2, <1>6 DEF Holds
<1>7. ASSUME NEW a \in Agents, NEW e1 \in Execs, NEW e2 \in Execs, Holds(a, e1)', Holds(a, e2)'
      PROVE  e1 = e2
  <2>1. CASE Holds(a, e1) /\ Holds(a, e2)
    BY <2>1 DEF IInv, OneActivePerAgent
  <2>2. CASE Holds(a, e1) \/ Holds(a, e2)
    <3>1. Occupied(a)  BY <2>2 DEF Occupied
    <3> QED BY <1>6, <1>7, <2>1, <3>1
  <2>3. CASE ~Holds(a, e1) /\ ~Holds(a, e2)
    <3>1. /\ e1 \in Queued /\ e2 \in Queued /\ f[e1] = f[e2]
          /\ e1 \notin Before(e2) /\ e2 \notin Before(e1)
      BY <1>1, <1>6, <1>7, <2>3
    <3>2. e1 \in Nat /\ e2 \in Nat  BY FleetAssumption
    <3> QED BY <3>1, <3>2 DEF Before
  <2> QED BY <2>1, <2>2, <2>3
<1> QED BY <1>5, <1>7 DEF IInv, OneActivePerAgent

\* Administrators change definitions only.
LEMMA AdministerStep ==
  ASSUME IInv, NEW d \in Admins, NEW a \in Agents, Administer(d, a)
  PROVE  IInv'
<1>1. UNCHANGED <<cvars, online, last, view>>
  BY DEF Administer, SetDefinition, CheckDelete, RemoveDefinition
<1>2. events' \in 0 .. MaxEvents
  BY FleetAssumption DEF Administer, SetDefinition, CheckDelete, RemoveDefinition,
                         Asks, Event, IInv, FleetTypeOK
<1>3. def' \in [Agents -> Definitions]
  BY DEF Administer, SetDefinition, CheckDelete, RemoveDefinition, Definitions, IInv, FleetTypeOK
<1>4. admin' \in [Admins -> [pc : {"idle", "remove"}, agent : Agents \cup {NoAgent}]]
  BY DEF Administer, SetDefinition, CheckDelete, RemoveDefinition, NoRequest, IInv, FleetTypeOK
<1>5. FleetTypeOK'
  BY <1>1, <1>2, <1>3, <1>4 DEF IInv, FleetTypeOK, ControllerTypeOK, cvars
<1> QED BY <1>1, <1>5, KeptStep DEF Keeps, cvars

\* Every step, by what it does to the fleet.
LEMMA NextIInv ==
  ASSUME IInv, [Next]_vars
  PROVE  IInv'
<1> USE DEF IInv
<1>0. FleetTypeOK /\ ControllerTypeOK
  BY DEF FleetTypeOK
<1>1. ASSUME UNCHANGED vars PROVE IInv'
  <2>1. FleetTypeOK'  BY <1>1 DEF FleetTypeOK, ControllerTypeOK, vars, cvars, fleet
  <2> QED BY <1>1, <2>1, KeptStep DEF vars, cvars, fleet, Keeps
<1>2. ASSUME NEW s \in Schedulers, View(s) PROVE IInv'
  <2>1. FleetTypeOK'  BY <1>2 DEF View, FleetTypeOK, ControllerTypeOK, cvars
  <2> QED BY <1>2, <2>1, KeptStep DEF View, Keeps, cvars
<1>3. ASSUME NEW s \in Schedulers, Schedule(s) PROVE IInv'
  BY <1>3, ScheduleStep
<1>4. ASSUME NEW s \in Schedulers, ScheduleFails(s) PROVE IInv'
  <2>1. events' \in 0 .. MaxEvents  BY <1>4, FleetAssumption DEF ScheduleFails, Event, FleetTypeOK
  <2>2. FleetTypeOK'  BY <1>4, <2>1 DEF ScheduleFails, FleetTypeOK, ControllerTypeOK, cvars
  <2> QED BY <1>4, <2>2, KeptStep DEF ScheduleFails, Keeps, cvars
<1>5. ASSUME NEW a \in Agents, Poll(a) PROVE IInv'
  <2>1. ControllerTypeOK' /\ Keeps  BY <1>0, <1>5, Reconciles DEF Poll
  <2>2. FleetTypeOK'  BY <1>5, <2>1 DEF Poll, Seen, FleetTypeOK
  <2> QED BY <1>5, <2>1, <2>2, KeptStep DEF Poll, Seen
<1>6. ASSUME NEW a \in Agents, GoOffline(a) PROVE IInv'
  <2>1. FleetTypeOK'  BY <1>6 DEF GoOffline, FleetTypeOK, ControllerTypeOK, cvars
  <2> QED BY <1>6, <2>1, KeptStep DEF GoOffline, Keeps, cvars
<1>7. ASSUME NEW a \in Agents, DropDefinition(a) PROVE IInv'
  <2>1. FleetTypeOK'
    <3>1. events' \in 0 .. MaxEvents  BY <1>7, FleetAssumption DEF DropDefinition, Event, FleetTypeOK
    <3> QED BY <1>7, <3>1 DEF DropDefinition, FleetTypeOK, ControllerTypeOK, cvars, Definitions
  <2> QED BY <1>7, <2>1, KeptStep DEF DropDefinition, Keeps, cvars
<1>8. ASSUME NEW a \in Agents, NEW e \in Execs, Report(a, e) PROVE IInv'
  <2>1. ControllerTypeOK' /\ Keeps  BY <1>0, <1>8, Reports DEF Report
  <2>2. FleetTypeOK'  BY <1>8, <2>1 DEF Report, Seen, FleetTypeOK
  <2> QED BY <1>8, <2>1, <2>2, KeptStep DEF Report, Seen
<1>9. ASSUME NEW e \in Execs, Operate(e) PROVE IInv'
  <2>1. ControllerTypeOK' /\ Keeps  BY <1>0, <1>9, Operations DEF Operate
  <2>2. FleetTypeOK'  BY <1>9, <2>1 DEF Operate, fleet, FleetTypeOK
  <2> QED BY <1>9, <2>1, <2>2, KeptStep DEF Operate, fleet
<1>10. ASSUME NEW d \in Admins, NEW a \in Agents, Administer(d, a) PROVE IInv'
  BY <1>10, AdministerStep
<1>11. ASSUME Restart PROVE IInv'
  <2>1. events' \in 0 .. MaxEvents  BY <1>11, FleetAssumption DEF Restart, Event, FleetTypeOK
  <2>2. FleetTypeOK'  BY <1>11, <2>1 DEF Restart, FleetTypeOK, ControllerTypeOK, cvars, NoRequest
  <2> QED BY <1>11, <2>2, KeptStep DEF Restart, Keeps, cvars
<1> QED BY <1>1, <1>2, <1>3, <1>4, <1>5, <1>6, <1>7, <1>8, <1>9, <1>10, <1>11 DEF Next

LEMMA Invariance == Spec => []IInv
BY InitIInv, NextIInv, PTL DEF Spec

-----------------------------------------------------------------------------
(* Theorems.                                                               *)

\* What the queue page calls ready is what the next pass would assign.
LEMMA ReadyIsAssigned ==
  ASSUME IInv
  PROVE  (\E e \in Queued, a \in Agents : ReadyOn(e, a)) <=> Assigned(Pass({a \in Agents : Available(a)})) # {}
<1> DEFINE avail == {a \in Agents : Available(a)}
<1> DEFINE f == Pass(avail)
<1>1. /\ f \in [Queued -> Agents \cup {NoAgent}]
      /\ \A e \in Queued : f[e] # NoAgent =>
           /\ f[e] \in avail \cap Matches[e] /\ ~Occupied(f[e])
           /\ \A x \in Before(e) : f[x] # f[e]
      /\ \A e \in Queued : f[e] = NoAgent =>
           \A a \in avail \cap Matches[e] : Occupied(a) \/ \E x \in Before(e) : f[x] = a
  <2>1. avail \subseteq Agents /\ last \in [Agents -> Nat]
    BY LastIsNat DEF IInv, FleetTypeOK
  <2> HIDE DEF avail
  <2> QED BY <2>1, PassFacts
<1> HIDE DEF f
<1>2. ASSUME NEW e \in Queued, NEW a \in Agents, ReadyOn(e, a)
      PROVE  Assigned(f) # {}
  <2>1. a \in avail \cap Matches[e] /\ ~Occupied(a)  BY <1>2 DEF ReadyOn, Available
  <2>2. \E x \in Queued : f[x] # NoAgent
    BY <1>1, <2>1, NoAgentAssumption DEF Before
  <2> QED BY <1>1, <2>2 DEF Assigned
<1>3. ASSUME Assigned(f) # {}
      PROVE  \E e \in Queued, a \in Agents : ReadyOn(e, a)
  <2>1. PICK e \in Queued : f[e] # NoAgent  BY <1>1, <1>3 DEF Assigned
  <2>2. f[e] \in Agents /\ ReadyOn(e, f[e])  BY <1>1, <2>1 DEF ReadyOn, Available
  <2> QED BY <2>2
<1> QED BY <1>2, <1>3 DEF f

\* queueReason and scheduleOnce, which look for a free agent each in its own way,
\* agree in every state the controller can be in.
THEOREM ReadyMeansReady == Spec => []Inv
<1>1. IInv => Inv
  BY ReadyIsAssigned DEF IInv, Inv
<1> QED BY <1>1, Invariance, PTL

\* However many calls of scheduleOnce overlap, with views as old as may be, no
\* agent ever holds two executions.
THEOREM OneExecutionEach == Spec => []OneActivePerAgent
<1>1. IInv => OneActivePerAgent  BY DEF IInv
<1> QED BY <1>1, Invariance, PTL

\* Only a pass hands out work.
LEMMA OnlySchedule ==
  ASSUME IInv, Next, ~ \E s \in Schedulers : Schedule(s)
  PROVE  UNCHANGED cvars \/ (Keeps /\ (QueueNext \/ UNCHANGED cvars))
<1>0. ControllerTypeOK
  BY DEF IInv, FleetTypeOK
<1>1. ASSUME NEW a \in Agents, Poll(a) PROVE Keeps /\ QueueNext
  <2>1. PICK known \in SUBSET Unknown(a, {}) : Reconcile(a, known)  BY <1>1 DEF Poll
  <2>2. known \in SUBSET Execs  BY DEF Unknown
  <2> QED BY <1>0, <2>1, <2>2, Reconciles DEF QueueNext
<1>2. ASSUME NEW a \in Agents, NEW e \in Execs, Report(a, e) PROVE Keeps /\ QueueNext
  BY <1>0, <1>2, Reports DEF Report, QueueNext
<1>3. ASSUME NEW e \in Execs, Operate(e) PROVE Keeps /\ QueueNext
  BY <1>0, <1>3, Operations DEF Operate, QueueNext
<1>4. ASSUME NEW d \in Admins, NEW a \in Agents, Administer(d, a) PROVE UNCHANGED cvars
  BY <1>4 DEF Administer, SetDefinition, CheckDelete, RemoveDefinition
<1>5. ASSUME NEW a \in Agents, GoOffline(a) \/ DropDefinition(a) PROVE UNCHANGED cvars
  BY <1>5 DEF GoOffline, DropDefinition
<1>6. ASSUME NEW s \in Schedulers, View(s) \/ ScheduleFails(s) PROVE UNCHANGED cvars
  BY <1>6 DEF View, ScheduleFails
<1>7. ASSUME Restart PROVE UNCHANGED cvars
  BY <1>7 DEF Restart
<1> QED BY <1>1, <1>2, <1>3, <1>4, <1>5, <1>6, <1>7 DEF Next

\* A pass over a view that is as stale as can be is one of ControllerQueue's.
LEMMA ScheduleRefines ==
  ASSUME IInv, NEW s \in Schedulers, Schedule(s)
  PROVE  ScheduleOnce \/ UNCHANGED cvars
<1> DEFINE f == Pass(view[s])
<1>1. view[s] \in SUBSET Agents /\ last \in [Agents -> Nat] /\ ControllerTypeOK
  BY LastIsNat DEF Schedule, IInv, FleetTypeOK
<1>2. /\ status' = [e \in Execs |-> IF e \in Queued /\ f[e] # NoAgent THEN "ASSIGNED" ELSE status[e]]
      /\ owner' = [e \in Execs |-> IF e \in Queued /\ f[e] # NoAgent THEN f[e] ELSE owner[e]]
      /\ UNCHANGED <<permit, revoked, cancelReq, attention>>
  BY DEF Schedule
<1>3. f \in [Queued -> Agents \cup {NoAgent}]
  BY <1>1, PassFacts
<1>4. CASE Assigned(f) # {}
  <2>1. Assignment(view[s], f)  BY <1>1, <1>4, PassAssigns
  <2> HIDE DEF f
  <2> QED BY <1>1, <1>2, <1>3, <2>1 DEF ScheduleOnce
<1>5. CASE Assigned(f) = {}
  <2> HIDE DEF f
  <2>1. \A e \in Queued : f[e] = NoAgent  BY <1>3, <1>5 DEF Assigned
  <2>2. status' = status /\ owner' = owner  BY <1>1, <1>2, <2>1 DEF ControllerTypeOK
  <2> QED BY <1>2, <2>2 DEF cvars
<1> QED BY <1>4, <1>5

\* The scheduler, with its views from before the lock, implements the queue of
\* ControllerQueue whatever administrators do meanwhile.
THEOREM SchedulerImplementsQueue == Spec => QueueRefined
<1>1. Init => ControllerInit
  BY DEF Init
<1>2. IInv /\ [Next]_vars => [QueueNext]_cvars
  <2> SUFFICES ASSUME IInv, [Next]_vars PROVE [QueueNext]_cvars
    OBVIOUS
  <2>1. CASE UNCHANGED vars  BY <2>1 DEF vars
  <2>2. ASSUME NEW s \in Schedulers, Schedule(s) PROVE [QueueNext]_cvars
    BY <2>2, ScheduleRefines DEF QueueNext
  <2>3. CASE Next /\ ~ \E s \in Schedulers : Schedule(s)
    BY <2>3, OnlySchedule
  <2> QED BY <2>1, <2>2, <2>3
<1> QED BY <1>1, <1>2, Invariance, PTL DEF Spec, QueueRefined

\* No pass gives an agent to an execution over the head of an older one that the
\* agent could run.
THEOREM QueueOrder == Spec => OldestFirst
<1> DEFINE Order ==
      \A e, old \in Execs :
        status[e] = "QUEUED" /\ status'[e] = "ASSIGNED" /\ old \in Queued /\ old < e /\ status'[old] = "QUEUED"
          => owner'[e] \notin Matches[old]
<1>1. ASSUME IInv, [Next]_vars PROVE [Order]_vars
  <2>1. CASE UNCHANGED vars  BY <2>1
  <2>2. ASSUME NEW s \in Schedulers, Schedule(s) PROVE Order
    <3> DEFINE f == Pass(view[s])
    <3>1. view[s] \subseteq Agents /\ last \in [Agents -> Nat]
      BY <1>1, <2>2, LastIsNat DEF Schedule, IInv, FleetTypeOK
    <3>2. /\ status' = [e \in Execs |-> IF e \in Queued /\ f[e] # NoAgent THEN "ASSIGNED" ELSE status[e]]
          /\ owner' = [e \in Execs |-> IF e \in Queued /\ f[e] # NoAgent THEN f[e] ELSE owner[e]]
      BY <2>2 DEF Schedule
    <3>3. /\ \A e \in Queued : f[e] # NoAgent =>
               /\ f[e] \in view[s] \cap Matches[e] /\ ~Occupied(f[e])
               /\ \A x \in Before(e) : f[x] # f[e]
          /\ \A e \in Queued : f[e] = NoAgent =>
               \A a \in view[s] \cap Matches[e] : Occupied(a) \/ \E x \in Before(e) : f[x] = a
      BY <3>1, PassFacts
    <3> HIDE DEF f
    <3> SUFFICES ASSUME NEW e \in Execs, NEW old \in Execs, status[e] = "QUEUED", status'[e] = "ASSIGNED",
                        old \in Queued, old < e, status'[old] = "QUEUED"
                 PROVE  owner'[e] \notin Matches[old]
      OBVIOUS
    <3>4. e \in Queued /\ f[e] # NoAgent /\ owner'[e] = f[e] /\ f[old] = NoAgent
      BY <3>2
    <3>5. Before(old) \subseteq Before(e)
      <4>1. Queued \subseteq Nat /\ old \in Nat /\ e \in Nat  BY FleetAssumption DEF Queued
      <4>2. \A y \in Queued : y < old => y < e  BY <4>1
      <4> QED BY <4>2 DEF Before
    <3> QED BY <3>3, <3>4, <3>5
  <2>3. CASE Next /\ ~ \E s \in Schedulers : Schedule(s)
    <3>1. UNCHANGED cvars \/ Keeps  BY <1>1, <2>3, OnlySchedule
    <3> QED BY <3>1 DEF Keeps, cvars, Active
  <2> QED BY <1>1, <2>1, <2>2, <2>3
<1>2. IInv /\ [Next]_vars => [Order]_vars
  BY <1>1
<1>3. Spec => [][Order]_vars
  BY <1>2, Invariance, PTL DEF Spec
<1> QED BY <1>3 DEF OldestFirst
=============================================================================
