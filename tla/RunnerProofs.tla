---------------------------- MODULE RunnerProofs ----------------------------
(***************************************************************************)
(* What Runner promises, proved for every number of runs, every history    *)
(* cap and every number of faults.                                         *)
(*                                                                         *)
(* The slot (InvSlot) is the usual mutual exclusion argument.  That a run  *)
(* is launched once rests on the file: what is on disk is either what is   *)
(* in memory or known to be older (InvFile), and never ahead of it         *)
(* (InvBehind), so that a restart takes a run back to the queue only if it *)
(* never left it (InvLaunches).                                            *)
(***************************************************************************)
EXTENDS Runner, WellFoundedInduction, TLAPS

USE RunnerAssumption DEF Runs, NoRun

\* The goroutine of a run exists only while the server is up, and while the
\* run has the slot and is recorded as running.
InvSlot(r) == pc[r] # "none" => up /\ activeID = r /\ status[r] = "RUNNING"

\* Memory and file differ only after a write that failed; a server that ended
\* then has lost history.
InvFile == (dirty \/ saved = status) /\ (up \/ lossy \/ ~dirty)

\* A run that waits, or whose goroutine has not got to cmd.Start, was never
\* launched.
InvLaunches(r) ==
  lossy \/ /\ launches[r] <= 1
           /\ status[r] \in {"ABSENT", "QUEUED"} \/ pc[r] = "begin" => launches[r] = 0

\* The file is never ahead of the memory.
InvBehind(r) ==
  /\ status[r] = "ABSENT" => saved[r] = "ABSENT"
  /\ status[r] = "QUEUED" => saved[r] \in {"ABSENT", "QUEUED"}
  /\ status[r] = "RUNNING" => saved[r] \in {"ABSENT", "QUEUED", "RUNNING"}

IInv ==
  /\ TypeOK
  /\ InvFile
  /\ \A r \in Runs : InvSlot(r) /\ InvLaunches(r) /\ InvBehind(r)

-----------------------------------------------------------------------------
(* The operators.                                                          *)

\* saveLocked changes the statuses it is given only by dropping ended runs,
\* and afterwards file and memory agree unless the write failed.
LEMMA SaveLaw ==
  ASSUME TypeOK, NEW st \in [Runs -> Statuses], NEW c, SaveLocked(st, c)
  PROVE  /\ status' \in [Runs -> Statuses] /\ saved' \in [Runs -> Statuses]
         /\ faults' \in 0 .. MaxFaults /\ dirty' \in BOOLEAN
         /\ \A r \in Runs : status'[r] = st[r] \/ (st[r] \in Ends /\ status'[r] = "GONE")
         /\ saved' = status' \/ (dirty' /\ saved' = saved)
<1> DEFINE kept == [r \in Runs |-> IF r \in Pruned(st, c) THEN "GONE" ELSE st[r]]
<1>1. \A r \in Pruned(st, c) : r \in Runs /\ st[r] \in Ends
  BY DEF Pruned
<1>2. kept \in [Runs -> Statuses]
  BY DEF Statuses
<1>3. \A r \in Runs : kept[r] = st[r] \/ (st[r] \in Ends /\ kept[r] = "GONE")
  BY <1>1
<1>4. /\ status' = kept
      /\ \/ saved' = kept /\ dirty' = FALSE /\ UNCHANGED faults
         \/ faults < MaxFaults /\ faults' = faults + 1 /\ dirty' = TRUE /\ UNCHANGED saved
  BY DEF SaveLocked
<1> HIDE DEF kept
<1>5. /\ status' \in [Runs -> Statuses] /\ saved' \in [Runs -> Statuses]
      /\ \A r \in Runs : status'[r] = st[r] \/ (st[r] \in Ends /\ status'[r] = "GONE")
  BY <1>2, <1>3, <1>4 DEF TypeOK
<1>6. faults' \in 0 .. MaxFaults
  BY <1>4 DEF TypeOK
<1>7. dirty' \in BOOLEAN /\ (saved' = status' \/ (dirty' /\ saved' = saved))
  BY <1>4
<1> QED BY <1>5, <1>6, <1>7

\* A queue that is not empty has a first run, and it is the one dispatchLocked
\* finds.
LEMMA FirstQueued ==
  ASSUME NEW Q, Q \subseteq Runs, Q # {}
  PROVE  LET next == CHOOSE r \in Q : \A q \in Q : r <= q
         IN  next \in Q /\ \A q \in Q : next <= q
<1> DEFINE Less == OpToRel(<, Nat)
<1>1. IsWellFoundedOn(Less, Nat)
  BY NatLessThanWellFounded, Zenon
<1>2. \A q, r \in Nat : q < r => <<q, r>> \in Less
  BY DEF OpToRel
<1> HIDE DEF Less
<1>3. PICK r \in Q : \A q \in Q : ~(<<q, r>> \in Less)
  BY <1>1, WFMin, Q \subseteq Nat, Zenon
<1>4. ASSUME NEW q \in Q PROVE r <= q
  <2>1. ~(q < r)  BY <1>2, <1>3, q \in Nat, r \in Nat, Zenon
  <2> QED BY <2>1
<1> QED BY <1>4

-----------------------------------------------------------------------------
(* The invariant is inductive.                                             *)

\* What an operation of a running server may do to run r before it calls
\* saveLocked on st: a run moves on from the queue and never back to it, and
\* whoever has a goroutine afterwards has the slot and runs.
Lawful(r, st) ==
  /\ st[r] = "ABSENT" => status[r] = "ABSENT"
  /\ st[r] = "QUEUED" => status[r] \in {"ABSENT", "QUEUED"}
  /\ st[r] = "RUNNING" => status[r] \in {"QUEUED", "RUNNING"}
  /\ pc'[r] # "none" => activeID' = r /\ st[r] = "RUNNING"
  /\ pc'[r] = "begin" => pc[r] = "begin" \/ status[r] = "QUEUED"

\* The operations that end in saveLocked.
LEMMA SaveStep ==
  ASSUME IInv, up, NEW st \in [Runs -> Statuses], NEW c, SaveLocked(st, c),
         \A r \in Runs : Lawful(r, st), UNCHANGED <<launches, server>>,
         /\ canceledAt' \in [Runs -> BOOLEAN] /\ activeID' \in Runs \cup {NoRun}
         /\ cap' \in Caps /\ dispatching' \in BOOLEAN
         /\ pc' \in [Runs -> {"none", "begin", "watch"}]
         /\ ctx' \in [Runs -> {"live", "canceled", "deadline"}]
         /\ proc' \in [Runs -> {"none", "running", "ok", "failed"}]
  PROVE  IInv'
<1> USE DEF server
<1>0. TypeOK  BY DEF IInv
<1>1. /\ status' \in [Runs -> Statuses] /\ saved' \in [Runs -> Statuses]
      /\ faults' \in 0 .. MaxFaults /\ dirty' \in BOOLEAN
      /\ \A r \in Runs : status'[r] = st[r] \/ (st[r] \in Ends /\ status'[r] = "GONE")
      /\ saved' = status' \/ (dirty' /\ saved' = saved)
  BY <1>0, SaveLaw
<1>2. TypeOK'
  BY <1>0, <1>1 DEF TypeOK
<1>3. InvFile'
  BY <1>1 DEF InvFile
<1>4. ASSUME NEW r \in Runs PROVE InvSlot(r)' /\ InvLaunches(r)' /\ InvBehind(r)'
  <2>1. InvSlot(r) /\ InvLaunches(r) /\ InvBehind(r) /\ Lawful(r, st)
    BY DEF IInv
  <2>2. \/ status'[r] = st[r] /\ st[r] \in Statuses
        \/ st[r] \in Ends /\ status'[r] = "GONE"
    BY <1>1
  <2>3. InvSlot(r)'
    BY <2>1, <2>2 DEF InvSlot, Lawful, Ends
  <2>4. InvLaunches(r)'
    BY <2>1, <2>2 DEF InvLaunches, InvSlot, Lawful, Ends
  <2>5. InvBehind(r)'
    BY <1>1, <2>1, <2>2 DEF InvBehind, Lawful, Ends
  <2> QED BY <2>3, <2>4, <2>5
<1> QED BY <1>2, <1>3, <1>4 DEF IInv

LEMMA StartStep == ASSUME IInv, NEW r \in Runs, Start(r) PROVE IInv'
<1> DEFINE st == [status EXCEPT ![r] = "QUEUED"]
<1> USE DEF host, server
<1>1. TypeOK /\ \A q \in Runs : InvSlot(q)  BY DEF IInv
<1>2. st \in [Runs -> Statuses]  BY <1>1 DEF TypeOK, Statuses
<1>3. SaveLocked(st, cap) /\ up  BY DEF Start, Locked
<1>4. \A q \in Runs : Lawful(q, st)
  BY <1>1 DEF Start, Lawful, InvSlot, TypeOK
<1> HIDE DEF st
<1> QED BY <1>1, <1>2, <1>3, <1>4, SaveStep DEF Start, TypeOK

LEMMA CancelStep == ASSUME IInv, NEW r \in Runs, Cancel(r) PROVE IInv'
<1> DEFINE st == [status EXCEPT ![r] = IF @ = "QUEUED" THEN "CANCELED" ELSE @]
<1> USE DEF host, server
<1>1. TypeOK /\ \A q \in Runs : InvSlot(q)  BY DEF IInv
<1>2. st \in [Runs -> Statuses]  BY <1>1 DEF TypeOK, Statuses, Ends
<1>3. SaveLocked(st, cap) /\ up  BY DEF Cancel, Locked
<1>4. \A q \in Runs : Lawful(q, st)
  BY <1>1 DEF Cancel, Lawful, InvSlot, TypeOK
<1> HIDE DEF st
<1> QED BY <1>1, <1>2, <1>3, <1>4, SaveStep DEF Cancel, TypeOK

LEMMA DeleteStep == ASSUME IInv, NEW r \in Runs, Delete(r) PROVE IInv'
<1> DEFINE st == [status EXCEPT ![r] = "GONE"]
<1> USE DEF host, server
<1>1. TypeOK /\ \A q \in Runs : InvSlot(q)  BY DEF IInv
<1>2. st \in [Runs -> Statuses]  BY <1>1 DEF TypeOK, Statuses
<1>3. SaveLocked(st, cap) /\ up  BY DEF Delete, Locked
<1>4. \A q \in Runs : Lawful(q, st)
  BY <1>1 DEF Delete, Lawful, InvSlot, TypeOK, Ends
<1> HIDE DEF st
<1> QED BY <1>1, <1>2, <1>3, <1>4, SaveStep DEF Delete, TypeOK

LEMMA SetMaxHistoryStep == ASSUME IInv, NEW c \in Caps, SetMaxHistory(c) PROVE IInv'
<1> USE DEF host, server
<1>1. TypeOK /\ \A q \in Runs : InvSlot(q)  BY DEF IInv
<1>2. SaveLocked(status, c) /\ up  BY DEF SetMaxHistory, Locked
<1>3. \A q \in Runs : Lawful(q, status)
  BY <1>1 DEF SetMaxHistory, Lawful, InvSlot, TypeOK
<1> QED BY <1>1, <1>2, <1>3, SaveStep DEF SetMaxHistory, TypeOK

\* finish, which both ends of the goroutine call.
LEMMA FinishStep ==
  ASSUME IInv, NEW r \in Runs, Locked, pc[r] # "none",
         NEW canceled \in BOOLEAN, NEW ok \in BOOLEAN, Finish(r, canceled, ok)
  PROVE  IInv'
<1> DEFINE st == [status EXCEPT ![r] = Outcome(r, canceled, ok)]
<1> USE DEF memory, server, file
<1>1. TypeOK /\ \A q \in Runs : InvSlot(q)  BY DEF IInv
<1>2. Outcome(r, canceled, ok) \in Ends  BY DEF Outcome, Ends
<1>3. st \in [Runs -> Statuses]  BY <1>1, <1>2 DEF TypeOK, Statuses
<1>4. up /\ status[r] # "GONE" /\ activeID = r  BY <1>1 DEF InvSlot, Locked
<1>5. SaveLocked(st, cap)  BY <1>4 DEF Finish
<1>6. \A q \in Runs : Lawful(q, st)
  BY <1>1, <1>2, <1>4 DEF Finish, Lawful, InvSlot, TypeOK, Ends
<1> HIDE DEF st
<1>7. /\ canceledAt' \in [Runs -> BOOLEAN] /\ activeID' \in Runs \cup {NoRun}
      /\ cap' \in Caps /\ dispatching' \in BOOLEAN
  BY <1>1, <1>4 DEF Finish, TypeOK
<1>8. /\ pc' \in [Runs -> {"none", "begin", "watch"}]
      /\ ctx' \in [Runs -> {"live", "canceled", "deadline"}]
      /\ proc' \in [Runs -> {"none", "running", "ok", "failed"}]
      /\ UNCHANGED <<launches, server>>
  BY <1>1 DEF Finish, TypeOK
<1> QED BY <1>3, <1>4, <1>5, <1>6, <1>7, <1>8, SaveStep

LEMMA DispatchStep == ASSUME IInv, Dispatch PROVE IInv'
<1> DEFINE queued == {r \in Runs : status[r] = "QUEUED"}
           next == CHOOSE r \in queued : \A q \in queued : r <= q
           st == [status EXCEPT ![next] = "RUNNING"]
<1> USE DEF host, server, file
<1>1. TypeOK /\ \A q \in Runs : InvSlot(q)  BY DEF IInv
<1>2. CASE activeID # NoRun \/ queued = {}
  <2>1. UNCHANGED <<status, file, activeID, host, canceledAt, cap, server>> /\ dispatching' = FALSE
    BY <1>2 DEF Dispatch
  <2> QED BY <2>1 DEF IInv, TypeOK, InvFile, InvSlot, InvLaunches, InvBehind
<1>3. CASE ~(activeID # NoRun \/ queued = {})
  <2>1. next \in queued
    BY <1>3, FirstQueued, queued \subseteq Runs
  <2> HIDE DEF next
  <2>2. /\ up /\ SaveLocked(st, cap) /\ activeID' = next /\ dispatching' = FALSE
        /\ pc' = [pc EXCEPT ![next] = "begin"]
        /\ UNCHANGED <<ctx, proc, launches, canceledAt, cap, server>>
    BY <1>3 DEF Dispatch, next
  <2>3. next \in Runs /\ status[next] = "QUEUED"  BY <2>1
  <2>4. st \in [Runs -> Statuses]  BY <1>1, <2>3 DEF TypeOK, Statuses
  <2>5. \A q \in Runs : pc[q] = "none"  BY <1>1, <1>3 DEF InvSlot
  <2>6. \A q \in Runs : Lawful(q, st)
    BY <1>1, <2>2, <2>3, <2>5 DEF Lawful, TypeOK
  <2> HIDE DEF st
  <2> QED BY <1>1, <2>2, <2>3, <2>4, <2>6, SaveStep DEF TypeOK
<1> QED BY <1>2, <1>3

\* The steps of goroutines and scripts that leave memory and file alone.
LEMMA HostStep ==
  ASSUME IInv, NEW r \in Runs,
         CancelContext(r) \/ Launch(r) \/ Kill(r) \/ Timeout(r) \/ Exit(r)
  PROVE  IInv'
<1> USE DEF memory, file, server
<1>0. UNCHANGED <<memory, file, server>>
  BY DEF CancelContext, Launch, Kill, Timeout, Exit
<1>1. /\ pc' \in [Runs -> {"none", "begin", "watch"}]
      /\ ctx' \in [Runs -> {"live", "canceled", "deadline"}]
      /\ proc' \in [Runs -> {"none", "running", "ok", "failed"}]
      /\ launches' \in [Runs -> Nat]
  <2>1. /\ pc \in [Runs -> {"none", "begin", "watch"}]
        /\ ctx \in [Runs -> {"live", "canceled", "deadline"}]
        /\ proc \in [Runs -> {"none", "running", "ok", "failed"}]
        /\ launches \in [Runs -> Nat]
    BY DEF IInv, TypeOK
  <2>2. CASE CancelContext(r) \/ Timeout(r)  BY <2>1, <2>2 DEF CancelContext, Timeout
  <2>3. CASE Launch(r)
    <3>1. launches' \in [Runs -> Nat]  BY <2>1, <2>3 DEF Launch
    <3>2. /\ pc' \in [Runs -> {"none", "begin", "watch"}]
          /\ proc' \in [Runs -> {"none", "running", "ok", "failed"}]
      BY <2>1, <2>3 DEF Launch
    <3> QED BY <2>1, <2>3, <3>1, <3>2 DEF Launch
  <2>4. CASE Kill(r)    BY <2>1, <2>4 DEF Kill
  <2>5. CASE Exit(r)
    <3>1. PICK s \in {"ok", "failed", "none"} : proc' = [proc EXCEPT ![r] = s]
      BY <2>5 DEF Exit
    <3> QED BY <2>1, <2>5, <3>1 DEF Exit
  <2> QED BY <2>2, <2>3, <2>4, <2>5
<1>2. TypeOK' /\ InvFile'
  BY <1>0, <1>1 DEF IInv, TypeOK, InvFile
<1>3. \A q \in Runs :
        \/ pc'[q] = pc[q] /\ launches'[q] = launches[q]
        \/ pc[q] = "begin" /\ pc'[q] = "watch" /\ launches'[q] = launches[q] + 1
  BY DEF IInv, TypeOK, CancelContext, Launch, Kill, Timeout, Exit
<1>4. ASSUME NEW q \in Runs PROVE InvSlot(q)' /\ InvLaunches(q)' /\ InvBehind(q)'
  <2>1. InvSlot(q) /\ InvLaunches(q) /\ InvBehind(q)  BY DEF IInv
  <2> QED BY <1>0, <1>3, <2>1 DEF InvSlot, InvLaunches, InvBehind
<1> QED BY <1>2, <1>4 DEF IInv

LEMMA CrashStep == ASSUME IInv, Crash PROVE IInv'
<1> USE DEF memory
<1>1. TypeOK'
  <2>1. lossy' \in BOOLEAN  BY DEF Crash
  <2>2. proc' \in [Runs -> {"none", "running", "ok", "failed"}]  BY DEF Crash
  <2>3. faults' \in 0 .. MaxFaults  BY DEF IInv, TypeOK, Crash
  <2>4. /\ pc' \in [Runs -> {"none", "begin", "watch"}]
        /\ ctx' \in [Runs -> {"live", "canceled", "deadline"}] /\ up' \in BOOLEAN
    BY DEF Crash
  <2> QED BY <2>1, <2>2, <2>3, <2>4 DEF IInv, TypeOK, Crash
<1>2. InvFile'
  BY DEF IInv, InvFile, Crash
<1>3. \A r \in Runs : InvSlot(r)' /\ InvLaunches(r)' /\ InvBehind(r)'
  BY DEF IInv, InvSlot, InvLaunches, InvBehind, Crash
<1> QED BY <1>1, <1>2, <1>3 DEF IInv

\* What loadState makes of run r: it is put back in the queue only if the file
\* says so, and no run is running.
LEMMA LoadedLaw ==
  ASSUME TypeOK, NEW r \in Runs
  PROVE  /\ Loaded(r) \in Statuses \ {"RUNNING"}
         /\ Loaded(r) = "ABSENT" => status[r] = "ABSENT" /\ saved[r] = "ABSENT"
         /\ Loaded(r) = "QUEUED" => saved[r] = "QUEUED"
         /\ Loaded(r) \in Ends => saved[r] \in {Loaded(r), "RUNNING"}
         /\ saved[r] \in Ends => Loaded(r) = saved[r]
<1>1. saved[r] \in Statuses  BY DEF TypeOK
<1> QED BY <1>1 DEF Loaded, Statuses, Ends

LEMMA RestartStep == ASSUME IInv, Restart PROVE IInv'
<1> DEFINE st == [r \in Runs |-> Loaded(r)]
<1> USE DEF host
<1>1. /\ TypeOK /\ InvFile
      /\ \A r \in Runs : InvSlot(r) /\ InvLaunches(r) /\ InvBehind(r)
  BY DEF IInv
<1>2. \A r \in Runs : pc[r] = "none"
  BY <1>1 DEF Restart, InvSlot
<1>3. /\ canceledAt' \in [Runs -> BOOLEAN] /\ activeID' \in Runs \cup {NoRun}
      /\ cap' \in Caps /\ dispatching' \in BOOLEAN /\ up' \in BOOLEAN /\ UNCHANGED host /\ up'
  BY <1>1 DEF Restart, TypeOK
<1>4. CASE SaveLocked(st, cap') /\ UNCHANGED lossy
  <2>1. st \in [Runs -> Statuses] /\ \A r \in Runs : st[r] = Loaded(r)
    BY <1>1, LoadedLaw
  <2> HIDE DEF st
  <2>2. /\ status' \in [Runs -> Statuses] /\ saved' \in [Runs -> Statuses]
        /\ faults' \in 0 .. MaxFaults /\ dirty' \in BOOLEAN
        /\ \A r \in Runs : status'[r] = st[r] \/ (st[r] \in Ends /\ status'[r] = "GONE")
        /\ saved' = status' \/ (dirty' /\ saved' = saved)
    BY <1>1, <1>4, <2>1, SaveLaw
  <2>3. TypeOK' /\ InvFile'
    BY <1>1, <1>3, <1>4, <2>2 DEF TypeOK, InvFile
  <2>4. ASSUME NEW r \in Runs PROVE InvSlot(r)' /\ InvLaunches(r)' /\ InvBehind(r)'
    <3>1. status'[r] = Loaded(r) \/ (Loaded(r) \in Ends /\ status'[r] = "GONE")
      BY <2>1, <2>2
    <3>2. InvSlot(r)'  BY <1>2, <1>3 DEF InvSlot
    <3>3. lossy \/ saved[r] = status[r]  BY <1>1 DEF InvFile, Restart
    <3>4. InvLaunches(r)'
      BY <1>1, <1>2, <1>3, <1>4, <3>1, <3>3, LoadedLaw DEF InvLaunches
    <3>5. InvBehind(r)'
      BY <1>1, <2>2, <3>1, LoadedLaw DEF InvBehind, Ends
    <3> QED BY <3>2, <3>4, <3>5
  <2> QED BY <2>3, <2>4 DEF IInv
<1>5. CASE /\ status' = [r \in Runs |-> IF status[r] = "ABSENT" THEN "ABSENT" ELSE "GONE"]
           /\ faults < MaxFaults /\ faults' = faults + 1 /\ dirty' = TRUE /\ lossy' = TRUE
           /\ UNCHANGED saved
  <2>1. TypeOK'
    BY <1>1, <1>3, <1>5 DEF TypeOK, Statuses
  <2>2. InvFile'
    BY <1>3, <1>5 DEF InvFile
  <2>3. \A r \in Runs : InvSlot(r)' /\ InvLaunches(r)' /\ InvBehind(r)'
    BY <1>1, <1>2, <1>3, <1>5 DEF InvSlot, InvLaunches, InvBehind
  <2> QED BY <2>1, <2>2, <2>3 DEF IInv
<1> QED BY <1>4, <1>5 DEF Restart

\* Every step preserves the invariant.
LEMMA NextStep == ASSUME IInv, [Next]_vars PROVE IInv'
<1>1. ASSUME NEW r \in Runs, Prepare(r) PROVE IInv'
  <2>1. Locked /\ pc[r] # "none"  BY <1>1 DEF Prepare
  <2>2. \E canceled \in BOOLEAN : Finish(r, canceled, FALSE)  BY <1>1 DEF Prepare
  <2> QED BY <2>1, <2>2, FinishStep
<1>2. ASSUME NEW r \in Runs, Reap(r) PROVE IInv'
  <2>1. Locked /\ pc[r] # "none" /\ Finish(r, ctx[r] # "live", proc[r] = "ok")  BY <1>2 DEF Reap
  <2> QED BY <2>1, FinishStep, (ctx[r] # "live") \in BOOLEAN, (proc[r] = "ok") \in BOOLEAN, Zenon
<1>3. ASSUME UNCHANGED vars PROVE IInv'
  BY <1>3 DEF IInv, TypeOK, InvFile, InvSlot, InvLaunches, InvBehind, vars, memory, file, host, server
<1> QED
  BY <1>1, <1>2, <1>3, StartStep, CancelStep, DeleteStep, SetMaxHistoryStep, DispatchStep,
     HostStep, CrashStep, RestartStep
  DEF Next, Execute

LEMMA InitStep == Init => IInv
<1> SUFFICES ASSUME Init PROVE IInv  OBVIOUS
<1>1. TypeOK
  <2>1. faults \in 0 .. MaxFaults  BY DEF Init
  <2>2. /\ status \in [Runs -> Statuses] /\ saved \in [Runs -> Statuses]
        /\ launches \in [Runs -> Nat]
    BY DEF Init, Statuses
  <2> QED BY <2>1, <2>2 DEF Init, TypeOK
<1> QED BY <1>1 DEF Init, IInv, InvFile, InvSlot, InvLaunches, InvBehind

LEMMA Inductive == Spec => []IInv
<1> QED BY InitStep, NextStep, PTL DEF Spec

-----------------------------------------------------------------------------
(* The properties.                                                         *)

\* "Queues one run at a time": at most one execute goroutine exists, and its run
\* holds the slot until its process is over.
THEOREM OneRunAtATime == Spec => []Inv
<1>1. IInv => Inv  BY DEF IInv, Inv, InvSlot
<1> QED BY <1>1, Inductive, PTL

\* A run is executed at most once, however often the server ends and writes of
\* runs.json fail, as long as the server does not end while the file is older
\* than its memory.
THEOREM NoRunTwice == Spec => []RunsAtMostOnce
<1>1. IInv => RunsAtMostOnce  BY DEF IInv, RunsAtMostOnce, InvLaunches
<1> QED BY <1>1, Inductive, PTL

\* What a step may do to the status of a run.
Moves(r) ==
  \/ status'[r] = status[r]
  \/ status[r] \in Ends /\ status'[r] = "GONE"
  \/ status[r] = "ABSENT" /\ status'[r] = "QUEUED"
  \/ status[r] = "QUEUED" /\ status'[r] \in {"CANCELED", "GONE"}
  \/ /\ status[r] = "QUEUED" /\ status'[r] = "RUNNING"
     /\ \A q \in Runs : status[q] = "QUEUED" => r <= q
  \/ /\ status[r] = "RUNNING" /\ status'[r] \in Ends \cup {"GONE"}
     /\ canceledAt[r] => status'[r] \in {"CANCELED", "GONE"}
  \/ Restart /\ status'[r] \in {Loaded(r), "GONE"}

LEMMA FinishMoves ==
  ASSUME IInv, NEW r \in Runs, NEW q \in Runs, pc[q] # "none",
         NEW canceled, NEW ok, Finish(q, canceled, ok)
  PROVE  Moves(r)
<1> DEFINE end == Outcome(q, canceled, ok)
           st == [status EXCEPT ![q] = end]
<1>1. TypeOK /\ status[q] = "RUNNING"  BY DEF IInv, InvSlot
<1>2. end \in Ends /\ (canceledAt[q] => end = "CANCELED")  BY DEF Outcome, Ends
<1>3. st \in [Runs -> Statuses]  BY <1>1, <1>2 DEF TypeOK, Statuses
<1>4. SaveLocked(st, cap)  BY <1>1 DEF Finish
<1> HIDE DEF end
<1>5. st[r] = IF r = q THEN end ELSE status[r]  BY <1>1 DEF TypeOK
<1> HIDE DEF st
<1>6. status'[r] = st[r] \/ (st[r] \in Ends /\ status'[r] = "GONE")
  BY <1>1, <1>3, <1>4, SaveLaw
<1> QED BY <1>1, <1>2, <1>5, <1>6 DEF Moves, Ends

LEMMA DispatchMoves == ASSUME IInv, NEW r \in Runs, Dispatch PROVE Moves(r)
<1> DEFINE queued == {q \in Runs : status[q] = "QUEUED"}
           next == CHOOSE q \in queued : \A p \in queued : q <= p
           st == [status EXCEPT ![next] = "RUNNING"]
<1>1. TypeOK  BY DEF IInv
<1>2. CASE activeID # NoRun \/ queued = {}
  BY <1>2 DEF Dispatch, Moves
<1>3. CASE ~(activeID # NoRun \/ queued = {})
  <2>1. next \in queued /\ \A q \in queued : next <= q
    BY <1>3, FirstQueued, queued \subseteq Runs
  <2>2. SaveLocked(st, cap)  BY <1>3 DEF Dispatch
  <2> HIDE DEF next
  <2>3. st \in [Runs -> Statuses] /\ st[r] = IF r = next THEN "RUNNING" ELSE status[r]
    BY <1>1, <2>1 DEF TypeOK, Statuses
  <2> HIDE DEF st
  <2>4. status'[r] = st[r] \/ (st[r] \in Ends /\ status'[r] = "GONE")
    BY <1>1, <2>2, <2>3, SaveLaw
  <2> QED BY <2>1, <2>3, <2>4 DEF Moves, Ends
<1> QED BY <1>2, <1>3

LEMMA RestartMoves == ASSUME IInv, NEW r \in Runs, Restart PROVE Moves(r)
<1> DEFINE st == [q \in Runs |-> Loaded(q)]
<1>1. TypeOK  BY DEF IInv
<1>2. CASE SaveLocked(st, cap')
  <2>1. st \in [Runs -> Statuses] /\ st[r] = Loaded(r)  BY <1>1, LoadedLaw
  <2> HIDE DEF st
  <2> QED BY <1>1, <1>2, <2>1, SaveLaw DEF Moves
<1>3. CASE status' = [q \in Runs |-> IF status[q] = "ABSENT" THEN "ABSENT" ELSE "GONE"]
  BY <1>3 DEF Moves
<1> QED BY <1>2, <1>3 DEF Restart

LEMMA NextMoves == ASSUME IInv, [Next]_vars, NEW r \in Runs PROVE Moves(r)
<1> USE DEF memory, host, server, file
<1>1. TypeOK  BY DEF IInv
<1>2. ASSUME NEW q \in Runs, Start(q) PROVE Moves(r)
  <2> DEFINE st == [status EXCEPT ![q] = "QUEUED"]
  <2>1. st \in [Runs -> Statuses] /\ st[r] = IF r = q THEN "QUEUED" ELSE status[r]
    BY <1>1 DEF TypeOK, Statuses
  <2>2. SaveLocked(st, cap) /\ status[q] = "ABSENT"  BY <1>2 DEF Start
  <2> HIDE DEF st
  <2>3. status'[r] = st[r] \/ (st[r] \in Ends /\ status'[r] = "GONE")
    BY <1>1, <2>1, <2>2, SaveLaw
  <2> QED BY <2>1, <2>2, <2>3 DEF Moves, Ends
<1>3. ASSUME NEW q \in Runs, Cancel(q) PROVE Moves(r)
  <2> DEFINE st == [status EXCEPT ![q] = IF @ = "QUEUED" THEN "CANCELED" ELSE @]
  <2>1. st \in [Runs -> Statuses] /\ st[r] \in {status[r], "CANCELED"}
        /\ (st[r] # status[r] => status[r] = "QUEUED")
    BY <1>1 DEF TypeOK, Statuses, Ends
  <2>2. SaveLocked(st, cap)  BY <1>3 DEF Cancel
  <2> HIDE DEF st
  <2>3. status'[r] = st[r] \/ (st[r] \in Ends /\ status'[r] = "GONE")
    BY <1>1, <2>1, <2>2, SaveLaw
  <2> QED BY <2>1, <2>3 DEF Moves
<1>4. ASSUME NEW q \in Runs, Delete(q) PROVE Moves(r)
  <2> DEFINE st == [status EXCEPT ![q] = "GONE"]
  <2>1. st \in [Runs -> Statuses] /\ st[r] = IF r = q THEN "GONE" ELSE status[r]
    BY <1>1 DEF TypeOK, Statuses
  <2>2. SaveLocked(st, cap) /\ status[q] \in Ends  BY <1>4 DEF Delete
  <2> HIDE DEF st
  <2>3. status'[r] = st[r] \/ (st[r] \in Ends /\ status'[r] = "GONE")
    BY <1>1, <2>1, <2>2, SaveLaw
  <2> QED BY <2>1, <2>2, <2>3 DEF Moves, Ends
<1>5. ASSUME NEW c \in Caps, SetMaxHistory(c) PROVE Moves(r)
  BY <1>1, <1>5, SaveLaw DEF SetMaxHistory, Moves, TypeOK
<1>6. ASSUME NEW q \in Runs, Prepare(q) \/ Reap(q) PROVE Moves(r)
  <2>1. pc[q] # "none" /\ \E canceled, ok : Finish(q, canceled, ok)
    BY <1>6 DEF Prepare, Reap
  <2> QED BY <2>1, FinishMoves
<1>7. ASSUME UNCHANGED status PROVE Moves(r)
  BY <1>7 DEF Moves
<1> QED
  BY <1>2, <1>3, <1>4, <1>5, <1>6, <1>7, DispatchMoves, RestartMoves
  DEF Next, Execute, CancelContext, Launch, Kill, Timeout, Exit, Crash, vars

\* A run that is over keeps its end until it leaves the history, across restarts
\* too, unless the server ended while the file was behind.
THEOREM EndsStay == Spec => EndIsFinal
<1>1. ASSUME IInv, [Next]_vars
      PROVE  lossy' \/ \A r \in Runs : status[r] \in Ends => status'[r] \in {status[r], "GONE"}
  <2> SUFFICES ASSUME ~lossy', NEW r \in Runs, status[r] \in Ends
               PROVE  status'[r] \in {status[r], "GONE"}
    OBVIOUS
  <2>1. Moves(r) /\ TypeOK /\ InvFile  BY <1>1, NextMoves DEF IInv
  <2>2. Restart => saved = status  BY <2>1 DEF Restart, InvFile
  <2> QED BY <2>1, <2>2, LoadedLaw DEF Moves, Ends
<1> QED BY <1>1, Inductive, PTL DEF Spec, EndIsFinal

\* A run whose cancellation was acknowledged is never recorded as succeeded or
\* failed, not by a script that ends first and not by a restart.
THEOREM CancellationWins == Spec => CancelWins
<1>1. ASSUME IInv, [Next]_vars
      PROVE  \A r \in Runs : status[r] = "RUNNING" /\ canceledAt[r] =>
               status'[r] \notin {"SUCCESS", "FAILED"}
  <2> SUFFICES ASSUME NEW r \in Runs, status[r] = "RUNNING", canceledAt[r]
               PROVE  status'[r] \notin {"SUCCESS", "FAILED"}
    OBVIOUS
  <2>1. Moves(r) /\ InvBehind(r)  BY <1>1, NextMoves DEF IInv
  <2>2. Loaded(r) \in {"ABORTED", "GONE", "QUEUED"}  BY <2>1 DEF InvBehind, Loaded
  <2> QED BY <2>1, <2>2 DEF Moves, Ends
<1> QED BY <1>1, Inductive, PTL DEF Spec, CancelWins

\* A run does not overtake one that was requested before.
THEOREM FirstComeFirstServed == Spec => InOrder
<1>1. ASSUME IInv, [Next]_vars
      PROVE  \A r, q \in Runs : q < r /\ status[q] = "QUEUED" =>
               ~(status[r] = "QUEUED" /\ status'[r] = "RUNNING")
  <2> SUFFICES ASSUME NEW r \in Runs, NEW q \in Runs, q < r, status[q] = "QUEUED",
                      status[r] = "QUEUED", status'[r] = "RUNNING"
               PROVE  FALSE
    OBVIOUS
  <2>1. Moves(r) /\ TypeOK  BY <1>1, NextMoves DEF IInv
  <2>2. Loaded(r) # "RUNNING"  BY <2>1, LoadedLaw
  <2> QED BY <2>1, <2>2 DEF Moves, Ends
<1> QED BY <1>1, Inductive, PTL DEF Spec, InOrder
=============================================================================
