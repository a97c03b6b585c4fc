---------------------------- MODULE ImportProofs ----------------------------
(***************************************************************************)
(* The store keeps what it has shown, whoever writes it and wherever that  *)
(* stops; and imports, however often repeated, import nothing twice and    *)
(* cost the controller nothing of its own.  For any number of executions,  *)
(* clients and legacy runs.                                                *)
(*                                                                         *)
(* The invariant says what a transaction under way may still do (InvTxn),  *)
(* that an import has the store for itself until its snapshot is written   *)
(* (InvImport), and where an origin is recorded at each moment: in the     *)
(* written ledger or with a run that is on disk, and in memory whenever    *)
(* the next plan may look there (InvLedger).                               *)
(***************************************************************************)
EXTENDS Import, FiniteSetTheorems, TLAPS

Apart(s) == s.live \cap s.done = {}

\* What a transaction may make of the memory: nothing finished becomes live,
\* only what it deletes is missing, and everything listed has its log.
Sound(list, deleted) ==
  /\ Apart(list)
  /\ list.live \cap mem.done = {}
  /\ IDs(mem) \ deleted \subseteq IDs(list) /\ deleted \cap IDs(list) = {}
  /\ \A e \in IDs(list) : logs[e] # "removed"

InvStore == Apart(disk) /\ Apart(mem) /\ ShownIsDurable /\ OnlyEndedLeave /\ ListedHasLog

InvTxn ==
  txn # NoTxn =>
    /\ Sound(txn.list, txn.deleted)
    /\ txn.stage = "written" => disk = Snapshot

\* The IDs that an import has chosen.
Fresh == {plan[l] : l \in DOMAIN plan}

InvPlan ==
  /\ \A l, m \in DOMAIN plan : plan[l] = plan[m] => l = m
  /\ DOMAIN plan \cap ledger.mem = {}
  /\ proc \notin {"copy", "commit"} => DOMAIN plan = {}
  /\ \A e \in Fresh : logs[e] # "removed"

\* An import has the store and has not written it yet.
Unwritten == proc \in {"plan", "copy"} \/ (proc = "commit" /\ ~Holding("written"))

InvImport ==
  /\ proc \in {"plan", "copy", "over"} => txn = NoTxn
  /\ Unwritten => mem = disk /\ Fresh \cap IDs(mem) = {}
  /\ proc = "commit" /\ txn # NoTxn =>
       /\ txn.deleted = {} /\ Prune(txn.list) = {}
       /\ txn.stage = "written" => \A e \in Fresh : origin[e] # NoLegacy

Recorded(where) == \A e \in Execs : origin[e] # NoLegacy => origin[e] \in where

InvLedger ==
  /\ ImportedOnce
  /\ Recorded(Load(ledger.disk, disk, origin))
  /\ proc = "server" \/ Unwritten => Recorded(ledger.mem)

IInv == ImportTypeOK /\ InvStore /\ InvTxn /\ InvPlan /\ InvImport /\ InvLedger

-----------------------------------------------------------------------------
(* Operators.                                                              *)

LEMMA FiniteExecs == \A S \in SUBSET Execs : IsFiniteSet(S)
<1>1. IsFiniteSet(Execs)  BY FS_Interval, HistoryAssumption DEF Execs
<1> QED BY <1>1, FS_Subset

\* The snapshot of a transaction lacks what is pruned, and only what was over is.
LEMMA SnapshotLaw ==
  ASSUME txn.list \in Snapshots
  PROVE  /\ Prune(txn.list) \subseteq txn.list.done
         /\ Snapshot \in Snapshots
         /\ Snapshot.live = txn.list.live \ Prune(txn.list) /\ Snapshot.done = txn.list.done \ Prune(txn.list)
         /\ IDs(Snapshot) = IDs(txn.list) \ Prune(txn.list)
BY DEF Prune, Snapshot, Without, Snapshots, IDs

\* A history within its cap is left alone.
LEMMA NothingToPrune ==
  ASSUME NEW s \in Snapshots, cap \in Nat, Cardinality(s.done) <= cap
  PROVE  Prune(s) = {}
<1> SUFFICES ASSUME NEW e \in s.done, Cardinality({x \in s.done : x <= e}) + cap <= Cardinality(s.done)
             PROVE  FALSE
  BY DEF Prune
<1> DEFINE upTo == {x \in s.done : x <= e}
<1>1. s.done \subseteq Execs /\ upTo \subseteq Execs /\ e \in upTo
  BY DEF Snapshots, Execs
<1> HIDE DEF upTo
<1>2. IsFiniteSet(s.done) /\ IsFiniteSet(upTo)
  BY <1>1, FiniteExecs
<1>3. Cardinality(s.done) \in Nat /\ Cardinality(upTo) \in Nat
  BY <1>2, FS_CardinalityType
<1>4. Cardinality(upTo) # 0
  BY <1>1, <1>2, FS_EmptySet
<1>5. Cardinality(upTo) + cap <= Cardinality(s.done)
  BY DEF upTo
<1> QED BY <1>3, <1>4, <1>5

\* With room for the plan the history stays within its cap.
LEMMA RoomForPlan ==
  ASSUME ImportTypeOK, Fits(Cardinality(DOMAIN plan))
  PROVE  Cardinality(mem.done \cup Fresh) <= cap
<1>1. mem.done \in SUBSET Execs /\ Fresh \in SUBSET Execs /\ DOMAIN plan \subseteq Legacy /\ cap \in Nat
  BY HistoryAssumption DEF ImportTypeOK, TypeOK, Snapshots, Fresh
<1>2. IsFiniteSet(mem.done) /\ IsFiniteSet(Fresh) /\ IsFiniteSet(DOMAIN plan)
  <2>1. IsFiniteSet(Legacy)  BY FS_Interval, ImportAssumption DEF Legacy
  <2> QED BY <1>1, <2>1, FiniteExecs, FS_Subset
<1>3. [l \in DOMAIN plan |-> plan[l]] \in Surjection(DOMAIN plan, Fresh)
  BY DEF Surjection, Fresh
<1> DEFINE D == DOMAIN plan
<1>4. IsFiniteSet(D) /\ [l \in D |-> plan[l]] \in Surjection(D, Fresh)  BY <1>2, <1>3
<1> HIDE DEF D
<1>5. Cardinality(Fresh) <= Cardinality(D)
  BY <1>4, FS_Surjection
<1>6. Cardinality(mem.done \cup Fresh) = Cardinality(mem.done) + Cardinality(Fresh) - Cardinality(mem.done \cap Fresh)
  BY <1>2, FS_Union
<1>7. IsFiniteSet(mem.done \cap Fresh)
  BY <1>1, FiniteExecs
<1>8. /\ Cardinality(mem.done) \in Nat /\ Cardinality(Fresh) \in Nat /\ Cardinality(D) \in Nat
      /\ Cardinality(mem.done \cap Fresh) \in Nat
  BY <1>2, <1>4, <1>7, FS_CardinalityType
<1>9. Cardinality(mem.done) + Cardinality(D) <= cap
  BY DEF Fits, D
<1> QED BY <1>1, <1>5, <1>6, <1>8, <1>9

\* Each planned execution comes from its own legacy run.
LEMMA ImportedLaw ==
  /\ DOMAIN Imported = Fresh
  /\ \A e \in Fresh : Imported[e] \in DOMAIN plan /\ plan[Imported[e]] = e
<1>1. DOMAIN Imported = Fresh
  BY DEF Imported, Fresh
<1>2. ASSUME NEW e \in Fresh PROVE Imported[e] \in DOMAIN plan /\ plan[Imported[e]] = e
  <2>1. \E l \in DOMAIN plan : plan[l] = e  BY DEF Fresh
  <2>2. Imported[e] = CHOOSE l \in DOMAIN plan : plan[l] = e  BY DEF Fresh, Imported
  <2> QED BY <2>1, <2>2
<1> QED BY <1>1, <1>2

LEMMA NoPlanLaw == DOMAIN NoPlan = {}
BY DEF NoPlan

-----------------------------------------------------------------------------
(* The invariant is inductive.                                             *)

LEMMA InitIInv == ImportInit => IInv
<1> SUFFICES ASSUME ImportInit PROVE IInv
  OBVIOUS
<1>0. 1 \in Execs /\ 1 \in Legacy /\ NoLegacy \notin Legacy
  BY HistoryAssumption, ImportAssumption DEF Execs, Legacy, NoLegacy
<1>1. PICK list \in Snapshots : /\ StartsWith(list) /\ list.live = {}
                                /\ \/ list.done = {} /\ origin = [e \in Execs |-> NoLegacy]
                                   \/ list.done = {1} /\ origin = [e \in Execs |-> IF e = 1 THEN 1 ELSE NoLegacy]
  BY <1>0 DEF ImportInit, Empty, Snapshots
<1>2. /\ disk = list /\ mem = list /\ txn = NoTxn /\ proc = "server" /\ plan = NoPlan
      /\ DOMAIN plan = {} /\ Fresh = {}
      /\ logs = [e \in Execs |-> "none"] /\ gone = [e \in Execs |-> "no"]
  BY <1>1, NoPlanLaw DEF StartsWith, ImportInit, Fresh
<1>3. /\ ledger \in [disk : SUBSET Legacy, mem : SUBSET Legacy]
      /\ origin \in [Execs -> Legacy \cup {NoLegacy}]
      /\ ledger.mem = Load(ledger.disk, disk, origin)
  BY <1>0, <1>1, <1>2 DEF ImportInit, Load, IDs, Snapshots
<1>4. ImportTypeOK
  <2>1. TypeOK
    BY <1>1, <1>2, HistoryAssumption DEF StartsWith, TypeOK, Places, NoExec
  <2> QED BY <2>1, <1>2, <1>3, ImportAssumption DEF ImportTypeOK, ImportInit
<1>5. InvStore
  BY <1>1, <1>2 DEF InvStore, Apart, ShownIsDurable, OnlyEndedLeave, ListedHasLog, IDs, Snapshots
<1>6. InvTxn /\ InvPlan /\ InvImport
  BY <1>2 DEF InvTxn, InvPlan, InvImport, Unwritten
<1>7. Recorded(Load(ledger.disk, disk, origin))
  BY <1>0, <1>1, <1>2 DEF Recorded, Load, IDs
<1>8. ImportedOnce
  BY <1>0, <1>1 DEF ImportedOnce
<1> QED BY <1>3, <1>4, <1>5, <1>6, <1>7, <1>8 DEF IInv, InvLedger

\* A mutation of the server begins.
LEMMA MutateStep ==
  ASSUME IInv, proc = "server", NEW list \in Snapshots, NEW deleted \in SUBSET Execs,
         Mutate(list, deleted), cap' \in Caps, UNCHANGED ivars, Sound(list, deleted)
  PROVE  IInv'
<1>1. /\ txn' = [list |-> list, deleted |-> deleted, stage |-> "begun"]
      /\ UNCHANGED <<disk, mem, logs, pc, want, signal, gone, faults, proc, ledger, origin, plan, imports>>
  BY DEF Mutate, client, ivars
<1>2. ImportTypeOK'
  <2>1. TypeOK'  BY <1>1 DEF IInv, ImportTypeOK, TypeOK, Transactions
  <2> QED BY <1>1, <2>1 DEF IInv, ImportTypeOK
<1>3. InvStore'
  BY <1>1 DEF IInv, InvStore, Apart, ShownIsDurable, OnlyEndedLeave, ListedHasLog, IDs
<1>4. InvTxn'
  BY <1>1 DEF InvTxn, Sound, Apart, IDs
<1>5. InvPlan' /\ InvImport'
  BY <1>1 DEF IInv, InvPlan, InvImport, Unwritten, Holding, Fresh
<1>6. InvLedger'
  BY <1>1 DEF IInv, InvLedger, ImportedOnce, Recorded, Load, IDs, Unwritten, Holding
<1> QED BY <1>2, <1>3, <1>4, <1>5, <1>6 DEF IInv

\* A step that leaves the store alone.
LEMMA ClientStep ==
  ASSUME IInv, UNCHANGED <<disk, mem, cap, logs, txn, gone, faults, ivars>>,
         pc' \in [Clients -> Places], want' \in [Clients -> Execs \cup {NoExec}],
         signal' \in [Clients -> BOOLEAN]
  PROVE  IInv'
<1>1. UNCHANGED <<proc, ledger, origin, plan, imports>>
  BY DEF ivars
<1>2. ImportTypeOK'
  <2>1. TypeOK'  BY DEF IInv, ImportTypeOK, TypeOK
  <2> QED BY <1>1, <2>1 DEF IInv, ImportTypeOK
<1>3. InvStore'
  BY DEF IInv, InvStore, Apart, ShownIsDurable, OnlyEndedLeave, ListedHasLog, IDs
<1>4. InvTxn'
  BY DEF IInv, InvTxn, Sound, Apart, IDs, Snapshot, Without, Prune
<1>5. InvPlan' /\ InvImport'
  BY <1>1 DEF IInv, InvPlan, InvImport, Unwritten, Holding, Fresh, Prune, IDs
<1>6. InvLedger'
  BY <1>1 DEF IInv, InvLedger, ImportedOnce, Recorded, Load, IDs, Unwritten, Holding
<1> QED BY <1>2, <1>3, <1>4, <1>5, <1>6 DEF IInv

LEMMA WaitStep ==
  ASSUME IInv, UNCHANGED ivars, NEW w \in Clients,
         Wait(w) \/ Leave(w) \/ \E e \in Waited : WaitFor(w, e)
  PROVE  IInv'
<1>0. /\ pc \in [Clients -> Places] /\ want \in [Clients -> Execs \cup {NoExec}]
      /\ signal \in [Clients -> BOOLEAN] /\ mem.live \subseteq Execs
  BY DEF IInv, ImportTypeOK, TypeOK, Snapshots
<1>1. ASSUME NEW p \in Places, NEW c \in BOOLEAN, Goto(w, p, c), want' \in [Clients -> Execs \cup {NoExec}]
      PROVE  IInv'
  <2>1. /\ pc' \in [Clients -> Places] /\ signal' \in [Clients -> BOOLEAN]
        /\ UNCHANGED <<disk, mem, cap, logs, txn, gone, faults>>
    BY <1>0, <1>1 DEF Goto
  <2> QED BY <1>1, <2>1, ClientStep
<1>2. CASE \E e \in Waited : WaitFor(w, e)
  <2>1. PICK e : e \in mem.live /\ want' = [want EXCEPT ![w] = e] /\ Goto(w, "subscribe", FALSE)
    BY <1>2 DEF WaitFor
  <2> QED BY <1>0, <1>1, <2>1 DEF Places
<1>3. CASE Leave(w)
  BY <1>0, <1>1, <1>3 DEF Leave, Places
<1>4. CASE Wait(w)
  <2>1. UNCHANGED want
    BY <1>4 DEF Wait, Subscribe, Check, Wake, Read
  <2>2. PICK p \in Places, c \in BOOLEAN : Goto(w, p, c)
    <3>1. signal[w] \in BOOLEAN  BY <1>0
    <3> QED BY <1>4, <3>1 DEF Wait, Subscribe, Check, Wake, Read, Places
  <2> QED BY <1>0, <1>1, <2>1, <2>2
<1> QED BY <1>2, <1>3, <1>4

\* What the server's operations make of the memory is sound.
LEMMA ServeStep ==
  ASSUME IInv, proc = "server", Serve, UNCHANGED ivars
  PROVE  IInv'
<1>0. /\ mem \in Snapshots /\ mem.live \subseteq Execs /\ mem.done \subseteq Execs /\ cap \in Caps
      /\ Apart(mem) /\ ListedHasLog
  BY DEF IInv, ImportTypeOK, TypeOK, Snapshots, InvStore
<1>1. ASSUME NEW e \in Execs, Enqueue(e) PROVE IInv'
  <2> DEFINE list == [mem EXCEPT !.live = @ \cup {e}]
  <2>1. e \notin Used
    <3>1. e \in Nat /\ ~(e < e)  BY DEF Execs
    <3> QED BY <1>1, <3>1 DEF Enqueue, Free
  <2>2. e \notin IDs(mem) /\ logs[e] = "none"
    BY <2>1 DEF Used
  <2>3. list \in Snapshots /\ list.live = mem.live \cup {e} /\ list.done = mem.done
    BY <1>0 DEF Snapshots
  <2>4. Mutate(list, {}) /\ cap' \in Caps
    BY <1>0, <1>1 DEF Enqueue
  <2> HIDE DEF list
  <2>5. Sound(list, {})
    BY <1>0, <2>2, <2>3 DEF Sound, Apart, IDs, ListedHasLog
  <2> QED BY <2>3, <2>4, <2>5, MutateStep
<1>2. ASSUME NEW e \in Execs, Finish(e) PROVE IInv'
  <2> DEFINE list == [live |-> mem.live \ {e}, done |-> mem.done \cup {e}]
  <2>1. list \in Snapshots /\ list.live = mem.live \ {e} /\ list.done = mem.done \cup {e}
    BY <1>0 DEF Snapshots
  <2>2. Mutate(list, {}) /\ cap' \in Caps /\ e \in mem.live
    BY <1>0, <1>2 DEF Finish
  <2> HIDE DEF list
  <2>3. Sound(list, {})
    BY <1>0, <2>1, <2>2 DEF Sound, Apart, IDs, ListedHasLog
  <2> QED BY <2>1, <2>2, <2>3, MutateStep
<1>3. ASSUME NEW e \in Execs, DeleteExecution(e) PROVE IInv'
  <2> DEFINE list == Without(mem, {e})
  <2>1. list \in Snapshots /\ list.live = mem.live \ {e} /\ list.done = mem.done \ {e}
    BY <1>0 DEF Snapshots, Without
  <2>2. Mutate(list, {e}) /\ cap' \in Caps
    BY <1>0, <1>3 DEF DeleteExecution
  <2> HIDE DEF list
  <2>3. Sound(list, {e})
    BY <1>0, <2>1 DEF Sound, Apart, IDs, ListedHasLog
  <2> QED BY <2>1, <2>2, <2>3, MutateStep
<1>4. ASSUME Touch \/ \E c \in Caps : SetMaxHistory(c) PROVE IInv'
  <2>1. Mutate(mem, {}) /\ cap' \in Caps
    BY <1>0, <1>4 DEF Touch, SetMaxHistory
  <2>2. Sound(mem, {})
    BY <1>0 DEF Sound, Apart, IDs, ListedHasLog
  <2> QED BY <1>0, <2>1, <2>2, MutateStep
<1>5. ASSUME NEW e \in Execs, AppendLog(e) PROVE IInv'
  <2>1. /\ logs' = [logs EXCEPT ![e] = "file"] /\ txn = NoTxn
        /\ UNCHANGED <<disk, mem, cap, txn, pc, want, signal, gone, faults, proc, ledger, origin, plan, imports>>
    BY <1>5 DEF AppendLog, client, ivars
  <2>2. /\ logs' \in [Execs -> {"none", "file", "removed", "withdrawn"}]
        /\ \A x \in Execs : logs'[x] = "removed" => logs[x] = "removed"
    BY <2>1 DEF IInv, ImportTypeOK, TypeOK
  <2>3. ImportTypeOK'
    <3>1. TypeOK'  BY <2>1, <2>2 DEF IInv, ImportTypeOK, TypeOK
    <3> QED BY <2>1, <3>1 DEF IInv, ImportTypeOK
  <2>4. InvStore'
    BY <1>0, <2>1, <2>2 DEF IInv, InvStore, Apart, ShownIsDurable, OnlyEndedLeave, ListedHasLog, IDs,
                            ImportTypeOK, TypeOK, Snapshots
  <2>5. InvTxn' /\ InvPlan' /\ InvImport'
    BY <2>1 DEF IInv, InvTxn, InvPlan, InvImport, Unwritten, Fresh
  <2>6. InvLedger'
    BY <2>1 DEF IInv, InvLedger, ImportedOnce, Recorded, Load, IDs, Unwritten
  <2> QED BY <2>3, <2>4, <2>5, <2>6 DEF IInv
<1> QED BY <1>1, <1>2, <1>3, <1>4, <1>5, WaitStep DEF Serve

\* A process opens the store: what it loads is what it can rely on.
LEMMA OpenStep ==
  ASSUME IInv, OpenStore, plan' = NoPlan, proc' \in {"server", "plan"}, imports' \in 0 .. MaxImports,
         faults' \in 0 .. MaxFaults, UNCHANGED origin
  PROVE  IInv'
<1>1. /\ mem' = disk /\ cap' \in Caps /\ txn' = NoTxn /\ UNCHANGED <<disk, logs, gone, origin>>
      /\ pc' = [w \in Clients |-> "idle"] /\ want' = [w \in Clients |-> NoExec]
      /\ signal' = [w \in Clients |-> FALSE]
      /\ ledger' = [ledger EXCEPT !.mem = Load(ledger.disk, disk, origin)]
      /\ DOMAIN plan' = {} /\ Fresh' = {}
  BY NoPlanLaw DEF OpenStore, Open, Fresh
<1>2. ImportTypeOK'
  <2>1. TypeOK'  BY <1>1 DEF IInv, ImportTypeOK, TypeOK, Places
  <2>2. ledger' \in [disk : SUBSET Legacy, mem : SUBSET Legacy]
    BY <1>1 DEF IInv, ImportTypeOK, TypeOK, Load, IDs, Snapshots
  <2> QED BY <1>1, <2>1, <2>2 DEF IInv, ImportTypeOK, Steps
<1>3. InvStore'
  BY <1>1 DEF IInv, InvStore, Apart, ShownIsDurable, OnlyEndedLeave, ListedHasLog, IDs
<1>4. InvTxn' /\ InvPlan' /\ InvImport'
  BY <1>1 DEF InvTxn, InvPlan, InvImport, Unwritten
<1>5. InvLedger'
  <2>1. ledger'.disk = ledger.disk /\ ledger'.mem = Load(ledger.disk, disk, origin)
    BY <1>1 DEF IInv, ImportTypeOK
  <2> QED BY <1>1, <2>1 DEF IInv, InvLedger, ImportedOnce, Recorded, Load, IDs
<1> QED BY <1>2, <1>3, <1>4, <1>5 DEF IInv

LEMMA PlanStep ==
  ASSUME IInv, NEW resolved \in SUBSET Legacy, PlanImports(resolved)
  PROVE  IInv'
<1> DEFINE new == resolved \ ledger.mem
<1>0. /\ proc = "plan" /\ txn = NoTxn /\ DOMAIN plan = {} /\ mem = disk
      /\ UNCHANGED <<disk, mem, cap, logs, txn, pc, want, signal, gone, faults, ledger, origin, imports>>
  BY DEF PlanImports, IInv, InvImport, InvPlan, Unwritten, vars, client
<1>1. \/ proc' = "over" /\ plan' = plan
      \/ /\ proc' = "copy" /\ plan' \in [new -> Free]
         /\ \A l, m \in new : l < m => plan'[l] < plan'[m]
  BY DEF PlanImports
<1>2. \A e \in Free : e \in Execs /\ e \notin IDs(mem) /\ logs[e] = "none"
  <2>1. \A e \in Execs : e \in Nat /\ ~(e < e)  BY DEF Execs
  <2>2. \A e \in Free : e \in Execs /\ e \notin Used  BY <2>1 DEF Free
  <2> QED BY <2>2 DEF Used
<1>3. /\ DOMAIN plan' \subseteq Legacy \ ledger.mem
      /\ \A l \in DOMAIN plan' : plan'[l] \in Execs /\ plan'[l] \notin IDs(mem) /\ logs[plan'[l]] = "none"
      /\ proc' = "over" => DOMAIN plan' = {}
  BY <1>0, <1>1, <1>2
<1>4. \A l, m \in DOMAIN plan' : plan'[l] = plan'[m] => l = m
  <2>1. CASE proc' = "over"  BY <1>3, <2>1
  <2>2. CASE proc' # "over"
    <3>1. DOMAIN plan' = new /\ plan' \in [new -> Free]  BY <1>1, <2>2
    <3>2. \A l, m \in new : l \in Nat /\ m \in Nat /\ plan'[l] \in Nat /\ plan'[m] \in Nat
      BY <1>2, <3>1 DEF Legacy, Execs
    <3>3. \A l, m \in new : l < m => plan'[l] < plan'[m]  BY <1>1, <2>2
    <3> HIDE DEF new
    <3>4. \A l, m \in new : plan'[l] = plan'[m] => l = m  BY <3>2, <3>3
    <3> QED BY <3>1, <3>4
  <2> QED BY <2>1, <2>2
<1>5. proc' \in {"over", "copy"}
  BY <1>1
<1>6. ImportTypeOK'
  <2>1. TypeOK'  BY <1>0 DEF IInv, ImportTypeOK, TypeOK
  <2> QED BY <1>0, <1>3, <1>5, <2>1 DEF IInv, ImportTypeOK, Steps
<1>7. InvStore'
  BY <1>0 DEF IInv, InvStore, Apart, ShownIsDurable, OnlyEndedLeave, ListedHasLog, IDs
<1>8. InvPlan'
  BY <1>0, <1>3, <1>4, <1>5 DEF InvPlan, Fresh
<1>9. InvTxn' /\ InvImport'
  BY <1>0, <1>3, <1>5 DEF InvTxn, InvImport, Unwritten, Fresh, IDs
<1>10. InvLedger'
  BY <1>0, <1>5 DEF IInv, InvLedger, ImportedOnce, Recorded, Load, IDs, Unwritten
<1> QED BY <1>6, <1>7, <1>8, <1>9, <1>10 DEF IInv

LEMMA CopyStep ==
  ASSUME IInv, NEW e \in Execs, CopyLog(e)
  PROVE  IInv'
<1>1. /\ proc = "copy" /\ logs' = [logs EXCEPT ![e] = "file"]
      /\ UNCHANGED <<disk, mem, cap, txn, pc, want, signal, gone, faults, proc, ledger, origin, plan, imports>>
  BY DEF CopyLog, client, ivars
<1>2. txn = NoTxn
  BY <1>1 DEF IInv, InvImport
<1>3. /\ logs' \in [Execs -> {"none", "file", "removed", "withdrawn"}]
      /\ \A x \in Execs : logs'[x] = "removed" => logs[x] = "removed"
  BY <1>1 DEF IInv, ImportTypeOK, TypeOK
<1>4. ImportTypeOK'
  <2>1. TypeOK'  BY <1>1, <1>3 DEF IInv, ImportTypeOK, TypeOK
  <2> QED BY <1>1, <2>1 DEF IInv, ImportTypeOK
<1>5. InvStore'
  BY <1>1, <1>3 DEF IInv, InvStore, Apart, ShownIsDurable, OnlyEndedLeave, ListedHasLog, IDs,
                    ImportTypeOK, TypeOK, Snapshots
<1>6. InvPlan'
  BY <1>1, <1>3 DEF IInv, InvPlan, Fresh, ImportTypeOK
<1>7. InvTxn' /\ InvImport'
  BY <1>1, <1>2 DEF IInv, InvTxn, InvImport, Unwritten, Holding, Fresh, IDs
<1>8. InvLedger'
  BY <1>1, <1>2 DEF IInv, InvLedger, ImportedOnce, Recorded, Load, IDs, Unwritten, Holding
<1> QED BY <1>4, <1>5, <1>6, <1>7, <1>8 DEF IInv

\* An import gives up.
LEMMA CleanupStep ==
  ASSUME IInv, Cleanup, txn' = NoTxn, faults' \in 0 .. MaxFaults,
         UNCHANGED <<disk, mem, cap, client, gone, ledger, origin, imports>>
  PROVE  IInv'
<1>1. /\ proc' = "over" /\ plan' = NoPlan /\ DOMAIN plan' = {} /\ Fresh' = {}
      /\ UNCHANGED <<pc, want, signal>>
  BY NoPlanLaw DEF Cleanup, client, Fresh
<1>2. /\ logs' \in [Execs -> {"none", "file", "removed", "withdrawn"}]
      /\ \A x \in Execs : logs'[x] = "removed" => logs[x] = "removed"
  BY DEF Cleanup, IInv, ImportTypeOK, TypeOK
<1>3. ImportTypeOK'
  <2>1. TypeOK'  BY <1>1, <1>2 DEF IInv, ImportTypeOK, TypeOK
  <2> QED BY <1>1, <2>1 DEF IInv, ImportTypeOK, Steps
<1>4. InvStore'
  BY <1>1, <1>2 DEF IInv, InvStore, Apart, ShownIsDurable, OnlyEndedLeave, ListedHasLog, IDs,
                    ImportTypeOK, TypeOK, Snapshots
<1>5. InvTxn' /\ InvPlan' /\ InvImport'
  BY <1>1 DEF InvTxn, InvPlan, InvImport, Unwritten
<1>6. InvLedger'
  BY <1>1 DEF IInv, InvLedger, ImportedOnce, Recorded, Load, IDs, Unwritten
<1> QED BY <1>3, <1>4, <1>5, <1>6 DEF IInv

\* The import's transaction adds its runs and, as there is room, drops none.
LEMMA ApplyStep ==
  ASSUME IInv, ApplyImports
  PROVE  IInv'
<1>0. /\ proc = "copy" /\ txn = NoTxn /\ mem = disk /\ Fresh \cap IDs(mem) = {}
      /\ UNCHANGED <<ledger, origin, imports>>
      /\ mem \in Snapshots /\ mem.done \subseteq Execs /\ Fresh \subseteq Execs /\ cap \in Nat
  BY HistoryAssumption
     DEF ApplyImports, IInv, InvImport, Unwritten, ImportTypeOK, TypeOK, Snapshots, Fresh
<1>1. CASE Refused
  <2>1. Cleanup /\ UNCHANGED <<disk, mem, cap, txn, client, gone, faults>>
    BY <1>1 DEF ApplyImports
  <2> QED BY <1>0, <2>1, CleanupStep DEF IInv, ImportTypeOK, TypeOK
<1>2. CASE ~Refused
  <2> DEFINE list == [mem EXCEPT !.done = @ \cup DOMAIN Imported]
  <2>1. list \in Snapshots /\ list.live = mem.live /\ list.done = mem.done \cup Fresh
    BY <1>0, ImportedLaw DEF Snapshots
  <2>2. /\ txn' = [list |-> list, deleted |-> {}, stage |-> "begun"]
        /\ proc' = "commit"
        /\ UNCHANGED <<disk, mem, cap, logs, pc, want, signal, gone, faults, plan>>
    BY <1>2 DEF ApplyImports, Mutate, client
  <2>3. Fits(Cardinality(DOMAIN plan))
    BY <1>2 DEF Refused
  <2>4. Cardinality(list.done) <= cap
    BY <2>1, <2>3, RoomForPlan DEF IInv
  <2> HIDE DEF list
  <2>5. Prune(list) = {}
    BY <1>0, <2>1, <2>4, NothingToPrune
  <2>6. Sound(list, {})
    BY <1>0, <2>1 DEF IInv, InvStore, InvPlan, Sound, Apart, IDs, ListedHasLog
  <2>7. txn'.list = list /\ txn'.deleted = {} /\ txn'.stage = "begun" /\ Fresh' = Fresh
    BY <2>2 DEF Fresh
  <2>7a. Prune(txn.list)' = {}
    BY <2>2, <2>5, <2>7 DEF Prune
  <2>8. ImportTypeOK'
    <3>1. TypeOK'  BY <2>1, <2>2 DEF IInv, ImportTypeOK, TypeOK, Transactions
    <3> QED BY <1>0, <2>2, <3>1 DEF IInv, ImportTypeOK, Steps
  <2>9. InvStore'
    BY <2>2 DEF IInv, InvStore, Apart, ShownIsDurable, OnlyEndedLeave, ListedHasLog, IDs
  <2>10. InvTxn'
    BY <2>2, <2>6, <2>7 DEF InvTxn, Sound, Apart, IDs
  <2>11. InvPlan'
    BY <1>0, <2>2, <2>7 DEF IInv, InvPlan
  <2>12. InvImport'
    BY <1>0, <2>2, <2>7, <2>7a DEF InvImport, IDs
  <2>13. InvLedger'
    BY <1>0, <2>2 DEF IInv, InvLedger, ImportedOnce, Recorded, Load, IDs, Unwritten
  <2> QED BY <2>8, <2>9, <2>10, <2>11, <2>12, <2>13 DEF IInv
<1> QED BY <1>1, <1>2

\* A transaction under way belongs to the server or to an import that commits.
LEMMA TxnLaw ==
  ASSUME IInv, txn # NoTxn
  PROVE  /\ proc \in {"server", "commit"}
         /\ txn \in Transactions
         /\ txn.list \in Snapshots
         /\ Sound(txn.list, txn.deleted)
BY DEF IInv, ImportTypeOK, TypeOK, Transactions, Steps, InvImport, InvTxn

\* The snapshot replaces the old one: nothing that was shown is lost, except
\* terminal runs, and that is on record.
LEMMA LossesLaw ==
  ASSUME IInv, Holding("begun")
  PROVE  /\ Losses \in [Execs -> {"no", "pruned", "deleted", "lost"}]
         /\ \A e \in Execs : Losses[e] # "lost"
         /\ \A e \in IDs(mem) : Losses[e] = "no" => e \in IDs(Snapshot)
<1>0. /\ txn.list \in Snapshots /\ Sound(txn.list, txn.deleted)
      /\ IDs(mem) \subseteq Execs /\ gone \in [Execs -> {"no", "pruned", "deleted", "lost"}]
      /\ \A e \in Execs : gone[e] # "lost"
  BY TxnLaw DEF Holding, IInv, ImportTypeOK, TypeOK, IDs, Snapshots, InvStore, OnlyEndedLeave
<1> DEFINE left == IDs(mem) \ IDs(Snapshot)
<1>1. \A e \in left : e \notin txn.deleted => e \in txn.list.done
  BY <1>0, SnapshotLaw DEF Sound
<1>2. ASSUME NEW e \in Execs
      PROVE  \/ e \notin left /\ Losses[e] = gone[e]
             \/ e \in left /\ Losses[e] \in {"deleted", "pruned"}
  <2>1. Losses[e] = CASE e \notin left -> gone[e]
                      [] e \in left \cap txn.deleted -> "deleted"
                      [] e \in left \ txn.deleted -> IF e \in txn.list.done THEN "pruned" ELSE "lost"
    BY DEF Losses
  <2> HIDE DEF left
  <2>2. CASE e \notin left
    <3>1. Losses[e] = gone[e]  BY <2>1, <2>2
    <3> QED BY <2>2, <3>1
  <2>3. CASE e \in left \cap txn.deleted
    <3>1. Losses[e] = "deleted"  BY <2>1, <2>3
    <3> QED BY <2>3, <3>1
  <2>4. CASE e \in left \ txn.deleted
    <3>1. Losses[e] = "pruned"  BY <2>1, <2>4, <1>1
    <3> QED BY <2>4, <3>1
  <2> QED BY <2>2, <2>3, <2>4
<1>3. Losses = [e \in Execs |-> Losses[e]]
  BY DEF Losses
<1>4. \A e \in Execs : Losses[e] \in {"no", "pruned", "deleted", "lost"} /\ Losses[e] # "lost"
  BY <1>0, <1>2
<1>5. \A e \in IDs(mem) : Losses[e] = "no" => e \in IDs(Snapshot)
  BY <1>0, <1>2
<1> HIDE DEF left
<1> QED BY <1>3, <1>4, <1>5

LEMMA PersistStep ==
  ASSUME IInv, PersistSnapshot
  PROVE  IInv'
<1>0. /\ txn # NoTxn /\ txn.stage = "begun"
      /\ disk' = Snapshot /\ gone' = Losses /\ txn' = [txn EXCEPT !.stage = "written"]
      /\ UNCHANGED <<mem, cap, logs, pc, want, signal, faults, proc, plan, imports>>
      /\ ledger' = [ledger EXCEPT !.disk = ledger.mem \cup DOMAIN plan]
      /\ origin' = [e \in Execs |-> IF e \in DOMAIN Imported THEN Imported[e] ELSE origin[e]]
  BY DEF PersistSnapshot, Persist, Holding, client
<1>1. /\ proc \in {"server", "commit"} /\ txn.list \in Snapshots /\ Sound(txn.list, txn.deleted)
      /\ txn' \in Transactions /\ txn' # NoTxn
      /\ txn'.list = txn.list /\ txn'.deleted = txn.deleted /\ txn'.stage = "written"
      /\ Fresh' = Fresh
  BY <1>0, TxnLaw, NoTxnAssumption DEF Fresh, Transactions
<1>2. /\ Prune(txn.list) \subseteq txn.list.done
      /\ Snapshot \in Snapshots
      /\ Snapshot.live = txn.list.live \ Prune(txn.list) /\ Snapshot.done = txn.list.done \ Prune(txn.list)
      /\ IDs(Snapshot) = IDs(txn.list) \ Prune(txn.list)
  BY <1>1, SnapshotLaw
<1>3. Snapshot' = Snapshot /\ Prune(txn.list)' = Prune(txn.list)
  BY <1>0, <1>1 DEF Snapshot, Prune, Without
<1>4. /\ Losses \in [Execs -> {"no", "pruned", "deleted", "lost"}]
      /\ \A e \in Execs : Losses[e] # "lost"
      /\ \A e \in IDs(mem) : Losses[e] = "no" => e \in IDs(Snapshot)
  BY <1>0, LossesLaw DEF Holding
<1>5. /\ DOMAIN plan \subseteq Legacy /\ ledger \in [disk : SUBSET Legacy, mem : SUBSET Legacy]
      /\ ledger'.disk = ledger.mem \cup DOMAIN plan /\ ledger'.mem = ledger.mem
      /\ origin \in [Execs -> Legacy \cup {NoLegacy}] /\ Fresh \subseteq Execs
  BY <1>0 DEF IInv, ImportTypeOK, Fresh
<1>6. /\ \A e \in Fresh : origin'[e] = Imported[e] /\ Imported[e] \in DOMAIN plan /\ plan[Imported[e]] = e
      /\ \A e \in Execs \ Fresh : origin'[e] = origin[e]
  BY <1>0, <1>5, ImportedLaw
<1>7. ImportTypeOK'
  <2>1. TypeOK'
    BY <1>0, <1>1, <1>2, <1>4 DEF IInv, ImportTypeOK, TypeOK
  <2>2. /\ ledger' \in [disk : SUBSET Legacy, mem : SUBSET Legacy]
        /\ origin' \in [Execs -> Legacy \cup {NoLegacy}]
    BY <1>0, <1>5, <1>6
  <2> QED BY <1>0, <2>1, <2>2 DEF IInv, ImportTypeOK
<1>8. InvStore'
  <2>1. Apart(Snapshot)
    BY <1>1, <1>2 DEF Sound, Apart
  <2>2. \A e \in IDs(mem) : e \in IDs(Snapshot) /\ e \in mem.done => e \in Snapshot.done
    BY <1>1, <1>2 DEF Sound, IDs
  <2>3. \A e \in IDs(Snapshot) : logs[e] # "removed"
    BY <1>1, <1>2 DEF Sound
  <2>4. \A e \in IDs(mem) : logs[e] # "removed"
    BY DEF IInv, InvStore, ListedHasLog
  <2>5. Apart(mem)
    BY DEF IInv, InvStore
  <2> QED BY <1>0, <1>4, <2>1, <2>2, <2>3, <2>4, <2>5
          DEF InvStore, Apart, ShownIsDurable, OnlyEndedLeave, ListedHasLog, IDs
<1>9. InvTxn'
  BY <1>0, <1>1, <1>3 DEF InvTxn, Sound, Apart, IDs
<1>10. InvPlan'
  BY <1>0, <1>1, <1>5 DEF IInv, InvPlan
<1>11. NoLegacy \notin Legacy
  BY DEF NoLegacy, Legacy
<1>12. InvImport'
  BY <1>0, <1>1, <1>3, <1>5, <1>6, <1>11 DEF IInv, InvImport, Unwritten, Holding
<1>13. Recorded(ledger.mem)
  BY <1>0, <1>1 DEF IInv, InvLedger, Unwritten, Holding
<1>14. DOMAIN plan \cap ledger.mem = {} /\ (proc = "server" => Fresh = {})
  BY DEF IInv, InvPlan, Fresh
<1>15. InvLedger'
  <2>1. ImportedOnce'
    <3> SUFFICES ASSUME NEW e \in Execs, NEW f \in Execs, origin'[e] # NoLegacy, origin'[e] = origin'[f]
                 PROVE  e = f
      BY DEF ImportedOnce
    <3>1. CASE e \in Fresh /\ f \in Fresh  BY <1>6, <3>1
    <3>2. CASE e \notin Fresh /\ f \notin Fresh  BY <1>6, <3>2 DEF IInv, InvLedger, ImportedOnce
    <3>3. CASE e \in Fresh /\ f \notin Fresh  BY <1>6, <1>13, <1>14, <3>3 DEF Recorded
    <3>4. CASE e \notin Fresh /\ f \in Fresh  BY <1>6, <1>13, <1>14, <3>4 DEF Recorded
    <3> QED BY <3>1, <3>2, <3>3, <3>4
  <2>2. \A e \in Execs : origin'[e] # NoLegacy => origin'[e] \in ledger'.disk
    BY <1>5, <1>6, <1>13 DEF Recorded
  <2>3. Recorded(Load(ledger.disk, disk, origin))'
    BY <2>2 DEF Recorded, Load
  <2>4. (proc = "server" \/ Unwritten => Recorded(ledger.mem))'
    BY <1>0, <1>1, <1>5, <1>6, <1>13, <1>14 DEF Recorded, Unwritten, Holding
  <2> QED BY <2>1, <2>3, <2>4 DEF InvLedger
<1> QED BY <1>7, <1>8, <1>9, <1>10, <1>12, <1>15 DEF IInv

LEMMA CommitStep ==
  ASSUME IInv, CommitSnapshot
  PROVE  IInv'
<1>0. /\ txn # NoTxn /\ txn.stage = "written" /\ txn' = NoTxn
      /\ mem' = Snapshot /\ RemoveLogs(Prune(txn.list) \cup txn.deleted)
      /\ UNCHANGED <<disk, cap, pc, want, gone, faults, origin, imports>>
      /\ ledger' = [ledger EXCEPT !.mem = ledger.mem \cup DOMAIN plan]
      /\ plan' = NoPlan /\ proc' = IF proc = "server" THEN "server" ELSE "over"
  BY DEF CommitSnapshot, Commit, Holding
<1>1. signal' \in [Clients -> BOOLEAN]
  <2>1. signal' = [w \in Clients |-> pc[w] \in {"check", "parked"}]
    BY DEF CommitSnapshot, Commit
  <2>2. \A w \in Clients : (pc[w] \in {"check", "parked"}) \in BOOLEAN
    OBVIOUS
  <2> QED BY <2>1, <2>2, Zenon
<1>2. /\ proc \in {"server", "commit"} /\ txn.list \in Snapshots /\ Sound(txn.list, txn.deleted)
      /\ disk = Snapshot
  BY <1>0, TxnLaw DEF IInv, InvTxn
<1>3. mem' = disk /\ IDs(disk) = IDs(txn.list) \ Prune(txn.list)
  BY <1>0, <1>2, SnapshotLaw
<1>4. /\ logs' \in [Execs -> {"none", "file", "removed", "withdrawn"}]
      /\ \A x \in Execs \ (Prune(txn.list) \cup txn.deleted) : logs'[x] = logs[x]
  BY <1>0 DEF RemoveLogs, IInv, ImportTypeOK, TypeOK
<1>5. DOMAIN plan' = {} /\ Fresh' = {}
  BY <1>0, NoPlanLaw DEF Fresh
<1>6. ImportTypeOK'
  <2>1. TypeOK'
    BY <1>0, <1>1, <1>3, <1>4 DEF IInv, ImportTypeOK, TypeOK
  <2>2. ledger' \in [disk : SUBSET Legacy, mem : SUBSET Legacy]
    BY <1>0 DEF IInv, ImportTypeOK
  <2> QED BY <1>0, <1>5, <2>1, <2>2 DEF IInv, ImportTypeOK, Steps
<1>7. InvStore'
  <2>1. IDs(disk) \subseteq Execs
    BY DEF IInv, ImportTypeOK, TypeOK, Snapshots, IDs
  <2>2. \A e \in IDs(disk) : logs'[e] # "removed"
    BY <1>2, <1>3, <1>4, <2>1 DEF Sound
  <2> QED BY <1>0, <1>3, <2>2
          DEF IInv, InvStore, Apart, ShownIsDurable, OnlyEndedLeave, ListedHasLog, IDs
<1>8. InvTxn' /\ InvPlan' /\ InvImport'
  BY <1>0, <1>5 DEF InvTxn, InvPlan, InvImport, Unwritten
<1>9. InvLedger'
  <2>1. ledger'.disk = ledger.disk /\ ledger'.mem = ledger.mem \cup DOMAIN plan
    BY <1>0 DEF IInv, ImportTypeOK
  <2> QED BY <1>0, <2>1 DEF IInv, InvLedger, ImportedOnce, Recorded, Load, IDs, Unwritten
<1> QED BY <1>6, <1>7, <1>8, <1>9 DEF IInv

\* A mutation of the server ends without a commit.
LEMMA GiveUpStep ==
  ASSUME IInv, proc = "server", PersistFails \/ SyncFails, UNCHANGED ivars
  PROVE  IInv'
<1>1. /\ txn' = NoTxn /\ faults' \in 0 .. MaxFaults
      /\ UNCHANGED <<disk, mem, cap, logs, pc, want, signal, gone, proc, ledger, origin, plan, imports>>
  BY HistoryAssumption DEF PersistFails, SyncFails, client, ivars, IInv, ImportTypeOK, TypeOK
<1>2. ImportTypeOK'
  <2>1. TypeOK'  BY <1>1 DEF IInv, ImportTypeOK, TypeOK
  <2> QED BY <1>1, <2>1 DEF IInv, ImportTypeOK
<1>3. InvStore'
  BY <1>1 DEF IInv, InvStore, Apart, ShownIsDurable, OnlyEndedLeave, ListedHasLog, IDs
<1>4. InvTxn' /\ InvPlan' /\ InvImport'
  BY <1>1 DEF IInv, InvTxn, InvPlan, InvImport, Unwritten, Fresh
<1>5. InvLedger'
  BY <1>1 DEF IInv, InvLedger, ImportedOnce, Recorded, Load, IDs, Unwritten
<1> QED BY <1>2, <1>3, <1>4, <1>5 DEF IInv

LEMMA NextIInv ==
  ASSUME IInv, [ImportNext]_allvars
  PROVE  IInv'
<1>0. faults \in 0 .. MaxFaults /\ imports \in 0 .. MaxImports
  BY DEF IInv, ImportTypeOK, TypeOK
<1>1. ASSUME UNCHANGED allvars PROVE IInv'
  <2>1. UNCHANGED <<disk, mem, cap, logs, txn, gone, faults, ivars>> /\ UNCHANGED <<pc, want, signal>>
    BY <1>1 DEF allvars, vars, client
  <2> QED BY <2>1, ClientStep DEF IInv, ImportTypeOK, TypeOK
<1>2. CASE proc = "server" /\ Serve /\ UNCHANGED ivars
  BY <1>2, ServeStep
<1>3. CASE NewController
  <2>1. /\ proc = "server" /\ OpenStore /\ proc' = "plan" /\ UNCHANGED <<faults, origin, plan>>
        /\ imports' \in 0 .. MaxImports
    BY <1>0, <1>3, ImportAssumption DEF NewController
  <2>2. plan = NoPlan
    BY <2>1 DEF IInv, InvPlan, NoPlan
  <2> QED BY <1>0, <2>1, <2>2, OpenStep
<1>4. CASE \E resolved \in SUBSET Legacy : PlanImports(resolved)
  BY <1>4, PlanStep
<1>5. CASE \E e \in Execs : CopyLog(e)
  BY <1>5, CopyStep
<1>6. CASE CopyFails
  <2>1. txn' = NoTxn
    BY <1>6 DEF CopyFails, IInv, InvImport
  <2> QED BY <1>0, <1>6, <2>1, CleanupStep DEF CopyFails
<1>7. CASE ApplyImports
  BY <1>7, ApplyStep
<1>8. CASE PersistSnapshot
  BY <1>8, PersistStep
<1>9. CASE CommitSnapshot
  BY <1>9, CommitStep
<1>10. CASE MutateFails
  <2>1. CASE proc = "server" /\ (PersistFails \/ SyncFails) /\ UNCHANGED ivars
    BY <2>1, GiveUpStep
  <2>2. CASE ~(proc = "server" /\ (PersistFails \/ SyncFails) /\ UNCHANGED ivars)
    <3>1. /\ Cleanup /\ txn' = NoTxn /\ (faults' = faults \/ (faults < MaxFaults /\ faults' = faults + 1))
          /\ UNCHANGED <<disk, mem, cap, client, gone, ledger, origin, imports>>
      BY <1>10, <2>2 DEF MutateFails
    <3>2. faults' \in 0 .. MaxFaults
      BY <1>0, <3>1, HistoryAssumption
    <3> QED BY <3>1, <3>2, CleanupStep
  <2> QED BY <2>1, <2>2
<1>11. CASE Stop
  <2>1. /\ faults' = faults \/ (faults < MaxFaults /\ faults' = faults + 1)
        /\ OpenStore /\ proc' = "server" /\ plan' = NoPlan /\ UNCHANGED <<origin, imports>>
    BY <1>11 DEF Stop
  <2>2. faults' \in 0 .. MaxFaults
    BY <1>0, <2>1, HistoryAssumption
  <2> QED BY <1>0, <2>1, <2>2, OpenStep
<1> QED BY <1>1, <1>2, <1>3, <1>4, <1>5, <1>6, <1>7, <1>8, <1>9, <1>10, <1>11 DEF ImportNext, Importing

LEMMA Invariance == ImportSpec => []IInv
BY InitIInv, NextIInv, PTL DEF ImportSpec

-----------------------------------------------------------------------------
(* Theorems.                                                               *)

\* What mutate has committed to memory, and may have told a caller, the next
\* start finds on disk, unless the run has left the history.
THEOREM ShownSurvives == ImportSpec => []Inv
<1>1. IInv => Inv
  BY DEF IInv, InvStore, Inv
<1> QED BY <1>1, Invariance, PTL

\* pruneExecutions and DeleteExecution take only terminal executions out of the
\* snapshot, whatever fails and whenever the cap changes.
THEOREM LiveRunsStay == ImportSpec => []OnlyEndedLeave
<1>1. IInv => OnlyEndedLeave
  BY DEF IInv, InvStore
<1> QED BY <1>1, Invariance, PTL

\* removeExecutionLog comes after the snapshot without the run: no run that is
\* listed, now or after a restart, has lost its log that way.
THEOREM LogsStay == ImportSpec => []ListedHasLog
<1>1. IInv => ListedHasLog
  BY DEF IInv, InvStore
<1> QED BY <1>1, Invariance, PTL

\* No legacy run becomes two executions, however often imports are repeated,
\* stopped or failed.
THEOREM OneExecutionPerRun == ImportSpec => []ImportedOnce
<1>1. IInv => ImportedOnce
  BY DEF IInv, InvLedger
<1> QED BY <1>1, Invariance, PTL

\* checkHistoryHeadroom protects the controller's own history from an import.
THEOREM OwnHistoryStays == ImportSpec => ImportKeepsHistory
<1> DEFINE Kept ==
      proc # "server" => /\ IDs(disk) \subseteq IDs(disk')
                         /\ \A e \in IDs(disk) : origin[e] = NoLegacy => logs'[e] = logs[e]
<1>1. ASSUME IInv, [ImportNext]_allvars PROVE [Kept]_allvars
  <2> SUFFICES ASSUME ImportNext, proc # "server"
               PROVE  /\ IDs(disk) \subseteq IDs(disk')
                      /\ \A e \in IDs(disk) : origin[e] = NoLegacy => logs'[e] = logs[e]
    BY <1>1
  <2>0. IDs(disk) \subseteq Execs /\ logs \in [Execs -> {"none", "file", "removed", "withdrawn"}]
    BY <1>1 DEF IInv, ImportTypeOK, TypeOK, IDs, Snapshots
  <2>1. ASSUME UNCHANGED <<disk, logs>>
        PROVE  /\ IDs(disk) \subseteq IDs(disk')
               /\ \A e \in IDs(disk) : origin[e] = NoLegacy => logs'[e] = logs[e]
    BY <2>1
  <2>2. \A e \in Staged : e \in Fresh
    BY DEF Staged, Fresh
  <2>3. ASSUME Cleanup, UNCHANGED disk, \A e \in Fresh \cap IDs(disk) : origin[e] # NoLegacy
        PROVE  /\ IDs(disk) \subseteq IDs(disk')
               /\ \A e \in IDs(disk) : origin[e] = NoLegacy => logs'[e] = logs[e]
    BY <2>0, <2>2, <2>3 DEF Cleanup
  <2>4. Unwritten => Fresh \cap IDs(disk) = {}
    BY <1>1 DEF IInv, InvImport
  <2>5. CASE Importing
    <3>1. CASE \E e \in Execs : CopyLog(e)
      <4>1. PICK e \in Execs : CopyLog(e)  BY <3>1
      <4>2. e \in Fresh /\ proc = "copy" /\ logs' = [logs EXCEPT ![e] = "file"] /\ UNCHANGED disk
        BY <4>1, <2>2 DEF CopyLog
      <4> QED BY <2>0, <2>4, <4>2 DEF Unwritten
    <3>2. CASE CopyFails
      BY <2>3, <2>4, <3>2 DEF CopyFails, Unwritten
    <3>3. CASE ApplyImports
      <4>1. CASE Refused  BY <2>3, <2>4, <3>3, <4>1 DEF ApplyImports, Unwritten
      <4>2. CASE ~Refused  BY <2>1, <3>3, <4>2 DEF ApplyImports, Mutate
      <4> QED BY <4>1, <4>2
    <3>4. CASE \E resolved \in SUBSET Legacy : PlanImports(resolved)
      BY <2>1, <3>4 DEF PlanImports, vars
    <3> QED BY <2>5, <3>1, <3>2, <3>3, <3>4 DEF Importing, NewController
  <2>6. ASSUME txn # NoTxn
        PROVE  /\ proc = "commit" /\ txn.deleted = {} /\ Prune(txn.list) = {}
               /\ IDs(Snapshot) = IDs(txn.list) /\ IDs(mem) \subseteq IDs(txn.list)
    <3>1. proc = "commit" /\ txn.list \in Snapshots /\ Sound(txn.list, txn.deleted)
      BY <1>1, <2>6, TxnLaw
    <3>2. txn.deleted = {} /\ Prune(txn.list) = {}
      BY <1>1, <2>6, <3>1 DEF IInv, InvImport
    <3> QED BY <3>1, <3>2, SnapshotLaw DEF Sound
  <2>7. CASE PersistSnapshot
    <3>1. Holding("begun") /\ disk' = Snapshot /\ UNCHANGED logs
      BY <2>7 DEF PersistSnapshot, Persist
    <3>2. mem = disk
      BY <1>1, <2>6, <3>1 DEF IInv, InvImport, Unwritten, Holding
    <3> QED BY <2>6, <3>1, <3>2 DEF Holding
  <2>8. CASE CommitSnapshot
    <3>1. txn # NoTxn /\ RemoveLogs(Prune(txn.list) \cup txn.deleted) /\ UNCHANGED disk
      BY <2>8 DEF CommitSnapshot, Commit, Holding
    <3>2. \A e \in Execs : logs'[e] = logs[e]
      BY <2>0, <2>6, <3>1 DEF RemoveLogs
    <3> QED BY <2>0, <3>1, <3>2
  <2>9. CASE MutateFails
    <3>1. proc = "commit" /\ Cleanup /\ UNCHANGED disk /\ txn # NoTxn /\ (Holding("begun") \/ Holding("written"))
      BY <2>9 DEF MutateFails, Holding
    <3>2. CASE Holding("begun")
      BY <2>3, <2>4, <3>1, <3>2 DEF Unwritten, Holding
    <3>3. CASE Holding("written")
      <4>1. \A e \in Fresh : origin[e] # NoLegacy
        BY <1>1, <3>1, <3>3 DEF IInv, InvImport, Holding
      <4> QED BY <2>3, <3>1, <4>1
    <3> QED BY <3>1, <3>2, <3>3
  <2>10. CASE Stop
    BY <2>1, <2>10 DEF Stop, OpenStore, Open
  <2> QED BY <2>5, <2>7, <2>8, <2>9, <2>10 DEF ImportNext
<1>2. IInv /\ [ImportNext]_allvars => [Kept]_allvars
  BY <1>1
<1>3. ImportSpec => [][Kept]_allvars
  BY <1>2, Invariance, PTL DEF ImportSpec
<1> QED BY <1>3 DEF ImportKeepsHistory
=============================================================================
