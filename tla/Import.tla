------------------------------- MODULE Import -------------------------------
(***************************************************************************)
(* migrate import: the terminal runs of a standalone installation become   *)
(* executions of a controller.  The command opens the store of a stopped   *)
(* controller as its only writer, plans, copies each log under a new ID,   *)
(* and commits all of it in one transaction, together with a ledger of     *)
(* what was imported.  It may stop anywhere and be repeated.               *)
(*                                                                         *)
(* A legacy run is a number.  Which of them a bundle, its mapping and the  *)
(* configuration let through differs from one import to the next; a run    *)
(* that is not over, or does not resolve, is skipped.                      *)
(***************************************************************************)
EXTENDS History

CONSTANTS
  MaxLegacy,  \* bound on the legacy runs
  Logged,     \* those whose log the bundle has
  MaxImports  \* bound on the imports

Legacy == 1 .. MaxLegacy
NoLegacy == 0

ASSUME ImportAssumption == MaxLegacy \in Nat \ {0} /\ MaxImports \in Nat /\ Logged \subseteq Legacy

VARIABLES
  proc,      \* the process that has the store: the server, or an import and its step
  ledger,    \* ImportedOrigins in the snapshot and in memory
  origin,    \* origin[e]: the Origin of an execution that was ever in a snapshot
  plan,      \* planned imports: legacy run to new ID
  imports    \* how many imports there were

ivars == <<proc, ledger, origin, plan, imports>>
allvars == <<vars, ivars>>

NoPlan == [l \in {} |-> NoExec]
Steps == {"plan", "copy", "commit", "over"}

ImportTypeOK ==
  /\ TypeOK
  /\ proc \in Steps \cup {"server"}
  /\ ledger \in [disk : SUBSET Legacy, mem : SUBSET Legacy]
  /\ origin \in [Execs -> Legacy \cup {NoLegacy}]
  /\ DOMAIN plan \subseteq Legacy /\ \A l \in DOMAIN plan : plan[l] \in Execs
  /\ imports \in 0 .. MaxImports

\* Mutant: the ledger is only what was written.
LoadRaw(written, list, from) == written

\* load with backfillImportedOrigins.
Load(written, list, from) == written \cup ({from[e] : e \in IDs(list)} \ {NoLegacy})

\* A new controller, or one whose snapshot was written before there was a
\* ledger and lists an imported run.
ImportInit ==
  /\ proc = "server" /\ plan = NoPlan /\ imports = 0
  /\ \/ StartsWith(Empty) /\ origin = [e \in Execs |-> NoLegacy]
     \/ /\ StartsWith([Empty EXCEPT !.done = {1}])
        /\ origin = [e \in Execs |-> IF e = 1 THEN 1 ELSE NoLegacy]
  /\ ledger = [disk |-> {}, mem |-> Load({}, disk, origin)]

OpenStore == Open /\ ledger' = [ledger EXCEPT !.mem = Load(ledger.disk, disk, origin)]

-----------------------------------------------------------------------------
(* The import.                                                             *)

\* The controller was stopped, and the command opens its store.
NewController ==
  /\ proc = "server" /\ imports < MaxImports
  /\ proc' = "plan" /\ imports' = imports + 1
  /\ OpenStore
  /\ UNCHANGED <<faults, origin, plan>>

\* Mutant: the runs that are already there are not counted.
FitsAlone(n) == n <= cap

\* checkHistoryHeadroom.
Fits(n) == Cardinality(mem.done) + n <= cap

\* planImports: what the ledger does not have gets fresh IDs, in its order.  With
\* nothing to do, or no room for it, the snapshot is left alone.
PlanImports(resolved) ==
  /\ proc = "plan"
  /\ LET new == resolved \ ledger.mem
     IN  IF new = {} \/ ~Fits(Cardinality(new))
         THEN proc' = "over" /\ UNCHANGED plan
         ELSE /\ proc' = "copy"
              /\ plan' \in {p \in [new -> Free] : \A l, m \in new : l < m => p[l] < p[m]}
  /\ UNCHANGED <<vars, ledger, origin, imports>>

Staged == {plan[l] : l \in DOMAIN plan \cap Logged}

\* copyFile: the log is durable before anything refers to it.
CopyLog(e) ==
  /\ proc = "copy" /\ e \in Staged /\ logs[e] = "none"
  /\ logs' = [logs EXCEPT ![e] = "file"]
  /\ UNCHANGED <<disk, mem, cap, txn, client, gone, faults, ivars>>

\* cleanup removes what was copied, or fails to.  If a snapshot that counts as
\* not written lists the run after all, the run has lost its log.
Cleanup ==
  /\ proc' = "over" /\ plan' = NoPlan
  /\ \/ UNCHANGED logs
     \/ logs' = [e \in Execs |-> IF e \in Staged /\ logs[e] = "file"
                                 THEN IF e \in IDs(disk) THEN "withdrawn" ELSE "none"
                                 ELSE logs[e]]

CopyFails ==
  /\ proc = "copy" /\ \E e \in Staged : logs[e] = "none"
  /\ Cleanup
  /\ UNCHANGED <<disk, mem, cap, txn, client, gone, faults, ledger, origin, imports>>

\* The transaction's fn, which looks at everything once more.
Refused ==
  \/ \E l \in DOMAIN plan : plan[l] \in IDs(mem) \/ l \in ledger.mem
  \/ ~Fits(Cardinality(DOMAIN plan))

Imported == [e \in {plan[l] : l \in DOMAIN plan} |-> CHOOSE l \in DOMAIN plan : plan[l] = e]

ApplyImports ==
  /\ proc = "copy" /\ \A e \in Staged : logs[e] = "file"
  /\ IF Refused THEN Cleanup /\ UNCHANGED <<disk, mem, cap, txn, client, gone, faults>>
     ELSE /\ proc' = "commit" /\ UNCHANGED <<cap, plan>>
          /\ Mutate([mem EXCEPT !.done = @ \cup DOMAIN Imported], {})
  /\ UNCHANGED <<ledger, origin, imports>>

-----------------------------------------------------------------------------
(* The transaction: the server's, or the import's.                         *)

\* A snapshot has the executions and the ledger.
PersistSnapshot ==
  /\ Persist
  /\ ledger' = [ledger EXCEPT !.disk = ledger.mem \cup DOMAIN plan]
  /\ origin' = [e \in Execs |-> IF e \in DOMAIN Imported THEN Imported[e] ELSE origin[e]]
  /\ UNCHANGED <<proc, plan, imports>>

CommitSnapshot ==
  /\ Commit
  /\ ledger' = [ledger EXCEPT !.mem = ledger.mem \cup DOMAIN plan]
  /\ plan' = NoPlan /\ proc' = IF proc = "server" THEN "server" ELSE "over"
  /\ UNCHANGED <<origin, imports>>

\* A server's mutation fails without a trace; an import cleans up.
MutateFails ==
  \/ proc = "server" /\ (PersistFails \/ SyncFails) /\ UNCHANGED ivars
  \/ /\ proc = "commit" /\ Cleanup
     /\ \/ Holding("begun") /\ UNCHANGED faults
        \/ Holding("written") /\ faults < MaxFaults /\ faults' = faults + 1
     /\ txn' = NoTxn
     /\ UNCHANGED <<disk, mem, cap, client, gone, ledger, origin, imports>>

\* The process stops at any point.  After an import the controller is started.
Stop ==
  /\ \/ proc = "over" /\ UNCHANGED faults
     \/ proc # "over" /\ faults < MaxFaults /\ faults' = faults + 1
  /\ OpenStore /\ proc' = "server" /\ plan' = NoPlan
  /\ UNCHANGED <<origin, imports>>

-----------------------------------------------------------------------------
Importing ==
  \/ NewController \/ (\E resolved \in SUBSET Legacy : PlanImports(resolved))
  \/ \E e \in Execs : CopyLog(e)
  \/ CopyFails \/ ApplyImports

ImportNext ==
  \/ proc = "server" /\ Serve /\ UNCHANGED ivars
  \/ Importing
  \/ PersistSnapshot \/ CommitSnapshot \/ MutateFails \/ Stop

ImportSpec ==
  /\ ImportInit /\ [][ImportNext]_allvars
  /\ WF_allvars(PersistSnapshot \/ CommitSnapshot)
  /\ \A w \in Clients : SF_allvars(Wait(w) /\ UNCHANGED ivars)

-----------------------------------------------------------------------------
(* Properties                                                              *)

\* The types, and: "a persistence failure never acknowledges an enqueue,
\* assignment, or start", of the server's mutations and of an import.
Inv == ImportTypeOK /\ ShownIsDurable

\* "Neither may let a legacy run be imported twice": repeated, interrupted and
\* failed imports never list a legacy run under two IDs, whatever was pruned or
\* deleted in between, and also if the snapshot is older than the ledger.
ImportedOnce ==
  \A e, f \in Execs : origin[e] # NoLegacy /\ origin[e] = origin[f] => e = f

\* "Letting it through would prune the controller's own oldest runs and their
\* logs": as long as an import has the store, whatever it does and wherever it
\* fails, no run and no log of a run leaves the history.
ImportKeepsHistory ==
  [][proc # "server" => /\ IDs(disk) \subseteq IDs(disk')
                        /\ \A e \in IDs(disk) : origin[e] = NoLegacy => logs'[e] = logs[e]]_allvars
=============================================================================
