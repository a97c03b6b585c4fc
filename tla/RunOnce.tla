------------------------------ MODULE RunOnce ------------------------------
(***************************************************************************)
(* What builda promises the caller of a run, without agents, messages or   *)
(* journals: an accepted run waits, is permitted to start at most once, is *)
(* started at most once and only if it was permitted, gets one verdict     *)
(* that nothing changes afterwards, and may then be forgotten.  A run that *)
(* was never permitted can only be canceled.                               *)
(***************************************************************************)
EXTENDS Executions

VARIABLES
  stage,      \* stage[e]: absent, waiting, permitted, done or forgotten
  everPermitted,
  starts,     \* starts[e]: processes started for the run
  verdict     \* verdict[e]: the status a done run ended with

absVars == <<stage, everPermitted, starts, verdict>>

AbsInit ==
  /\ stage = [e \in Execs |-> "absent"]
  /\ everPermitted = [e \in Execs |-> FALSE]
  /\ starts = [e \in Execs |-> 0]
  /\ verdict = [e \in Execs |-> "none"]

Accept(e) ==
  /\ stage[e] = "absent"
  /\ stage' = [stage EXCEPT ![e] = "waiting"]
  /\ UNCHANGED <<everPermitted, starts, verdict>>

Permit(e) ==
  /\ stage[e] = "waiting"
  /\ stage' = [stage EXCEPT ![e] = "permitted"]
  /\ everPermitted' = [everPermitted EXCEPT ![e] = TRUE]
  /\ UNCHANGED <<starts, verdict>>

\* The process starts; the verdict may have been given over the agent's head.
Start(e) ==
  /\ everPermitted[e] /\ starts[e] = 0
  /\ starts' = [starts EXCEPT ![e] = 1]
  /\ UNCHANGED <<stage, everPermitted, verdict>>

Decide(e, v) ==
  /\ stage[e] = "permitted" \/ (stage[e] = "waiting" /\ v = "CANCELED")
  /\ stage' = [stage EXCEPT ![e] = "done"]
  /\ verdict' = [verdict EXCEPT ![e] = v]
  /\ UNCHANGED <<everPermitted, starts>>

Forget(e) ==
  /\ stage[e] = "done"
  /\ stage' = [stage EXCEPT ![e] = "forgotten"]
  /\ verdict' = [verdict EXCEPT ![e] = "none"]
  /\ UNCHANGED <<everPermitted, starts>>

AbsNext ==
  \E e \in Execs :
    Accept(e) \/ Permit(e) \/ Start(e) \/ (\E v \in Results : Decide(e, v)) \/ Forget(e)

AbsSpec == AbsInit /\ [][AbsNext]_absVars
=============================================================================
