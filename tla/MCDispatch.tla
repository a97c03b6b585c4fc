----------------------------- MODULE MCDispatch -----------------------------
(* Dispatch with labels that match every agent.                            *)
EXTENDS DispatchInvariant

AllMatch == [e \in Execs |-> Agents]
=============================================================================
