----------------------------- MODULE Executions -----------------------------
(***************************************************************************)
(* What the controller's and the agents' modules have in common: the names *)
(* they exchange and the statuses a run can end with.                      *)
(***************************************************************************)
EXTENDS Naturals, FiniteSets

CONSTANTS
  Agents,   \* the configured agents
  Execs,    \* execution IDs
  NoAgent,  \* the empty AgentID
  NoExec    \* the empty execution ID

ASSUME NoAgentAssumption == NoAgent \notin Agents
ASSUME NoExecAssumption == NoExec \notin Execs

\* The terminal statuses: isExecutionTerminal and normalizeResultStatus.
Results == {"SUCCESS", "FAILED", "CANCELED", "ABORTED"}
=============================================================================
