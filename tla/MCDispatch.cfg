SPECIFICATION FairSpec
CONSTANTS
  Agents = {a1, a2}
  Execs = {e1}
  NoAgent = NoAgent
  NoExec = NoExec
  Matches <- AllMatch
  MaxLate = 1
  FaultyDisks = {a2}
INVARIANTS IInv AtMostOnce NoPermitNoProcess EndIsConfirmed SuccessIsReal NoLostRun
PROPERTIES TerminalIsFinal PermitIsFinal RunsOnce CancelCompletes
