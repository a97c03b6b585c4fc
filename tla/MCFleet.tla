------------------------------ MODULE MCFleet ------------------------------
EXTENDS Fleet

\* Agent 1 has more labels than agent 2; execution 1 needs them, 2 does not.
MCMatches == [e \in Execs |-> IF e = 1 THEN {1} ELSE Agents]
=============================================================================
