----------------------------- MODULE MCAgentWork -----------------------------
EXTENDS AgentWork

CONSTANTS router, r1, r2

MCTrialLimit == [r \in {r1, r2} |-> IF r = r1 THEN 1 ELSE 2]
MCTogether == {{router}, {r1, r2}}
=============================================================================
