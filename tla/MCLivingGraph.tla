---------------------------- MODULE MCLivingGraph ----------------------------
EXTENDS LivingGraph

CONSTANTS o1, o2, o3, ab, ac

MCAvailable == [o \in Obs |-> IF o = o2 THEN 2 ELSE 1]
MCCalls == <<[adapter |-> "web", offers |-> {o1, o2}], [adapter |-> "web", offers |-> {o3}]>>
MCEntities == [o \in Obs |-> IF o = o3 THEN {"A", "C"} ELSE {"A", "B"}]
MCMentioned == [o \in Obs |-> IF o = o3 THEN {"A", "X"} ELSE {"A", "B"}]  \* C is found in the text
MCPair == [e \in Edge |-> IF e = ab THEN {"A", "B"} ELSE {"A", "C"}]
=============================================================================
