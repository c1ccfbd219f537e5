----------------------------- MODULE MCTagWrite -----------------------------
EXTENDS TagWriteJobs

MCTag == {<<1, "f">>, <<1, "g">>, <<2, "f">>}
MCPlan == {[tags |-> MCTag, from |-> 0, to |-> 1], [tags |-> MCTag, from |-> 1, to |-> 0]}

MCOneTag == {<<1, "f">>}
MCOnePlan == {[p EXCEPT !.tags = MCOneTag] : p \in MCPlan}
=============================================================================
