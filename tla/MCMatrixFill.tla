---- MODULE MCMatrixFill ----
EXTENDS MatrixFill

MCPowers == {2^k : k \in 0 .. 5}
MCVals == 0 .. 8
MCKeys == {}

MCMakes == {"inline", "named", "before", "none"}
Covered == {s \in [make : MCMakes, rows : 0 .. 6, cols : 0 .. 6] : Roomy(s)}
====
