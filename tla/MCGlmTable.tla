---- MODULE MCGlmTable ----
(* GlmTable on a machine word of six bits. *)
EXTENDS GlmTable

MCPowers == {2^k : k \in 0 .. 5}
MCKeys == {-1, 0, 1, 5, 9, 31}
MCVals == {0, 1}
====
