----------------------------- MODULE MCMcpStream -----------------------------
(* Small instances of McpStream for TLC. *)
EXTENDS McpStream

\* Two findings fit in one stream; the other meters are never charged.
FewFindings == [m \in Meters |-> IF m = "findings" THEN 2 ELSE 0]
==============================================================================
