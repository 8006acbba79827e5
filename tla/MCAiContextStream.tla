-------------------------- MODULE MCAiContextStream --------------------------
(* Small instances of AiContextStream for TLC. *)
EXTENDS AiContextStream

\* Three findings fit in one stream; the other meters are never charged.
FewFindings == [m \in Meters |-> IF m = "findings" THEN 3 ELSE 0]
==============================================================================
