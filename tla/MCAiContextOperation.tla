------------------------- MODULE MCAiContextOperation -------------------------
(* A small instance of AiContextOperation for TLC. *)
EXTENDS AiContextOperation

\* Two parts of two nodes each, or one of three; every meter can run out.
SmallOperation ==
  [nodes |-> 4, keys |-> 2, leaves |-> 3, scans |-> 5, bytes |-> 22, findings |-> 2]
==============================================================================
