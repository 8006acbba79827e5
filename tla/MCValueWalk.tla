------------------------------ MODULE MCValueWalk ------------------------------
(* Values of ValueWalk's constants for TLC.                                *)
EXTENDS ValueWalk, TLC

\* An operation runs out of keys, findings and nodes, a walk of leaves.
SmallLimits ==
  [m \in Meters |-> CASE m = "bytes" -> 9 [] m = "nodes" -> 4 [] m = "keys" -> 1 [] m = "scans" -> 3 [] OTHER -> 2]

\* Objects are interchangeable.
WalkSymmetry == Permutations(Objects)
==============================================================================
