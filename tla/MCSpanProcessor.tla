--------------------------- MODULE MCSpanProcessor ---------------------------
(* Values of SpanProcessor's constants for TLC.                            *)
EXTENDS SpanProcessor, TLC

\* A second text may be past the leaves, the scans or the findings.
SmallLimits == [m \in Meters |-> IF m \in {"leaves", "scans", "findings"} THEN 1 ELSE 2]

\* Two secrets, or one plain text.
SmallBodies == {[secret |-> 2, plain |-> 0], [secret |-> 0, plain |-> 1]}

\* Threads and spans are interchangeable.
SpanSymmetry == Permutations(Threads) \cup Permutations(Spans)
==============================================================================
