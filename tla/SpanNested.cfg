\* Three spans that end on two threads, each wherever host code runs.
SPECIFICATION SpanSpec
CONSTANTS
  Limits <- SmallLimits
  Threads = {t1, t2}
  Spans = {s1, s2, s3}
  Nobody = Nobody
  WarningsRaise = FALSE
  Bodies <- SmallBodies
SYMMETRY SpanSymmetry
INVARIANTS
  ExportedIsMasked
  CountsAreTheSpans
  EndsAsIfAlone
\* Every span ends once.
CHECK_DEADLOCK FALSE
