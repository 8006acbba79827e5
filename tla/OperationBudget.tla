--------------------------- MODULE OperationBudget ---------------------------
(***************************************************************************)
(* The aggregate budget of one host operation: six meters, one limit each, *)
(* and the sticky flag a refused charge leaves behind.  The budget is a    *)
(* value here, and a charge an operator from a budget to a budget, so that *)
(* every module that spends one keeps it in a variable of its own.         *)
(***************************************************************************)
EXTENDS Naturals

Meters == {"bytes", "nodes", "keys", "leaves", "scans", "findings"}

CONSTANT Limits  \* the limit of each meter

ASSUME LimitsAssumption == Limits \in [Meters -> Nat]

Budget == [spent : [Meters -> Nat], exhausted : BOOLEAN]

FreshBudget == [spent |-> [m \in Meters |-> 0], exhausted |-> FALSE]

\* A meter takes `add` more only while no charge has been refused.
Fits(b, meter, add) == ~b.exhausted /\ b.spent[meter] + add <= Limits[meter]

Refused(b) == [b EXCEPT !.exhausted = TRUE]

\* chargeNode, chargeKey, chargeLeaf (add = 1) and chargeFindings.
Charged(b, meter, add) ==
  IF Fits(b, meter, add) THEN [b EXCEPT !.spent[meter] = @ + add] ELSE Refused(b)

\* A scan is one invocation and its bytes: both meters fit, or neither is spent.
FitsScan(b, bytes) == Fits(b, "scans", 1) /\ Fits(b, "bytes", bytes)

ChargedScan(b, bytes) ==
  IF FitsScan(b, bytes)
  THEN [b EXCEPT !.spent["scans"] = @ + 1, !.spent["bytes"] = @ + bytes]
  ELSE Refused(b)

WithinLimits(b) == \A m \in Meters : b.spent[m] <= Limits[m]
==============================================================================
