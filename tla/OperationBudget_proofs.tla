------------------------ MODULE OperationBudget_proofs ------------------------
(* What every charge of an operation's budget preserves, for every limit. *)
EXTENDS OperationBudget, TLAPS

\* Charging one meter gives a budget; the other meters keep what they spent,
\* and this one moves only when the charge fits.
LEMMA ChargedMeter ==
  ASSUME NEW b \in Budget, NEW meter \in Meters, NEW add \in Nat
  PROVE  /\ Charged(b, meter, add) \in Budget
         /\ \A m \in Meters :
              Charged(b, meter, add).spent[m] =
                IF m = meter /\ Fits(b, meter, add) THEN b.spent[m] + add ELSE b.spent[m]
<1>1. b.spent \in [Meters -> Nat] /\ b.exhausted \in BOOLEAN
  BY DEF Budget
<1>2. CASE Fits(b, meter, add)
  <2> DEFINE spent == [b.spent EXCEPT ![meter] = @ + add]
  <2>1. spent \in [Meters -> Nat]
    BY <1>1
  <2>2. Charged(b, meter, add) = [b EXCEPT !.spent = spent]
    BY <1>2 DEF Charged
  <2>3. Charged(b, meter, add) \in Budget /\ Charged(b, meter, add).spent = spent
    BY <2>1, <2>2 DEF Budget
  <2>4. \A m \in Meters : spent[m] = IF m = meter THEN b.spent[m] + add ELSE b.spent[m]
    BY <1>1
  <2> QED
    BY <1>2, <2>3, <2>4
<1>3. CASE ~Fits(b, meter, add)
  <2>1. Charged(b, meter, add) = [spent |-> b.spent, exhausted |-> TRUE]
    BY <1>3 DEF Charged, Refused, Budget
  <2> QED
    BY <1>1, <1>3, <2>1 DEF Budget
<1> QED
  BY <1>2, <1>3

\* A scan charges its invocation and its bytes together or not at all.
LEMMA ChargedScanMeters ==
  ASSUME NEW b \in Budget, NEW bytes \in Nat
  PROVE  /\ ChargedScan(b, bytes) \in Budget
         /\ FitsScan(b, bytes) =>
              /\ ChargedScan(b, bytes).spent["scans"] = b.spent["scans"] + 1
              /\ ChargedScan(b, bytes).spent["bytes"] = b.spent["bytes"] + bytes
              /\ \A m \in Meters \ {"scans", "bytes"} :
                   ChargedScan(b, bytes).spent[m] = b.spent[m]
         /\ ~FitsScan(b, bytes) => ChargedScan(b, bytes).spent = b.spent
<1>1. b.spent \in [Meters -> Nat] /\ b.exhausted \in BOOLEAN
  BY DEF Budget
<1>2. CASE FitsScan(b, bytes)
  <2> DEFINE spent == [b.spent EXCEPT !["scans"] = @ + 1, !["bytes"] = @ + bytes]
  <2>1. /\ spent \in [Meters -> Nat]
        /\ spent["scans"] = b.spent["scans"] + 1 /\ spent["bytes"] = b.spent["bytes"] + bytes
        /\ \A m \in Meters \ {"scans", "bytes"} : spent[m] = b.spent[m]
    BY <1>1 DEF Meters
  <2>2. ChargedScan(b, bytes) = [b EXCEPT !.spent = spent]
    BY <1>2 DEF ChargedScan, Budget
  <2>3. ChargedScan(b, bytes) \in Budget /\ ChargedScan(b, bytes).spent = spent
    BY <2>1, <2>2 DEF Budget
  <2> HIDE DEF spent
  <2> QED
    BY <1>2, <2>1, <2>3
<1>3. CASE ~FitsScan(b, bytes)
  <2>1. ChargedScan(b, bytes) = [spent |-> b.spent, exhausted |-> TRUE]
    BY <1>3 DEF ChargedScan, Refused, Budget
  <2> QED
    BY <1>1, <1>3, <2>1 DEF Budget
<1> QED
  BY <1>2, <1>3

\* No charge takes a meter over its limit, whatever its size.
THEOREM ChargesStayWithinLimits ==
  ASSUME NEW b \in Budget, WithinLimits(b), NEW meter \in Meters, NEW n \in Nat
  PROVE  WithinLimits(Charged(b, meter, n)) /\ WithinLimits(ChargedScan(b, n))
<1>1. \A m \in Meters : b.spent[m] <= Limits[m]
  BY DEF WithinLimits
<1>2. WithinLimits(Charged(b, meter, n))
  <2> SUFFICES ASSUME NEW m \in Meters PROVE Charged(b, meter, n).spent[m] <= Limits[m]
    BY DEF WithinLimits
  <2>1. CASE m = meter /\ Fits(b, meter, n)
    BY <2>1, ChargedMeter DEF Fits
  <2>2. CASE ~(m = meter /\ Fits(b, meter, n))
    BY <2>2, <1>1, ChargedMeter
  <2> QED
    BY <2>1, <2>2
<1>3. WithinLimits(ChargedScan(b, n))
  <2> SUFFICES ASSUME NEW m \in Meters PROVE ChargedScan(b, n).spent[m] <= Limits[m]
    BY DEF WithinLimits
  <2>1. CASE FitsScan(b, n)
    <3>1. b.spent["scans"] + 1 <= Limits["scans"] /\ b.spent["bytes"] + n <= Limits["bytes"]
      BY <2>1 DEF FitsScan, Fits
    <3> QED
      BY <2>1, <3>1, <1>1, ChargedScanMeters
  <2>2. CASE ~FitsScan(b, n)
    BY <2>2, <1>1, ChargedScanMeters
  <2> QED
    BY <2>1, <2>2
<1> QED
  BY <1>2, <1>3

\* A refused charge spends nothing, and after it no charge of any meter fits.
THEOREM RefusalIsSticky ==
  ASSUME NEW b \in Budget, NEW meter \in Meters, NEW n \in Nat, ~Fits(b, meter, n)
  PROVE  /\ Charged(b, meter, n).spent = b.spent
         /\ \A m \in Meters, k \in Nat :
              ~Fits(Charged(b, meter, n), m, k) /\ ~FitsScan(Charged(b, meter, n), k)
<1>1. Charged(b, meter, n) = [b EXCEPT !.exhausted = TRUE]
  BY DEF Charged, Refused
<1>2. Charged(b, meter, n).spent = b.spent /\ Charged(b, meter, n).exhausted = TRUE
  BY <1>1 DEF Budget
<1> QED
  BY <1>2 DEF Fits, FitsScan
==============================================================================
