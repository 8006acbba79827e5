---------------------------- MODULE Masking_proofs ----------------------------
(***************************************************************************)
(* Proofs about the two ways text is masked in place.  LogRecords: in      *)
(* either language, however records nest and threads interleave, no record *)
(* is handed on with a text that was not masked, what is reported of a     *)
(* record are its own units, and each pass is reported once.  ValueWalk:   *)
(* whatever the value, no walk returns what should have been masked, every *)
(* marker it puts out is counted, and it stays within its limits.          *)
(***************************************************************************)
EXTENDS LogRecords, ValueWalk, OperationBudget_proofs, FiniteSetTheorems, SequenceTheorems,
        WellFoundedInduction, TLAPS

-----------------------------------------------------------------------------
(* The units of a record.                                                  *)

LogFields == IF language = "JavaScript" THEN JsFields ELSE PyFields

LogRecord == [LogFields -> Contents]

Clean(content) == content \notin Raw

\* What the field f of the record r holds may be passed on.
Fit(r, f, content) ==
  Clean(content) \/ (r \in readOnly /\ f \in {"body", "attribute"} /\ content = "opaque")

\* A record fit to be passed on holds nothing raw but what SeemsTaken.
LEMMA FitToPass ==
  NothingRawIsPassedOn <=> \A r \in passedOn : \A f \in DOMAIN record[r] : Fit(r, f, record[r][f])
  BY DEF NothingRawIsPassedOn, SeemsTaken, Fit, Clean

\* The place of the unit a field belongs to.
UnitOf(f) ==
  CASE f \in {"body", "msg", "args"} -> 1
    [] f \in {"severityText", "exc_info", "exc_text"} -> 2
    [] f \in {"eventName", "stack_info"} -> 3
    [] OTHER -> 4

\* Units is a list of four.
LEMMA FourUnits ==
  /\ DOMAIN Units = 1 .. 4
  /\ language = "JavaScript" =>
       Units[1] = "body" /\ Units[2] = "severityText" /\ Units[3] = "eventName" /\ Units[4] = "attribute"
  /\ language # "JavaScript" =>
       Units[1] = "message" /\ Units[2] = "exception" /\ Units[3] = "stack_info" /\ Units[4] = "extra"
  BY DEF Units

\* The text of each unit of a JavaScript record is its field.
LEMMA JsTexts ==
  ASSUME language = "JavaScript", NEW rec
  PROVE  /\ Text(rec, Units[1]) = rec["body"] /\ Text(rec, Units[2]) = rec["severityText"]
         /\ Text(rec, Units[3]) = rec["eventName"] /\ Text(rec, Units[4]) = rec["attribute"]
  BY FourUnits DEF Text

\* And of a Python record, what a formatter would make of them.
LEMMA PyTexts ==
  ASSUME language # "JavaScript", NEW rec
  PROVE  /\ Text(rec, Units[1]) = Message(rec) /\ Text(rec, Units[2]) = Exception(rec)
         /\ Text(rec, Units[3]) = rec["stack_info"] /\ Text(rec, Units[4]) = rec["extra"]
  BY FourUnits DEF Text

\* A unit's text is a content; the fields of one that is absent hold nothing raw.
LEMMA TextOfUnit ==
  ASSUME NEW rec \in LogRecord, NEW n \in 1 .. 4
  PROVE  /\ Text(rec, Units[n]) \in Contents
         /\ Text(rec, Units[n]) = "absent" => \A f \in LogFields : UnitOf(f) = n => Clean(rec[f])
<1>1. CASE language = "JavaScript"
  <2>1. rec \in [JsFields -> Contents]
    BY <1>1 DEF LogRecord, LogFields
  <2>2. Text(rec, Units[n]) \in Contents
    BY <1>1, <2>1, JsTexts DEF JsFields
  <2>3. ASSUME Text(rec, Units[n]) = "absent", NEW f \in JsFields, UnitOf(f) = n
        PROVE  Clean(rec[f])
    BY <1>1, <2>1, <2>3, JsTexts DEF JsFields, UnitOf, Clean, Raw
  <2> QED
    BY <1>1, <2>2, <2>3 DEF LogFields
<1>2. CASE language # "JavaScript"
  <2>1. rec \in [PyFields -> Contents]
    BY <1>2 DEF LogRecord, LogFields
  <2>2. /\ rec["msg"] \in Contents /\ rec["args"] \in Contents /\ rec["exc_info"] \in Contents
        /\ rec["exc_text"] \in Contents /\ rec["stack_info"] \in Contents /\ rec["extra"] \in Contents
    BY <2>1 DEF PyFields
  <2>3. /\ Message(rec) \in Contents /\ Exception(rec) \in Contents
        /\ Message(rec) = "absent" => Clean(rec["msg"]) /\ Clean(rec["args"])
        /\ Exception(rec) = "absent" => Clean(rec["exc_info"]) /\ Clean(rec["exc_text"])
    BY <2>2 DEF Message, Exception, Contents, Clean, Raw
  <2>4. Text(rec, Units[n]) \in Contents
    BY <1>2, <2>2, <2>3, PyTexts
  <2>5. ASSUME Text(rec, Units[n]) = "absent", NEW f \in PyFields, UnitOf(f) = n
        PROVE  Clean(rec[f])
    <3>1. /\ n = 1 => Clean(rec["msg"]) /\ Clean(rec["args"])
          /\ n = 2 => Clean(rec["exc_info"]) /\ Clean(rec["exc_text"])
          /\ n = 3 => Clean(rec["stack_info"])
          /\ n = 4 => Clean(rec["extra"])
      BY <1>2, <2>3, <2>5, PyTexts DEF Clean, Raw
    <3> QED
      BY <2>5, <3>1 DEF PyFields, UnitOf
  <2> QED
    BY <1>2, <2>4, <2>5 DEF LogFields
<1> QED
  BY <1>1, <1>2

\* Writing a unit sets its own fields, and leaves the text of the others.
LEMMA WrittenUnit ==
  ASSUME NEW rec \in LogRecord, NEW n \in 1 .. 4, NEW text \in Contents
  PROVE  /\ Written(rec, Units[n], text) \in LogRecord
         /\ Clean(text) => \A f \in LogFields : UnitOf(f) = n => Clean(Written(rec, Units[n], text)[f])
         /\ \A f \in LogFields : UnitOf(f) # n => Written(rec, Units[n], text)[f] = rec[f]
         /\ language = "JavaScript" =>
              \A f \in LogFields : UnitOf(f) = n =>
                f = Units[n] /\ Written(rec, Units[n], text)[f] = text /\ rec[f] = Text(rec, Units[n])
         /\ \A m \in (1 .. 4) \ {n} : Text(Written(rec, Units[n], text), Units[m]) = Text(rec, Units[m])
<1> DEFINE new == Written(rec, Units[n], text)
<1>1. CASE language = "JavaScript"
  <2>1. rec \in [JsFields -> Contents]
    BY <1>1 DEF LogRecord, LogFields
  <2>2. PICK u \in JsFields : Units[n] = u /\ UnitOf(u) = n /\ \A f \in JsFields : UnitOf(f) = n => f = u
    BY <1>1, FourUnits DEF JsFields, UnitOf
  <2>3. new = [rec EXCEPT ![u] = text]
    BY <2>2 DEF Written, JsFields
  <2> HIDE DEF new
  <2>4. new \in [JsFields -> Contents] /\ new[u] = text /\ \A f \in JsFields \ {u} : new[f] = rec[f]
    BY <2>1, <2>3
  <2>5. \A f \in JsFields : UnitOf(f) # n => new[f] = rec[f]
    BY <2>2, <2>4
  <2>6. \A m \in (1 .. 4) \ {n} : Text(new, Units[m]) = Text(rec, Units[m])
    BY <1>1, <2>2, <2>5, JsTexts DEF JsFields, UnitOf
  <2>7. new \in LogRecord
    BY <1>1, <2>4 DEF LogRecord, LogFields
  <2>8. Clean(text) => \A f \in JsFields : UnitOf(f) = n => Clean(new[f])
    BY <2>2, <2>4
  <2>9. \A f \in JsFields : UnitOf(f) = n => f = Units[n] /\ new[f] = text /\ rec[f] = Text(rec, Units[n])
    BY <1>1, <2>2, <2>4, JsTexts DEF JsFields, UnitOf
  <2> QED
    BY <1>1, <2>5, <2>6, <2>7, <2>8, <2>9 DEF LogFields, new
<1>2. CASE language # "JavaScript"
  <2>1. rec \in [PyFields -> Contents]
    BY <1>2 DEF LogRecord, LogFields
  <2>2. CASE n = 1
    <3>1. new = [rec EXCEPT !["msg"] = text, !["args"] = "absent"]
      BY <1>2, <2>2, FourUnits DEF Written
    <3> HIDE DEF new
    <3>2. /\ new \in [PyFields -> Contents] /\ new["msg"] = text /\ new["args"] = "absent"
          /\ \A f \in PyFields \ {"msg", "args"} : new[f] = rec[f]
      BY <2>1, <3>1 DEF PyFields, Contents
    <3>3. \A m \in (1 .. 4) \ {n} : Text(new, Units[m]) = Text(rec, Units[m])
      BY <1>2, <2>2, <3>2, PyTexts DEF PyFields, Exception
    <3>4. new \in LogRecord
      BY <1>2, <3>2 DEF LogRecord, LogFields
    <3>5. Clean(text) => \A f \in PyFields : UnitOf(f) = n => Clean(new[f])
      BY <2>2, <3>2 DEF PyFields, UnitOf, Clean, Raw
    <3>6. \A f \in PyFields : UnitOf(f) # n => new[f] = rec[f]
      BY <2>2, <3>2 DEF PyFields, UnitOf
    <3> QED
      BY <1>2, <3>3, <3>4, <3>5, <3>6 DEF LogFields, new
  <2>3. CASE n = 2
    <3>1. new = [rec EXCEPT !["exc_text"] = text, !["exc_info"] = "absent"]
      BY <1>2, <2>3, FourUnits DEF Written
    <3> HIDE DEF new
    <3>2. /\ new \in [PyFields -> Contents] /\ new["exc_text"] = text /\ new["exc_info"] = "absent"
          /\ \A f \in PyFields \ {"exc_text", "exc_info"} : new[f] = rec[f]
      BY <2>1, <3>1 DEF PyFields, Contents
    <3>3. \A m \in (1 .. 4) \ {n} : Text(new, Units[m]) = Text(rec, Units[m])
      BY <1>2, <2>3, <3>2, PyTexts DEF PyFields, Message
    <3>4. new \in LogRecord
      BY <1>2, <3>2 DEF LogRecord, LogFields
    <3>5. Clean(text) => \A f \in PyFields : UnitOf(f) = n => Clean(new[f])
      BY <2>3, <3>2 DEF PyFields, UnitOf, Clean, Raw
    <3>6. \A f \in PyFields : UnitOf(f) # n => new[f] = rec[f]
      BY <2>3, <3>2 DEF PyFields, UnitOf
    <3> QED
      BY <1>2, <3>3, <3>4, <3>5, <3>6 DEF LogFields, new
  <2>4. CASE n \in {3, 4}
    <3>1. PICK u \in {"stack_info", "extra"} :
            u = Units[n] /\ UnitOf(u) = n /\ \A f \in PyFields : UnitOf(f) = n => f = u
      BY <1>2, <2>4, FourUnits DEF PyFields, UnitOf
    <3>2. new = [rec EXCEPT ![u] = text]
      BY <3>1 DEF Written
    <3> HIDE DEF new
    <3>3. new \in [PyFields -> Contents] /\ new[u] = text /\ \A f \in PyFields \ {u} : new[f] = rec[f]
      BY <2>1, <3>1, <3>2 DEF PyFields
    <3>4. \A f \in PyFields : UnitOf(f) # n => new[f] = rec[f]
      BY <3>1, <3>3
    <3>5. \A m \in (1 .. 4) \ {n} : Text(new, Units[m]) = Text(rec, Units[m])
      <4>1. Message(new) = Message(rec) /\ Exception(new) = Exception(rec)
        BY <3>1, <3>3 DEF PyFields, Message, Exception
      <4>2. (n = 3 => new["extra"] = rec["extra"]) /\ (n = 4 => new["stack_info"] = rec["stack_info"])
        BY <3>1, <3>3 DEF PyFields, UnitOf
      <4> QED
        BY <1>2, <2>4, <4>1, <4>2, PyTexts
    <3>6. new \in LogRecord
      BY <1>2, <3>3 DEF LogRecord, LogFields
    <3>7. Clean(text) => \A f \in PyFields : UnitOf(f) = n => Clean(new[f])
      BY <3>1, <3>3
    <3> QED
      BY <1>2, <3>4, <3>5, <3>6, <3>7 DEF LogFields, new
  <2> QED
    BY <2>2, <2>3, <2>4
<1> QED
  BY <1>1, <1>2

\* A set of units has a first one.
LEMMA FirstUnit ==
  ASSUME NEW todo \in SUBSET (1 .. 4), todo # {}
  PROVE  Min(todo) \in todo
<1>1. \E i \in todo : \A j \in todo : i <= j
  <2>1. CASE 1 \in todo
    BY <2>1
  <2>2. CASE 1 \notin todo /\ 2 \in todo
    BY <2>2
  <2>3. CASE 1 \notin todo /\ 2 \notin todo /\ 3 \in todo
    BY <2>3
  <2>4. CASE 1 \notin todo /\ 2 \notin todo /\ 3 \notin todo
    <3>1. \A j \in todo : j = 4
      BY <2>4
    <3>2. PICK j \in todo : TRUE
      OBVIOUS
    <3>3. \A i \in todo : j <= i
      BY <3>1, <3>2
    <3> QED
      BY <3>2, <3>3
  <2> QED
    BY <2>1, <2>2, <2>3, <2>4
<1> QED
  BY <1>1 DEF Min

\* Sets of units are finite.
LEMMA UnitsAreFew ==
  ASSUME NEW todo \in SUBSET (1 .. 4)
  PROVE  IsFiniteSet(todo) /\ Cardinality(todo) \in Nat
<1>1. IsFiniteSet(1 .. 4)
  <2>1. 1 \in Int /\ 4 \in Int
    OBVIOUS
  <2> QED
    BY <2>1, FS_Interval
<1>2. IsFiniteSet(todo)
  BY <1>1, FS_Subset
<1> QED
  BY <1>2, FS_CardinalityType

-----------------------------------------------------------------------------
(* The payment of a unit.                                                  *)

\* The meters a unit can be charged on.
Tolls == {"nodes", "leaves", "scans"}

\* A payment from the budget b that got as far as the meters in `done`.
PaidOf(p, b, done) ==
  /\ p \in [budget : Budget, refused : BOOLEAN]
  /\ \A m \in Meters : p.budget.spent[m] = b.spent[m] \/ (m \in done /\ p.budget.spent[m] = b.spent[m] + 1)
  /\ ~p.refused => p.budget.exhausted = b.exhausted
  /\ p.refused => b.exhausted \/ \E m \in Tolls : b.spent[m] + 1 > Limits[m]

\* One more charge.
LEMMA PaidMeter ==
  ASSUME NEW b \in Budget, NEW p, NEW done, PaidOf(p, b, done), NEW meter \in Tolls, meter \notin done
  PROVE  PaidOf(Paid(p, meter), b, done \cup {meter}) /\ PaidOf(p, b, done \cup {meter})
<1>1. p.budget \in Budget /\ p.refused \in BOOLEAN /\ meter \in Meters
  BY DEF PaidOf, Tolls, Meters
<1>2. PaidOf(p, b, done \cup {meter})
  BY DEF PaidOf
<1>3. CASE p.refused
  <2>1. Paid(p, meter) = p
    BY <1>3 DEF Paid
  <2> QED
    BY <1>2, <2>1
<1>4. CASE ~p.refused /\ Fits(p.budget, meter, 1)
  <2> DEFINE c == Charged(p.budget, meter, 1)
  <2>1. /\ c \in Budget
        /\ \A m \in Meters : c.spent[m] = IF m = meter THEN p.budget.spent[m] + 1 ELSE p.budget.spent[m]
    BY <1>1, <1>4, ChargedMeter
  <2>2. c.exhausted = p.budget.exhausted
    <3>1. c = [p.budget EXCEPT !.spent[meter] = @ + 1]
      BY <1>4 DEF Charged
    <3> QED
      BY <1>1, <3>1 DEF Budget
  <2>3. Paid(p, meter) = [p EXCEPT !.budget = c]
    BY <1>4 DEF Paid
  <2> HIDE DEF c
  <2>4. /\ Paid(p, meter) \in [budget : Budget, refused : BOOLEAN]
        /\ Paid(p, meter).budget = c /\ Paid(p, meter).refused = p.refused
    BY <2>1, <2>3 DEF PaidOf
  <2>5. \A m \in Meters : c.spent[m] = b.spent[m] \/ (m \in done \cup {meter} /\ c.spent[m] = b.spent[m] + 1)
    <3>1. p.budget.spent[meter] = b.spent[meter]
      BY <1>1 DEF PaidOf
    <3>2. \A m \in Meters : p.budget.spent[m] = b.spent[m] \/ (m \in done /\ p.budget.spent[m] = b.spent[m] + 1)
      BY DEF PaidOf
    <3> QED
      BY <2>1, <3>1, <3>2
  <2> QED
    BY <1>2, <1>4, <2>2, <2>4, <2>5 DEF PaidOf
<1>5. CASE ~p.refused /\ ~Fits(p.budget, meter, 1)
  <2> DEFINE c == IF language = "Python" THEN Refused(p.budget) ELSE p.budget
  <2>1. c \in Budget /\ c.spent = p.budget.spent
    BY <1>1 DEF Refused, Budget
  <2>2. Paid(p, meter) = [budget |-> c, refused |-> TRUE]
    BY <1>5 DEF Paid
  <2> HIDE DEF c
  <2>3. /\ Paid(p, meter) \in [budget : Budget, refused : BOOLEAN]
        /\ Paid(p, meter).budget = c /\ Paid(p, meter).refused
    BY <2>1, <2>2
  <2>4. b.exhausted \/ b.spent[meter] + 1 > Limits[meter]
    <3>1. p.budget.spent[meter] = b.spent[meter] /\ p.budget.exhausted = b.exhausted
      BY <1>1, <1>5 DEF PaidOf
    <3>2. b.spent[meter] \in Nat /\ Limits[meter] \in Nat
      BY <1>1, LimitsAssumption DEF Budget
    <3> QED
      BY <1>5, <3>1, <3>2 DEF Fits
  <2> QED
    BY <1>2, <2>1, <2>3, <2>4 DEF PaidOf
<1> QED
  BY <1>2, <1>3, <1>4, <1>5

\* A unit costs at most one on each meter, nothing is charged for findings, and
\* a charge is refused only where one more does not fit.
LEMMA PaymentOf ==
  ASSUME NEW b \in Budget, NEW rec, NEW unit, NEW text
  PROVE  PaidOf(Payment(rec, unit, text, b), b, Tolls)
<1> DEFINE Due(payment, meter) ==
             IF meter \in Toll(rec, unit, text) \cup ScanToll(text) THEN Paid(payment, meter) ELSE payment
           p0 == [budget |-> b, refused |-> FALSE]
           p1 == Due(p0, "nodes")
           p2 == Due(p1, "leaves")
           p3 == Due(p2, "scans")
<1>0. Payment(rec, unit, text, b) = p3
  BY DEF Payment
<1>1. PaidOf(p0, b, {})
  BY DEF PaidOf
<1> HIDE DEF p0
<1>2. PaidOf(p1, b, {"nodes"})
  <2>1. PaidOf(p1, b, {} \cup {"nodes"})
    BY <1>1, PaidMeter DEF Tolls
  <2>2. {} \cup {"nodes"} = {"nodes"}
    OBVIOUS
  <2> QED
    BY <2>1, <2>2
<1> HIDE DEF p1
<1>3. PaidOf(p2, b, {"nodes", "leaves"})
  <2>1. PaidOf(p2, b, {"nodes"} \cup {"leaves"})
    BY <1>2, PaidMeter DEF Tolls
  <2>2. {"nodes"} \cup {"leaves"} = {"nodes", "leaves"}
    OBVIOUS
  <2> QED
    BY <2>1, <2>2
<1> HIDE DEF p2
<1>4. PaidOf(p3, b, {"nodes", "leaves"} \cup {"scans"})
  BY <1>3, PaidMeter DEF Tolls
<1>5. {"nodes", "leaves"} \cup {"scans"} = Tolls
  BY DEF Tolls
<1> QED
  BY <1>0, <1>4, <1>5

-----------------------------------------------------------------------------
(* The inductive invariant.                                                *)

LogCall ==
  [record : Records, before : LogRecord, todo : SUBSET (1 .. 4), at : Places,
   counts : [Becomings -> Nat], budget : Budget, observed : BOOLEAN]

LogOutcome == [values : [Becomings -> Nat], before : LogRecord, dropped : BOOLEAN]

\* Every variable stays in its type.
LogTypeOK ==
  /\ language \in Languages
  /\ readOnly \in SUBSET Records
  /\ record \in [Records -> LogRecord]
  /\ calls \in [Threads -> Seq(LogCall)]
  /\ passes \in [Records -> Nat] /\ loud \in [Records -> Nat]
  /\ passedOn \in SUBSET Records
  /\ reporting \in [Threads -> BOOLEAN]
  /\ warned \in BOOLEAN
  /\ outcomes \in [Records -> Seq(LogOutcome)]

\* A record has one call at most.
Distinct ==
  \A t, u \in Threads : \A i \in DOMAIN calls[t], j \in DOMAIN calls[u] :
    calls[t][i].record = calls[u][j].record => t = u /\ i = j

\* The observer of a thread runs while one of its calls reports, and what the
\* thread logs until then is observed.
Observed(stack, on) ==
  /\ on <=> \E i \in DOMAIN stack : stack[i].at = "reporting"
  /\ \A i \in DOMAIN stack :
       /\ stack[i].observed <=> \E j \in DOMAIN stack : j > i /\ stack[j].at = "reporting"
       /\ stack[i].at = "reporting" => ~stack[i].observed

Observers == \A t \in Threads : Observed(calls[t], reporting[t])

Working(c) == c.at \in {"redacting", "scanning"}

\* What a call has left of its record: the units it has yet to take are as they
\* were, the others are fit to be passed on.
Rewritten(c, rec) ==
  /\ c.todo \subseteq UnitsIn(c.before)
  /\ Working(c) => \A n \in c.todo : Text(rec, Units[n]) = Text(c.before, Units[n])
  /\ Working(c) \/ c.at = "forwarding" \/ language = "Python" =>
       \A f \in LogFields : UnitOf(f) \notin c.todo => Fit(c.record, f, rec[f])
  /\ c.at = "scanning" => c.todo # {} /\ Text(rec, Units[Min(c.todo)]) \notin {"long", "unreadable"}
  /\ c.at = "forwarding" \/ (language = "Python" /\ c.at = "reporting") => c.todo = {}
  /\ c.at \in {"warning", "dropped", "forwarding"} => language = "JavaScript"

\* A record of more units than one of the limits allows; or with a text that is
\* too long.
TooMany(rec) == \E m \in {"nodes", "leaves", "scans", "findings"} : Cardinality(UnitsIn(rec)) > Limits[m]

TooMuch(rec) == TooMany(rec) \/ \E n \in UnitsIn(rec) : Text(rec, Units[n]) = "long"

\* Every unit that was taken is counted, a raw one as replaced.
AllCounted(c) ==
  /\ Replaced(c.counts) + c.counts["unchanged"] + Cardinality(c.todo) = Cardinality(UnitsIn(c.before))
  /\ Replaced(c.counts) + Cardinality(c.todo \cap RawIn(c.before)) >= Cardinality(RawIn(c.before))

\* What was spent, or is about to be, with `ahead` units paid for and in todo.
SpentOn(b, c, ahead) ==
  /\ b.exhausted => TooMany(c.before)
  /\ \A m \in Tolls : b.spent[m] + Cardinality(c.todo) <= Cardinality(UnitsIn(c.before)) + ahead
  /\ b.spent["findings"] + Cardinality(c.todo) <= Cardinality(UnitsIn(c.before))

CallOK(c, rec) ==
  /\ Rewritten(c, rec)
  /\ Working(c) \/ c.at = "forwarding" => AllCounted(c)
  /\ c.counts["limited"] > 0 => TooMuch(c.before)
  /\ Working(c) => SpentOn(c.budget, c, IF c.at = "scanning" THEN 1 ELSE 0)

CallsOK ==
  \A t \in Threads : \A i \in DOMAIN calls[t] : CallOK(calls[t][i], record[calls[t][i].record])

\* What is reported: CountsAreTheRecords, of one outcome.
OutcomeOK(o) ==
  /\ ~o.dropped => /\ Replaced(o.values) + o.values["unchanged"] = Cardinality(UnitsIn(o.before))
                   /\ Replaced(o.values) >= Cardinality(RawIn(o.before))
  /\ o.values["limited"] > 0 => TooMuch(o.before)

OutcomesOK == \A r \in Records : \A i \in DOMAIN outcomes[r] : OutcomeOK(outcomes[r][i])

\* The inductive invariant.
LogInv ==
  /\ LogTypeOK /\ Distinct /\ Observers /\ CallsOK /\ OutcomesOK
  /\ NothingRawIsPassedOn /\ EachPassIsReported

\* The language does not change, and nothing that depends on it.
LEMMA LanguageStays ==
  ASSUME UNCHANGED <<language, readOnly>>
  PROVE  /\ LogRecord' = LogRecord /\ LogCall' = LogCall /\ LogOutcome' = LogOutcome
         /\ LogFields' = LogFields
         /\ \A r, f, content : Fit(r, f, content)' = Fit(r, f, content)
         /\ \A c, rec : CallOK(c, rec)' = CallOK(c, rec)
         /\ \A o : OutcomeOK(o)' = OutcomeOK(o)
<1>1. Units' = Units /\ LogFields' = LogFields
  BY DEF Units, LogFields
<1>2. LogRecord' = LogRecord
  BY <1>1 DEF LogRecord
<1>3. LogCall' = LogCall /\ LogOutcome' = LogOutcome
  BY <1>2 DEF LogCall, LogOutcome
<1>4. \A rec : UnitsIn(rec)' = UnitsIn(rec)
  BY <1>1 DEF UnitsIn
<1>5. \A rec : RawIn(rec)' = RawIn(rec)
  BY <1>1, <1>4 DEF RawIn
<1>6. \A rec : TooMany(rec)' = TooMany(rec)
  BY <1>4 DEF TooMany
<1>7. \A rec : TooMuch(rec)' = TooMuch(rec)
  BY <1>1, <1>4, <1>6 DEF TooMuch
<1>8. \A o : OutcomeOK(o)' = OutcomeOK(o)
  BY <1>4, <1>5, <1>7 DEF OutcomeOK
<1>9. \A c : AllCounted(c)' = AllCounted(c)
  BY <1>4, <1>5 DEF AllCounted
<1>10. \A b, c, n : SpentOn(b, c, n)' = SpentOn(b, c, n)
  BY <1>4, <1>6 DEF SpentOn
<1>a. \A r, f, content : Fit(r, f, content)' = Fit(r, f, content)
  BY DEF Fit
<1>11. \A c, rec : Rewritten(c, rec)' = Rewritten(c, rec)
  BY <1>1, <1>4, <1>a DEF Rewritten
<1>12. \A c, rec : CallOK(c, rec)' = CallOK(c, rec)
  BY <1>7, <1>9, <1>10, <1>11 DEF CallOK
<1> QED
  BY <1>1, <1>2, <1>3, <1>8, <1>12, <1>a

-----------------------------------------------------------------------------
(* One unit.                                                               *)

\* What is there after a write of a mask: the mask, shortened or not, or in a
\* read-only record what was there.
LEMMA StoredIs ==
  ASSUME language \in Languages, NEW r, NEW text \in Contents, NEW what, what = "unchanged" => Clean(text),
         NEW mask \in IF what = "unchanged" THEN {text} ELSE Masks(text), NEW stored \in Stored(r, text, mask)
  PROVE  /\ mask \in Contents /\ stored \in Contents /\ Clean(mask)
         /\ language = "Python" => stored = mask
         /\ Clean(stored) \/ (language = "JavaScript" /\ r \in readOnly /\ stored = text)
<1>1. mask \in Contents /\ Clean(mask)
  BY DEF Masks, Contents, Clean, Raw
<1>2. "cut" \in Contents /\ Clean("cut")
  BY DEF Contents, Clean, Raw
<1>3. \/ stored = mask
      \/ language # "Python" /\ (stored = "cut" \/ (r \in readOnly /\ stored = text))
  BY DEF Stored
<1> QED
  BY <1>1, <1>2, <1>3 DEF Languages

\* A field that is fit stays so, and the one written is, if the write took.
LEMMA WrittenFits ==
  ASSUME language \in Languages, NEW rec \in LogRecord, NEW n \in 1 .. 4, NEW r, NEW what,
         what = "unchanged" => Clean(Text(rec, Units[n])),
         NEW mask \in IF what = "unchanged" THEN {Text(rec, Units[n])} ELSE Masks(Text(rec, Units[n])),
         NEW stored \in Stored(r, Text(rec, Units[n]), mask), NEW f \in LogFields
  PROVE  /\ Fit(r, f, rec[f]) => Fit(r, f, Written(rec, Units[n], stored)[f])
         /\ UnitOf(f) = n /\ Reflects(Units[n], mask, stored) => Fit(r, f, Written(rec, Units[n], stored)[f])
<1> DEFINE text == Text(rec, Units[n])
           new == Written(rec, Units[n], stored)
<1> SUFFICES /\ Fit(r, f, rec[f]) => Fit(r, f, new[f])
             /\ UnitOf(f) = n /\ Reflects(Units[n], mask, stored) => Fit(r, f, new[f])
  OBVIOUS
<1>1. text \in Contents
  BY TextOfUnit
<1>2. /\ stored \in Contents /\ Clean(mask)
      /\ Clean(stored) \/ (language = "JavaScript" /\ r \in readOnly /\ stored = text)
  BY <1>1, StoredIs
<1>3. /\ Clean(stored) => (UnitOf(f) = n => Clean(new[f]))
      /\ UnitOf(f) # n => new[f] = rec[f]
      /\ language = "JavaScript" => (UnitOf(f) = n => f = Units[n] /\ new[f] = stored /\ rec[f] = text)
  <2>1. stored \in Contents
    BY <1>2
  <2>2. Clean(stored) => \A g \in LogFields : UnitOf(g) = n => Clean(Written(rec, Units[n], stored)[g])
    BY <2>1, WrittenUnit
  <2>3. \A g \in LogFields : UnitOf(g) # n => Written(rec, Units[n], stored)[g] = rec[g]
    BY <2>1, WrittenUnit, SMTT(20)
  <2>4. language = "JavaScript" =>
          \A g \in LogFields : UnitOf(g) = n =>
            g = Units[n] /\ Written(rec, Units[n], stored)[g] = stored /\ rec[g] = Text(rec, Units[n])
    BY <2>1, WrittenUnit
  <2> QED
    BY <2>2, <2>3, <2>4, Zenon
<1> HIDE DEF new, text
<1>4. CASE UnitOf(f) # n
  BY <1>3, <1>4
<1>5. CASE UnitOf(f) = n /\ Clean(stored)
  BY <1>3, <1>5 DEF Fit
<1>6. CASE UnitOf(f) = n /\ ~Clean(stored)
  <2>1. r \in readOnly /\ f = Units[n] /\ new[f] = stored /\ rec[f] = stored
    BY <1>2, <1>3, <1>6
  <2>2. Reflects(Units[n], mask, stored) => f \in {"body", "attribute"} /\ stored = "opaque"
    <3>1. stored # mask /\ stored # "cut"
      BY <1>2, <1>6 DEF Clean, Raw
    <3> QED
      BY <2>1, <3>1, Zenon DEF Reflects
  <2> QED
    BY <2>1, <2>2 DEF Fit
<1> QED
  BY <1>4, <1>5, <1>6

\* The unit in progress of the call c became `what` and left `stored` in the
\* record that was rec: the call is `new`.
Taken(c, rec, what, spent, mask, stored, new) ==
  LET unit == Units[Min(c.todo)]
      text == Text(rec, unit)
  IN  /\ mask \in IF what = "unchanged" THEN {text} ELSE Masks(text)
      /\ stored \in Stored(c.record, text, mask)
      /\ new.record = c.record
      /\ new.before = c.before /\ new.todo = c.todo \ {Min(c.todo)} /\ new.budget = spent
      /\ new.counts = [c.counts EXCEPT ![what] = @ + 1]
      /\ new.at \in {"redacting", "dropped", "warning"}
      /\ new.at = "redacting" => Reflects(unit, mask, stored)
      /\ new.at # "redacting" => language = "JavaScript"

\* A unit of a record that is redacted became something: the rest is as it was.
LEMMA UnitTaken ==
  ASSUME language \in Languages, NEW c \in LogCall, NEW rec \in LogRecord,
         Working(c), c.todo # {}, CallOK(c, rec),
         NEW what \in Becomings, NEW spent \in Budget,
         what = "unchanged" => Clean(Text(rec, Units[Min(c.todo)])),
         what = "limited" => TooMuch(c.before),
         spent.exhausted => TooMany(c.before),
         \A m \in Tolls : spent.spent[m] + Cardinality(c.todo) <= Cardinality(UnitsIn(c.before)) + 1,
         spent.spent["findings"] + Cardinality(c.todo) <= Cardinality(UnitsIn(c.before)) + 1,
         NEW new \in LogCall, NEW mask, NEW stored, Taken(c, rec, what, spent, mask, stored, new),
         NEW actual, actual = Written(rec, Units[Min(c.todo)], stored)
  PROVE  /\ actual \in LogRecord
         /\ \A f \in LogFields : Fit(c.record, f, rec[f]) => Fit(c.record, f, actual[f])
         /\ CallOK(new, actual)
<1>1. PICK n \in c.todo : n = Min(c.todo) /\ n \in 1 .. 4
  <2>1. c.todo \in SUBSET (1 .. 4)
    BY DEF LogCall
  <2> QED
    BY <2>1, FirstUnit
<1> DEFINE text == Text(rec, Units[n])
<1>0. /\ mask \in IF what = "unchanged" THEN {text} ELSE Masks(text)
      /\ stored \in Stored(c.record, text, mask)
      /\ actual = Written(rec, Units[n], stored)
      /\ new.record = c.record
      /\ new.before = c.before /\ new.todo = c.todo \ {n} /\ new.budget = spent
      /\ new.counts = [c.counts EXCEPT ![what] = @ + 1]
      /\ new.at \in {"redacting", "dropped", "warning"}
      /\ new.at = "redacting" => Reflects(Units[n], mask, stored)
      /\ new.at # "redacting" => language = "JavaScript"
  BY <1>1 DEF Taken
<1>2. text \in Contents /\ (what = "unchanged" => Clean(text))
  BY <1>1, TextOfUnit
<1>3. stored \in Contents
  BY <1>0, <1>2, StoredIs
<1>4. /\ actual \in LogRecord
      /\ \A m \in (1 .. 4) \ {n} : Text(actual, Units[m]) = Text(rec, Units[m])
  BY <1>0, <1>1, <1>3, WrittenUnit
<1>5. ASSUME NEW f \in LogFields
      PROVE  /\ Fit(c.record, f, rec[f]) => Fit(c.record, f, actual[f])
             /\ UnitOf(f) = n /\ new.at = "redacting" => Fit(c.record, f, actual[f])
  <2>1. /\ Fit(c.record, f, rec[f]) => Fit(c.record, f, Written(rec, Units[n], stored)[f])
        /\ UnitOf(f) = n /\ Reflects(Units[n], mask, stored)
             => Fit(c.record, f, Written(rec, Units[n], stored)[f])
    <3>1. what = "unchanged" => Clean(Text(rec, Units[n]))
      BY <1>2
    <3>2. mask \in IF what = "unchanged" THEN {Text(rec, Units[n])} ELSE Masks(Text(rec, Units[n]))
      BY <1>0
    <3>3. stored \in Stored(c.record, Text(rec, Units[n]), mask)
      BY <1>0
    <3> QED
      BY <1>1, <3>1, <3>2, <3>3, WrittenFits
  <2> QED
    BY <1>0, <2>1
<1> HIDE DEF text
<1>6. actual \in LogRecord /\ \A f \in LogFields : Fit(c.record, f, rec[f]) => Fit(c.record, f, actual[f])
  BY <1>4, <1>5
<1>7. /\ c.todo \subseteq UnitsIn(c.before)
      /\ \A m \in c.todo : Text(rec, Units[m]) = Text(c.before, Units[m])
      /\ \A f \in LogFields : UnitOf(f) \notin c.todo => Fit(c.record, f, rec[f])
      /\ AllCounted(c) /\ (c.counts["limited"] > 0 => TooMuch(c.before))
  BY DEF CallOK, Rewritten
<1>8. /\ c.todo \in SUBSET (1 .. 4) /\ new.todo = c.todo \ {n}
      /\ c.counts \in [Becomings -> Nat]
  BY <1>0, <1>1 DEF LogCall
<1>9. Rewritten(new, actual)
  <2>1. \A m \in new.todo : Text(actual, Units[m]) = Text(new.before, Units[m])
    BY <1>0, <1>4, <1>7, <1>8
  <2>2. CASE new.at = "redacting"
    <3>1. \A f \in LogFields : UnitOf(f) \notin new.todo => Fit(new.record, f, actual[f])
      BY <1>0, <1>5, <1>7, <1>8, <2>2
    <3> QED
      BY <1>0, <1>7, <1>8, <2>1, <2>2, <3>1 DEF Rewritten
  <2>3. CASE new.at # "redacting"
    BY <1>0, <1>7, <1>8, <2>1, <2>3 DEF Rewritten, Working
  <2> QED
    BY <2>2, <2>3
<1>10. /\ IsFiniteSet(c.todo) /\ Cardinality(c.todo) \in Nat
       /\ Cardinality(new.todo) = Cardinality(c.todo) - 1
  BY <1>1, <1>8, UnitsAreFew, FS_RemoveElement
<1>11. /\ Cardinality(UnitsIn(c.before)) \in Nat /\ Cardinality(RawIn(c.before)) \in Nat
       /\ IsFiniteSet(RawIn(c.before)) /\ RawIn(c.before) \subseteq UnitsIn(c.before)
  <2>1. UnitsIn(c.before) \subseteq 1 .. 4 /\ RawIn(c.before) \subseteq UnitsIn(c.before)
    BY FourUnits DEF UnitsIn, RawIn
  <2> QED
    BY <2>1, UnitsAreFew
<1>12. /\ Replaced(new.counts) = Replaced(c.counts) + (IF what = "unchanged" THEN 0 ELSE 1)
       /\ new.counts["unchanged"] = c.counts["unchanged"] + (IF what = "unchanged" THEN 1 ELSE 0)
       /\ Replaced(c.counts) \in Nat /\ c.counts["unchanged"] \in Nat
       /\ c.counts["limited"] \in Nat
       /\ new.counts["limited"] = c.counts["limited"] + (IF what = "limited" THEN 1 ELSE 0)
  BY <1>0, <1>8 DEF Replaced, Becomings
<1>13. Cardinality(new.todo \cap RawIn(c.before))
         = Cardinality(c.todo \cap RawIn(c.before)) - (IF n \in RawIn(c.before) THEN 1 ELSE 0)
       /\ Cardinality(c.todo \cap RawIn(c.before)) \in Nat
  <2> DEFINE left == c.todo \cap RawIn(c.before)
  <2>1. left \in SUBSET (1 .. 4) /\ new.todo \cap RawIn(c.before) = left \ {n} /\ (n \in left <=> n \in RawIn(c.before))
    BY <1>1, <1>8
  <2> HIDE DEF left
  <2>2. /\ IsFiniteSet(left) /\ Cardinality(left) \in Nat
        /\ Cardinality(left \ {n}) = IF n \in left THEN Cardinality(left) - 1 ELSE Cardinality(left)
    BY <2>1, UnitsAreFew, FS_RemoveElement
  <2>3. Cardinality(new.todo \cap RawIn(c.before)) = Cardinality(left \ {n})
    BY <2>1
  <2>4. /\ Cardinality(new.todo \cap RawIn(c.before))
             = Cardinality(left) - (IF n \in RawIn(c.before) THEN 1 ELSE 0)
        /\ Cardinality(left) \in Nat
    BY <2>1, <2>2, <2>3
  <2> QED
    BY <2>4 DEF left
<1>14. n \in RawIn(c.before) => what # "unchanged"
  BY <1>1, <1>7 DEF RawIn, Clean
<1>15. AllCounted(new)
  BY <1>0, <1>7, <1>10, <1>11, <1>12, <1>13, <1>14 DEF AllCounted
<1>16. new.counts["limited"] > 0 => TooMuch(new.before)
  BY <1>0, <1>7, <1>12
<1>17. \A m \in Tolls : spent.spent[m] \in Nat
  BY DEF Tolls, Meters, Budget
<1>18. spent.spent["findings"] \in Nat
  BY DEF Meters, Budget
<1>19. SpentOn(spent, new, 0)
  BY <1>0, <1>10, <1>11, <1>17, <1>18 DEF SpentOn
<1>20. new.at # "scanning" /\ (new.at = "redacting" \/ ~Working(new)) /\ new.at # "forwarding"
  BY <1>0 DEF Working
<1> QED
  BY <1>0, <1>6, <1>9, <1>15, <1>16, <1>19, <1>20 DEF CallOK

-----------------------------------------------------------------------------
(* The calls of a thread.                                                  *)

\* The innermost call of a thread that is not idle.
LEMMA Innermost ==
  ASSUME LogTypeOK, NEW t \in Threads, ~Idle(t)
  PROVE  /\ calls[t] \in Seq(LogCall) /\ Len(calls[t]) \in Nat /\ DOMAIN calls[t] = 1 .. Len(calls[t])
         /\ 1 \in DOMAIN calls[t] /\ Head(calls[t]) = calls[t][1] /\ calls[t][1] \in LogCall
<1>1. calls[t] \in Seq(LogCall) /\ calls[t] # <<>>
  BY DEF LogTypeOK, Idle
<1>2. Len(calls[t]) \in Nat /\ DOMAIN calls[t] = 1 .. Len(calls[t]) /\ Len(calls[t]) # 0
  BY <1>1
<1>3. 1 \in DOMAIN calls[t] /\ Head(calls[t]) = calls[t][1]
  BY <1>1, <1>2
<1> QED
  BY <1>1, <1>2, <1>3

\* A record is being reported.
Telling(r) == \E t \in Threads : \E i \in DOMAIN calls[t] : calls[t][i].record = r /\ calls[t][i].at = "reporting"

\* The innermost call moved on.
LEMMA Moved ==
  ASSUME LogInv, UNCHANGED <<language, readOnly>>, NEW t \in Threads, ~Idle(t), NEW new \in LogCall,
         calls' = [calls EXCEPT ![t][1] = new],
         new.record = calls[t][1].record, new.observed = calls[t][1].observed,
         record' \in [Records -> LogRecord], \A r \in Records \ {new.record} : record'[r] = record[r],
         CallOK(new, record'[new.record]),
         calls[t][1].at # "reporting",
         \/ new.at # "reporting" /\ reporting' = reporting
         \/ new.at = "reporting" /\ ~reporting[t] /\ reporting' = [reporting EXCEPT ![t] = TRUE]
  PROVE  /\ calls' \in [Threads -> Seq(LogCall)]
         /\ Distinct' /\ Observers' /\ CallsOK'
         /\ \A r \in Records : Telling(r)' <=> Telling(r) \/ (new.at = "reporting" /\ r = new.record)
<1>1. /\ calls \in [Threads -> Seq(LogCall)] /\ calls[t] \in Seq(LogCall) /\ 1 \in DOMAIN calls[t]
      /\ DOMAIN calls[t] = 1 .. Len(calls[t]) /\ Len(calls[t]) \in Nat /\ calls[t][1] \in LogCall
  BY Innermost DEF LogInv, LogTypeOK
<1>2. calls'[t] = [calls[t] EXCEPT ![1] = new] /\ \A u \in Threads \ {t} : calls'[u] = calls[u]
  BY <1>1
<1>3. /\ calls'[t] \in Seq(LogCall) /\ DOMAIN calls'[t] = DOMAIN calls[t] /\ calls'[t][1] = new
      /\ \A i \in DOMAIN calls[t] \ {1} : calls'[t][i] = calls[t][i]
  BY <1>1, <1>2
<1>4. calls' \in [Threads -> Seq(LogCall)]
  BY <1>1, <1>2, <1>3
<1>5. /\ \A u \in Threads : DOMAIN calls'[u] = DOMAIN calls[u]
      /\ \A u \in Threads : \A i \in DOMAIN calls[u] :
           calls'[u][i].record = calls[u][i].record /\ calls'[u][i].observed = calls[u][i].observed
  BY <1>2, <1>3
<1>6. Distinct'
  BY <1>5 DEF LogInv, Distinct
<1>7. \A u \in Threads : \A i \in DOMAIN calls[u] :
        calls'[u][i].at = "reporting" <=>
          calls[u][i].at = "reporting" \/ (new.at = "reporting" /\ u = t /\ i = 1)
  BY <1>1, <1>2, <1>3
<1>8. Observers'
  <2> SUFFICES ASSUME NEW u \in Threads
               PROVE  /\ reporting'[u] <=> \E i \in DOMAIN calls'[u] : calls'[u][i].at = "reporting"
                      /\ \A i \in DOMAIN calls'[u] :
                           /\ calls'[u][i].observed <=> \E j \in DOMAIN calls'[u] : j > i /\ calls'[u][j].at = "reporting"
                           /\ calls'[u][i].at = "reporting" => ~calls'[u][i].observed
    BY DEF Observers, Observed
  <2>1. /\ reporting[u] <=> \E i \in DOMAIN calls[u] : calls[u][i].at = "reporting"
        /\ \A i \in DOMAIN calls[u] :
             /\ calls[u][i].observed <=> \E j \in DOMAIN calls[u] : j > i /\ calls[u][j].at = "reporting"
             /\ calls[u][i].at = "reporting" => ~calls[u][i].observed
    BY DEF LogInv, Observers, Observed
  <2>2. reporting \in [Threads -> BOOLEAN]
    BY DEF LogInv, LogTypeOK
  <2>3. CASE new.at # "reporting" \/ u # t
    BY <1>5, <1>7, <2>1, <2>2, <2>3
  <2>4. CASE new.at = "reporting" /\ u = t
    <3>1. ~reporting[t] /\ reporting'[t] = TRUE
      BY <2>2, <2>4
    <3>2. \A i \in DOMAIN calls[t] : calls[t][i].at # "reporting" /\ ~calls[t][i].observed
      BY <2>1, <2>4, <3>1
    <3>3. \A i \in DOMAIN calls[t] : calls'[t][i].at = "reporting" <=> i = 1
      BY <1>7, <2>4, <3>2
    <3>4. \A i, j \in DOMAIN calls[t] : j > i => j # 1
      BY <1>1
    <3> QED
      BY <1>1, <1>5, <2>4, <3>1, <3>2, <3>3, <3>4
  <2> QED
    BY <2>3, <2>4
<1>9. CallsOK'
  <2>1. \A c, rec : CallOK(c, rec)' = CallOK(c, rec)
    BY LanguageStays
  <2>2. ASSUME NEW u \in Threads, NEW i \in DOMAIN calls'[u]
        PROVE  CallOK(calls'[u][i], record'[calls'[u][i].record])
    <3>1. CASE u = t /\ i = 1
      BY <1>3, <3>1
    <3>2. CASE ~(u = t /\ i = 1)
      <4>1. calls'[u][i] = calls[u][i] /\ i \in DOMAIN calls[u]
        BY <1>2, <1>3, <2>2, <3>2
      <4>2. calls[u][i].record \in Records /\ calls[u][i].record # new.record
        <5>1. calls[u] \in Seq(LogCall)
          BY DEF LogInv, LogTypeOK
        <5>2. calls[u][i] \in LogCall
          BY <4>1, <5>1
        <5> QED
          BY <1>1, <3>2, <4>1, <5>2 DEF LogInv, Distinct, LogCall
      <4>3. CallOK(calls[u][i], record[calls[u][i].record])
        BY <4>1 DEF LogInv, CallsOK
      <4> QED
        BY <4>1, <4>2, <4>3
    <3> QED
      BY <3>1, <3>2
  <2> QED
    BY <2>1, <2>2 DEF CallsOK
<1>10. \A r \in Records : Telling(r)' <=> Telling(r) \/ (new.at = "reporting" /\ r = new.record)
  BY <1>1, <1>5, <1>7, SMTT(60) DEF Telling
<1> QED
  BY <1>4, <1>6, <1>8, <1>9, <1>10

\* A call that has not reported goes on top, observed if one below it reports.
LEMMA OnTop ==
  ASSUME NEW stack \in Seq(LogCall), NEW on, Observed(stack, on), NEW new \in LogCall,
         new.at # "reporting", new.observed <=> \E i \in DOMAIN stack : stack[i].at = "reporting"
  PROVE  Observed(<<new>> \o stack, on)
<1> DEFINE taller == <<new>> \o stack
<1>1. DOMAIN stack = 1 .. Len(stack) /\ Len(stack) \in Nat
  OBVIOUS
<1>2. /\ DOMAIN taller = 1 .. Len(stack) + 1 /\ taller[1] = new
      /\ \A i \in 1 .. Len(stack) : taller[i + 1] = stack[i]
  BY <1>1
<1> HIDE DEF taller
<1>3. ASSUME NEW j \in DOMAIN taller, taller[j].at = "reporting"
      PROVE  \E k \in DOMAIN stack : j = k + 1 /\ stack[k].at = "reporting"
  <2>1. j # 1
    BY <1>2, <1>3
  <2>2. j - 1 \in 1 .. Len(stack) /\ j = (j - 1) + 1
    BY <1>1, <1>2, <2>1
  <2>3. taller[j] = stack[j - 1]
    BY <1>2, <2>2
  <2> QED
    BY <1>1, <1>3, <2>2, <2>3
<1>4. ASSUME NEW k \in DOMAIN stack, stack[k].at = "reporting"
      PROVE  k + 1 \in DOMAIN taller /\ taller[k + 1].at = "reporting"
  BY <1>1, <1>2, <1>4
<1>5. (\E i \in DOMAIN taller : taller[i].at = "reporting") <=> \E i \in DOMAIN stack : stack[i].at = "reporting"
  BY <1>3, <1>4
<1>6. ASSUME NEW i \in DOMAIN taller
      PROVE  /\ taller[i].observed <=> \E j \in DOMAIN taller : j > i /\ taller[j].at = "reporting"
             /\ taller[i].at = "reporting" => ~taller[i].observed
  <2>1. CASE i = 1
    <3>1. \A k \in DOMAIN stack : k + 1 > 1
      BY <1>1
    <3>2. (\E j \in DOMAIN taller : j > 1 /\ taller[j].at = "reporting")
            <=> \E j \in DOMAIN stack : stack[j].at = "reporting"
      BY <1>3, <1>4, <3>1
    <3>3. taller[i] = new
      BY <1>2, <2>1
    <3> QED
      BY <2>1, <3>2, <3>3
  <2>2. CASE i # 1
    <3>1. PICK k \in DOMAIN stack : i = k + 1 /\ taller[i] = stack[k]
      <4>1. i - 1 \in 1 .. Len(stack) /\ i = (i - 1) + 1
        BY <1>1, <1>2, <2>2
      <4> QED
        BY <1>1, <1>2, <4>1
    <3>2. (\E j \in DOMAIN taller : j > i /\ taller[j].at = "reporting")
            <=> \E j \in DOMAIN stack : j > k /\ stack[j].at = "reporting"
      <4>1. ASSUME NEW j \in DOMAIN taller, j > i, taller[j].at = "reporting"
            PROVE  \E l \in DOMAIN stack : l > k /\ stack[l].at = "reporting"
        <5>1. PICK l \in DOMAIN stack : j = l + 1 /\ stack[l].at = "reporting"
          BY <1>3, <4>1
        <5>2. l > k
          BY <1>1, <3>1, <4>1, <5>1
        <5> QED
          BY <5>1, <5>2
      <4>2. ASSUME NEW l \in DOMAIN stack, l > k, stack[l].at = "reporting"
            PROVE  \E j \in DOMAIN taller : j > i /\ taller[j].at = "reporting"
        <5>1. l + 1 \in DOMAIN taller /\ taller[l + 1].at = "reporting"
          BY <1>4, <4>2
        <5>2. l + 1 > i
          BY <1>1, <3>1, <4>2
        <5> QED
          BY <5>1, <5>2
      <4> QED
        BY <4>1, <4>2
    <3>3. /\ stack[k].observed <=> \E j \in DOMAIN stack : j > k /\ stack[j].at = "reporting"
          /\ stack[k].at = "reporting" => ~stack[k].observed
      BY DEF Observed
    <3> QED
      BY <3>1, <3>2, <3>3
  <2> QED
    BY <2>1, <2>2
<1>7. on <=> \E i \in DOMAIN taller : taller[i].at = "reporting"
  BY <1>5 DEF Observed
<1>8. Observed(taller, on)
  BY <1>6, <1>7 DEF Observed
<1> QED
  BY <1>8 DEF taller

\* A record was logged: its call is innermost.
LEMMA CallIsLogged ==
  ASSUME LogInv, UNCHANGED <<language, readOnly>>, NEW t \in Threads, NEW new \in LogCall,
         calls' = [calls EXCEPT ![t] = <<new>> \o calls[t]],
         ~InProgress(new.record),
         new.observed <=> \E i \in DOMAIN calls[t] : calls[t][i].at = "reporting",
         record' = record, reporting' = reporting, CallOK(new, record[new.record]),
         new.at # "reporting"
  PROVE  /\ calls' \in [Threads -> Seq(LogCall)]
         /\ Distinct' /\ Observers' /\ CallsOK'
         /\ \A r \in Records : Telling(r)' <=> Telling(r)
<1>1. /\ calls \in [Threads -> Seq(LogCall)] /\ calls[t] \in Seq(LogCall)
      /\ DOMAIN calls[t] = 1 .. Len(calls[t]) /\ Len(calls[t]) \in Nat
  BY DEF LogInv, LogTypeOK
<1>2. calls'[t] = <<new>> \o calls[t] /\ \A u \in Threads \ {t} : calls'[u] = calls[u]
  BY <1>1
<1>3. /\ calls'[t] \in Seq(LogCall) /\ DOMAIN calls'[t] = 1 .. Len(calls[t]) + 1 /\ calls'[t][1] = new
      /\ \A i \in 1 .. Len(calls[t]) : calls'[t][i + 1] = calls[t][i]
  BY <1>1, <1>2
<1>4. calls' \in [Threads -> Seq(LogCall)]
  BY <1>1, <1>2, <1>3
<1>5. \A i \in DOMAIN calls'[t] :
        \/ i = 1 /\ calls'[t][i] = new
        \/ i > 1 /\ i - 1 \in DOMAIN calls[t] /\ calls'[t][i] = calls[t][i - 1]
  <2> SUFFICES ASSUME NEW i \in DOMAIN calls'[t], i # 1
               PROVE  i > 1 /\ i - 1 \in DOMAIN calls[t] /\ calls'[t][i] = calls[t][i - 1]
    BY <1>3
  <2>1. i - 1 \in 1 .. Len(calls[t]) /\ (i - 1) + 1 = i
    BY <1>1, <1>3
  <2> QED
    BY <1>1, <1>3, <2>1
<1>6. \A u \in Threads : \A i \in DOMAIN calls[u] : calls[u][i].record # new.record
  BY DEF InProgress
<1>7. Distinct'
  <2> SUFFICES ASSUME NEW u \in Threads, NEW w \in Threads, NEW i \in DOMAIN calls'[u], NEW j \in DOMAIN calls'[w],
                      calls'[u][i].record = calls'[w][j].record
               PROVE  u = w /\ i = j
    BY DEF Distinct
  <2>1. \A x \in Threads : \A k \in DOMAIN calls'[x] :
          \/ x = t /\ k = 1 /\ calls'[x][k] = new
          \/ x = t /\ k - 1 \in DOMAIN calls[x] /\ calls'[x][k] = calls[x][k - 1] /\ k \in Nat
          \/ x # t /\ k \in DOMAIN calls[x] /\ calls'[x][k] = calls[x][k]
    BY <1>1, <1>2, <1>3, <1>5
  <2>2. \A x, y \in Threads : \A k \in DOMAIN calls[x], l \in DOMAIN calls[y] :
          calls[x][k].record = calls[y][l].record => x = y /\ k = l
    BY DEF LogInv, Distinct
  <2>3. CASE u = t /\ w = t
    BY <1>6, <2>1, <2>2, <2>3
  <2>4. CASE u = t /\ w # t
    BY <1>6, <2>1, <2>2, <2>4
  <2>5. CASE u # t /\ w = t
    BY <1>6, <2>1, <2>2, <2>5
  <2>6. CASE u # t /\ w # t
    BY <2>1, <2>2, <2>6
  <2> QED
    BY <2>3, <2>4, <2>5, <2>6
<1>8. Observers'
  <2>1. Observed(calls[t], reporting[t])
    BY DEF LogInv, Observers
  <2>2. Observed(<<new>> \o calls[t], reporting[t])
    BY <1>1, <2>1, OnTop
  <2>3. Observed(calls'[t], reporting[t])
    BY <1>2, <2>2
  <2>4. ASSUME NEW u \in Threads PROVE Observed(calls'[u], reporting'[u])
    <3>1. CASE u = t
      <4>1. reporting'[u] = reporting[t] /\ calls'[u] = calls'[t]
        BY <3>1
      <4> QED
        BY <2>3, <4>1
    <3>2. CASE u # t
      <4>1. reporting'[u] = reporting[u] /\ calls'[u] = calls[u]
        BY <1>2, <3>2
      <4>2. Observed(calls[u], reporting[u])
        BY DEF LogInv, Observers
      <4> QED
        BY <4>1, <4>2
    <3> QED
      BY <3>1, <3>2
  <2> QED
    BY <2>4 DEF Observers
<1>9. CallsOK'
  <2>1. \A c, rec : CallOK(c, rec)' = CallOK(c, rec)
    BY LanguageStays
  <2>2. ASSUME NEW u \in Threads, NEW i \in DOMAIN calls'[u]
        PROVE  CallOK(calls'[u][i], record[calls'[u][i].record])
    <3>1. \/ calls'[u][i] = new
          \/ \E j \in DOMAIN calls[u] : calls'[u][i] = calls[u][j]
      BY <1>2, <1>5, <2>2
    <3> QED
      BY <3>1 DEF LogInv, CallsOK
  <2> QED
    BY <2>1, <2>2 DEF CallsOK
<1>10. \A r \in Records : Telling(r)' <=> Telling(r)
  <2>1. ASSUME NEW r \in Records, Telling(r) PROVE Telling(r)'
    <3>0. PICK u \in Threads : \E i \in DOMAIN calls[u] : calls[u][i].record = r /\ calls[u][i].at = "reporting"
      BY <2>1 DEF Telling
    <3>1. PICK i \in DOMAIN calls[u] : calls[u][i].record = r /\ calls[u][i].at = "reporting"
      BY <3>0
    <3>2. \E j \in DOMAIN calls'[u] : calls'[u][j] = calls[u][i]
      <4>1. CASE u = t
        <5>1. i + 1 \in DOMAIN calls'[t] /\ calls'[t][i + 1] = calls[t][i]
          BY <1>1, <1>3, <4>1
        <5> QED
          BY <4>1, <5>1
      <4> QED
        BY <1>2, <4>1
    <3> QED
      BY <3>1, <3>2 DEF Telling
  <2>2. ASSUME NEW r \in Records, Telling(r)' PROVE Telling(r)
    <3>0. PICK u \in Threads : \E i \in DOMAIN calls'[u] : calls'[u][i].record = r /\ calls'[u][i].at = "reporting"
      BY <2>2 DEF Telling
    <3>1. PICK i \in DOMAIN calls'[u] : calls'[u][i].record = r /\ calls'[u][i].at = "reporting"
      BY <3>0
    <3>2. \E j \in DOMAIN calls[u] : calls'[u][i] = calls[u][j]
      BY <1>2, <1>5, <3>1
    <3> QED
      BY <3>1, <3>2 DEF Telling
  <2> QED
    BY <2>1, <2>2
<1> QED
  BY <1>4, <1>7, <1>8, <1>9, <1>10

\* A call leaves; when it was reporting, nothing below it reports.
LEMMA OffTop ==
  ASSUME NEW stack \in Seq(LogCall), stack # <<>>, NEW on, Observed(stack, on)
  PROVE  /\ Tail(stack) \in Seq(LogCall)
         /\ Len(Tail(stack)) \in Nat /\ DOMAIN Tail(stack) = 1 .. Len(Tail(stack))
         /\ \A k \in DOMAIN Tail(stack) : k + 1 \in DOMAIN stack /\ Tail(stack)[k] = stack[k + 1]
         /\ \A j \in DOMAIN stack : j # 1 => j - 1 \in DOMAIN Tail(stack) /\ Tail(stack)[j - 1] = stack[j]
         /\ stack[1].at = "reporting" => Observed(Tail(stack), FALSE)
         /\ stack[1].at # "reporting" => Observed(Tail(stack), on)
<1> DEFINE rest == Tail(stack)
<1>1. DOMAIN stack = 1 .. Len(stack) /\ Len(stack) \in Nat \ {0}
  OBVIOUS
<1>2. /\ rest \in Seq(LogCall) /\ Len(rest) = Len(stack) - 1 /\ DOMAIN rest = 1 .. Len(stack) - 1
      /\ \A k \in 1 .. Len(stack) - 1 : rest[k] = stack[k + 1]
  BY <1>1
<1> HIDE DEF rest
<1>3. \A k \in DOMAIN rest : k \in Nat /\ k + 1 \in DOMAIN stack /\ rest[k] = stack[k + 1]
  BY <1>1, <1>2
<1>4. \A j \in DOMAIN stack : j # 1 => j - 1 \in DOMAIN rest /\ rest[j - 1] = stack[j]
  <2> SUFFICES ASSUME NEW j \in DOMAIN stack, j # 1
               PROVE  j - 1 \in DOMAIN rest /\ rest[j - 1] = stack[j]
    OBVIOUS
  <2>1. j - 1 \in 1 .. Len(stack) - 1 /\ (j - 1) + 1 = j
    BY <1>1
  <2> QED
    BY <1>2, <2>1
<1>5. ASSUME NEW k \in DOMAIN rest
      PROVE  /\ rest[k].observed <=> \E j \in DOMAIN rest : j > k /\ rest[j].at = "reporting"
             /\ rest[k].at = "reporting" => ~rest[k].observed
  <2>1. /\ stack[k + 1].observed <=> \E j \in DOMAIN stack : j > k + 1 /\ stack[j].at = "reporting"
        /\ stack[k + 1].at = "reporting" => ~stack[k + 1].observed
    BY <1>3 DEF Observed
  <2>2. ASSUME NEW j \in DOMAIN rest, j > k, rest[j].at = "reporting"
        PROVE  \E l \in DOMAIN stack : l > k + 1 /\ stack[l].at = "reporting"
    <3>1. j + 1 \in DOMAIN stack /\ j + 1 > k + 1 /\ stack[j + 1].at = "reporting"
      BY <1>3, <2>2
    <3> QED
      BY <3>1
  <2>3. ASSUME NEW l \in DOMAIN stack, l > k + 1, stack[l].at = "reporting"
        PROVE  \E j \in DOMAIN rest : j > k /\ rest[j].at = "reporting"
    <3>1. l # 1 /\ l - 1 > k
      BY <1>1, <1>3, <2>3
    <3>2. l - 1 \in DOMAIN rest /\ rest[l - 1].at = "reporting"
      BY <1>4, <2>3, <3>1
    <3> QED
      BY <3>1, <3>2
  <2>4. rest[k] = stack[k + 1]
    BY <1>3
  <2> QED
    BY <2>1, <2>2, <2>3, <2>4
<1>6. stack[1].at = "reporting" => Observed(rest, FALSE)
  <2> SUFFICES ASSUME stack[1].at = "reporting" PROVE Observed(rest, FALSE)
    OBVIOUS
  <2>1. 1 \in DOMAIN stack
    BY <1>1
  <2>2. ~stack[1].observed
    BY <2>1 DEF Observed
  <2>3. \A j \in DOMAIN stack : j > 1 => stack[j].at # "reporting"
    BY <2>1, <2>2 DEF Observed
  <2>4. \A k \in DOMAIN rest : k + 1 > 1
    BY <1>2
  <2>5. \A k \in DOMAIN rest : rest[k].at # "reporting"
    BY <1>3, <2>3, <2>4
  <2>6. Observed(rest, FALSE)
    BY <1>5, <2>5 DEF Observed
  <2> QED
    BY <2>6
<1>7. stack[1].at # "reporting" => Observed(rest, on)
  <2> SUFFICES ASSUME stack[1].at # "reporting" PROVE Observed(rest, on)
    OBVIOUS
  <2>1. (\E i \in DOMAIN rest : rest[i].at = "reporting") <=> \E i \in DOMAIN stack : stack[i].at = "reporting"
    BY <1>3, <1>4
  <2>2. Observed(rest, on)
    BY <1>5, <2>1 DEF Observed
  <2> QED
    BY <2>2
<1>8. Len(rest) \in Nat /\ DOMAIN rest = 1 .. Len(rest)
  BY <1>1, <1>2
<1> QED
  BY <1>2, <1>3, <1>4, <1>6, <1>7, <1>8 DEF rest

\* The record of the innermost call is reported by that call or by none.
LEMMA TellingOfTop ==
  ASSUME LogInv, NEW t \in Threads, ~Idle(t)
  PROVE  Telling(calls[t][1].record) <=> calls[t][1].at = "reporting"
<1>1. 1 \in DOMAIN calls[t]
  BY Innermost DEF LogInv
<1>2. ASSUME NEW u \in Threads, NEW i \in DOMAIN calls[u], calls[u][i].record = calls[t][1].record
      PROVE  u = t /\ i = 1
  BY <1>1, <1>2 DEF LogInv, Distinct
<1> QED
  BY <1>1, <1>2 DEF Telling

\* The innermost call returned.
LEMMA Left ==
  ASSUME LogInv, UNCHANGED <<language, readOnly>>, NEW t \in Threads, ~Idle(t),
         calls' = [calls EXCEPT ![t] = Tail(calls[t])],
         record' = record,
         reporting' = IF calls[t][1].at = "reporting" THEN [reporting EXCEPT ![t] = FALSE] ELSE reporting
  PROVE  /\ calls' \in [Threads -> Seq(LogCall)]
         /\ Distinct' /\ Observers' /\ CallsOK'
         /\ \A r \in Records : Telling(r)' <=> Telling(r) /\ r # calls[t][1].record
<1>1. /\ calls \in [Threads -> Seq(LogCall)] /\ calls[t] \in Seq(LogCall) /\ calls[t] # <<>>
      /\ 1 \in DOMAIN calls[t] /\ Observed(calls[t], reporting[t])
      /\ reporting \in [Threads -> BOOLEAN]
  BY Innermost DEF LogInv, LogTypeOK, Idle, Observers
<1>2. calls'[t] = Tail(calls[t]) /\ \A u \in Threads \ {t} : calls'[u] = calls[u]
  BY <1>1
<1>3. /\ calls'[t] \in Seq(LogCall)
      /\ DOMAIN calls'[t] = 1 .. Len(calls'[t]) /\ Len(calls'[t]) \in Nat
      /\ \A k \in DOMAIN calls'[t] : k + 1 \in DOMAIN calls[t] /\ calls'[t][k] = calls[t][k + 1]
      /\ \A j \in DOMAIN calls[t] : j # 1 => j - 1 \in DOMAIN calls'[t] /\ calls'[t][j - 1] = calls[t][j]
      /\ calls[t][1].at = "reporting" => Observed(calls'[t], FALSE)
      /\ calls[t][1].at # "reporting" => Observed(calls'[t], reporting[t])
  BY <1>1, <1>2, OffTop
<1>4. calls' \in [Threads -> Seq(LogCall)]
  BY <1>1, <1>2, <1>3
<1>5. \A u \in Threads : \A i \in DOMAIN calls'[u] :
        \/ u = t /\ i \in Nat /\ i + 1 \in DOMAIN calls[u] /\ calls'[u][i] = calls[u][i + 1]
        \/ u # t /\ i \in DOMAIN calls[u] /\ calls'[u][i] = calls[u][i]
  BY <1>2, <1>3
<1>6. Distinct'
  <2> SUFFICES ASSUME NEW u \in Threads, NEW w \in Threads, NEW i \in DOMAIN calls'[u], NEW j \in DOMAIN calls'[w],
                      calls'[u][i].record = calls'[w][j].record
               PROVE  u = w /\ i = j
    BY DEF Distinct
  <2>1. \A x, y \in Threads : \A k \in DOMAIN calls[x], l \in DOMAIN calls[y] :
          calls[x][k].record = calls[y][l].record => x = y /\ k = l
    BY DEF LogInv, Distinct
  <2>2. CASE u = t /\ w = t
    <3>1. i + 1 = j + 1 /\ i \in Nat /\ j \in Nat
      BY <1>5, <2>1, <2>2
    <3> QED
      BY <2>2, <3>1
  <2>3. CASE u = t /\ w # t
    BY <1>5, <2>1, <2>3
  <2>4. CASE u # t /\ w = t
    BY <1>5, <2>1, <2>4
  <2>5. CASE u # t /\ w # t
    BY <1>5, <2>1, <2>5
  <2> QED
    BY <2>2, <2>3, <2>4, <2>5
<1>7. Observers'
  <2>1. ASSUME NEW u \in Threads PROVE Observed(calls'[u], reporting'[u])
    <3>1. CASE u = t /\ calls[t][1].at = "reporting"
      <4>1. reporting'[u] = FALSE /\ calls'[u] = calls'[t]
        BY <1>1, <3>1
      <4> QED
        BY <1>3, <3>1, <4>1
    <3>2. CASE u = t /\ calls[t][1].at # "reporting"
      <4>1. reporting'[u] = reporting[t] /\ calls'[u] = calls'[t]
        BY <3>2
      <4> QED
        BY <1>3, <3>2, <4>1
    <3>3. CASE u # t
      <4>1. reporting'[u] = reporting[u] /\ calls'[u] = calls[u]
        BY <1>1, <1>2, <3>3
      <4>2. Observed(calls[u], reporting[u])
        BY DEF LogInv, Observers
      <4> QED
        BY <4>1, <4>2
    <3> QED
      BY <3>1, <3>2, <3>3
  <2> QED
    BY <2>1 DEF Observers
<1>8. CallsOK'
  <2>1. \A c, rec : CallOK(c, rec)' = CallOK(c, rec)
    BY LanguageStays
  <2>2. ASSUME NEW u \in Threads, NEW i \in DOMAIN calls'[u]
        PROVE  CallOK(calls'[u][i], record[calls'[u][i].record])
    <3>1. \E j \in DOMAIN calls[u] : calls'[u][i] = calls[u][j]
      BY <1>5, <2>2
    <3> QED
      BY <3>1 DEF LogInv, CallsOK
  <2> QED
    BY <2>1, <2>2 DEF CallsOK
<1>9. ASSUME NEW r \in Records PROVE Telling(r)' <=> Telling(r) /\ r # calls[t][1].record
  <2>1. ASSUME Telling(r), r # calls[t][1].record PROVE Telling(r)'
    <3>0. PICK u \in Threads : \E i \in DOMAIN calls[u] : calls[u][i].record = r /\ calls[u][i].at = "reporting"
      BY <2>1 DEF Telling
    <3>1. PICK i \in DOMAIN calls[u] : calls[u][i].record = r /\ calls[u][i].at = "reporting"
      BY <3>0
    <3>2. \E j \in DOMAIN calls'[u] : calls'[u][j] = calls[u][i]
      <4>1. CASE u = t
        <5>1. i # 1
          BY <2>1, <3>1, <4>1
        <5>2. i - 1 \in DOMAIN calls'[t] /\ calls'[t][i - 1] = calls[t][i]
          BY <1>3, <4>1, <5>1
        <5> QED
          BY <4>1, <5>2
      <4> QED
        BY <1>2, <4>1
    <3> QED
      BY <3>1, <3>2 DEF Telling
  <2>2. ASSUME Telling(r)' PROVE Telling(r) /\ r # calls[t][1].record
    <3>0. PICK u \in Threads : \E i \in DOMAIN calls'[u] : calls'[u][i].record = r /\ calls'[u][i].at = "reporting"
      BY <2>2 DEF Telling
    <3>1. PICK i \in DOMAIN calls'[u] : calls'[u][i].record = r /\ calls'[u][i].at = "reporting"
      BY <3>0
    <3>2. \E j \in DOMAIN calls[u] : calls'[u][i] = calls[u][j] /\ (u = t => j # 1)
      BY <1>5, <3>1
    <3>3. PICK j \in DOMAIN calls[u] : calls'[u][i] = calls[u][j] /\ (u = t => j # 1)
      BY <3>2
    <3>4. calls[u][j].record = r /\ calls[u][j].at = "reporting"
      BY <3>1, <3>3
    <3>5. Telling(r)
      BY <3>4 DEF Telling
    <3>6. r # calls[t][1].record
      BY <1>1, <3>3, <3>4 DEF LogInv, Distinct
    <3> QED
      BY <3>5, <3>6
  <2> QED
    BY <2>1, <2>2
<1> QED
  BY <1>4, <1>6, <1>7, <1>8, <1>9

-----------------------------------------------------------------------------
(* Each step keeps the invariant.                                          *)

\* What the invariant says of the innermost call.
LEMMA TopCall ==
  ASSUME LogInv, NEW t \in Threads, ~Idle(t)
  PROVE  /\ Head(calls[t]) = calls[t][1] /\ calls[t][1] \in LogCall
         /\ calls[t][1].record \in Records /\ record[calls[t][1].record] \in LogRecord
         /\ CallOK(calls[t][1], record[calls[t][1].record])
         /\ calls[t][1].todo \in SUBSET (1 .. 4) /\ IsFiniteSet(calls[t][1].todo)
         /\ Cardinality(calls[t][1].todo) \in Nat
         /\ Cardinality(calls[t][1].todo) = 0 <=> calls[t][1].todo = {}
<1>1. /\ Head(calls[t]) = calls[t][1] /\ calls[t][1] \in LogCall /\ 1 \in DOMAIN calls[t]
  BY Innermost DEF LogInv
<1>2. calls[t][1].record \in Records /\ calls[t][1].todo \in SUBSET (1 .. 4)
  BY <1>1 DEF LogCall
<1>3. record[calls[t][1].record] \in LogRecord
  BY <1>2 DEF LogInv, LogTypeOK
<1>4. CallOK(calls[t][1], record[calls[t][1].record])
  BY <1>1 DEF LogInv, CallsOK
<1>5. IsFiniteSet(calls[t][1].todo) /\ Cardinality(calls[t][1].todo) \in Nat
  BY <1>2, UnitsAreFew
<1>6. Cardinality(calls[t][1].todo) = 0 <=> calls[t][1].todo = {}
  BY <1>5, FS_EmptySet
<1> QED
  BY <1>1, <1>2, <1>3, <1>4, <1>5, <1>6

\* A record's units are few enough to count.
LEMMA CountedUnits ==
  ASSUME NEW rec
  PROVE  /\ UnitsIn(rec) \in SUBSET (1 .. 4) /\ Cardinality(UnitsIn(rec)) \in Nat
         /\ IsFiniteSet(RawIn(rec)) /\ RawIn(rec) \subseteq UnitsIn(rec) /\ Cardinality(RawIn(rec)) \in Nat
<1>1. UnitsIn(rec) \in SUBSET (1 .. 4) /\ RawIn(rec) \subseteq UnitsIn(rec) /\ RawIn(rec) \in SUBSET (1 .. 4)
  BY FourUnits DEF UnitsIn, RawIn
<1> QED
  BY <1>1, UnitsAreFew

\* Fields that were fit to be passed on are still: what was passed on stays so.
LEMMA CleanStays ==
  ASSUME LogInv, UNCHANGED <<language, readOnly>>, record' \in [Records -> LogRecord], passedOn' = passedOn,
         \A r \in Records : \A f \in LogFields : Fit(r, f, record[r][f]) => Fit(r, f, record'[r][f])
  PROVE  NothingRawIsPassedOn'
<1>1. ASSUME NEW r \in passedOn, NEW f \in DOMAIN record'[r]
      PROVE  Fit(r, f, record'[r][f])
  <2>1. r \in Records
    BY DEF LogInv, LogTypeOK
  <2>2. DOMAIN record[r] = LogFields /\ DOMAIN record'[r] = LogFields
    BY <2>1 DEF LogInv, LogTypeOK, LogRecord
  <2>3. Fit(r, f, record[r][f])
    BY <1>1, <2>2, FitToPass DEF LogInv
  <2> QED
    BY <1>1, <2>1, <2>2, <2>3
<1> QED
  BY <1>1 DEF NothingRawIsPassedOn, SeemsTaken, Fit, Clean

\* Nothing more was reported, and nothing ended.
LEMMA ReportsStay ==
  ASSUME LogInv, UNCHANGED <<language, readOnly>>, outcomes' = outcomes, loud' = loud,
         \A r \in Records : Telling(r)' <=> Telling(r)
  PROVE  OutcomesOK' /\ EachPassIsReported'
<1>1. OutcomesOK'
  <2>1. \A o : OutcomeOK(o)' = OutcomeOK(o)
    BY LanguageStays
  <2>2. \A r \in Records : \A i \in DOMAIN outcomes'[r] : OutcomeOK(outcomes'[r][i])
    BY DEF LogInv, OutcomesOK
  <2> QED
    BY <2>1, <2>2 DEF OutcomesOK
<1>2. \A r \in Records : Len(outcomes[r]) = loud[r] + IF Telling(r) THEN 1 ELSE 0
  BY DEF LogInv, EachPassIsReported, Telling
<1>3. \A r \in Records : Len(outcomes'[r]) = loud'[r] + IF Telling(r)' THEN 1 ELSE 0
  BY <1>2
<1>4. EachPassIsReported'
  BY <1>3 DEF EachPassIsReported, Telling
<1> QED
  BY <1>1, <1>4

\* The unit in progress becomes something.
LEMMA BecameKeeps ==
  ASSUME LogInv, NEW t \in Threads, ~Idle(t), Working(Head(calls[t])), Head(calls[t]).todo # {},
         NEW what \in Becomings, NEW spent \in Budget, Became(t, what, spent),
         UNCHANGED <<language, readOnly, passes, loud, passedOn, reporting, outcomes>>,
         what = "unchanged" => Clean(Text(record[Head(calls[t]).record], Units[Min(Head(calls[t]).todo)])),
         what = "limited" => TooMuch(Head(calls[t]).before),
         spent.exhausted => TooMany(Head(calls[t]).before),
         \A m \in Tolls : spent.spent[m] + Cardinality(Head(calls[t]).todo)
                            <= Cardinality(UnitsIn(Head(calls[t]).before)) + 1,
         spent.spent["findings"] + Cardinality(Head(calls[t]).todo)
           <= Cardinality(UnitsIn(Head(calls[t]).before)) + 1
  PROVE  LogInv'
<1> DEFINE c == Head(calls[t])
           r == c.record
           unit == Units[Min(c.todo)]
           text == Text(record[r], unit)
<1>1. /\ calls[t][1] = c /\ c \in LogCall /\ r \in Records /\ record[r] \in LogRecord
      /\ CallOK(c, record[r]) /\ calls \in [Threads -> Seq(LogCall)] /\ 1 \in DOMAIN calls[t]
  BY TopCall, Innermost DEF LogInv, LogTypeOK
<1>a. PICK mask \in IF what = "unchanged" THEN {text} ELSE Masks(text) :
        \E stored \in Stored(r, text, mask) : \E took \in Tells(unit, text, mask, stored) :
          /\ record' = [record EXCEPT ![r] = Written(record[r], unit, stored)]
          /\ warned' = (warned \/ ~took)
          /\ calls' = [calls EXCEPT ![t][1] =
               [c EXCEPT !.counts[what] = @ + 1, !.budget = spent, !.todo = @ \ {Min(@)},
                         !.at = IF took THEN "redacting" ELSE IF warned THEN "dropped" ELSE "warning"]]
  BY Zenon DEF Became
<1>b. PICK stored \in Stored(r, text, mask) : \E took \in Tells(unit, text, mask, stored) :
          /\ record' = [record EXCEPT ![r] = Written(record[r], unit, stored)]
          /\ warned' = (warned \/ ~took)
          /\ calls' = [calls EXCEPT ![t][1] =
               [c EXCEPT !.counts[what] = @ + 1, !.budget = spent, !.todo = @ \ {Min(@)},
                         !.at = IF took THEN "redacting" ELSE IF warned THEN "dropped" ELSE "warning"]]
  BY <1>a, Zenon
<1>2. PICK took \in Tells(unit, text, mask, stored) :
        /\ record' = [record EXCEPT ![r] = Written(record[r], unit, stored)]
        /\ warned' = (warned \/ ~took)
        /\ calls' = [calls EXCEPT ![t][1] =
             [c EXCEPT !.counts[what] = @ + 1, !.budget = spent, !.todo = @ \ {Min(@)},
                       !.at = IF took THEN "redacting" ELSE IF warned THEN "dropped" ELSE "warning"]]
  BY <1>b, Zenon
<1> DEFINE where == IF took THEN "redacting" ELSE IF warned THEN "dropped" ELSE "warning"
           counts == [c.counts EXCEPT ![what] = @ + 1]
           left == c.todo \ {Min(c.todo)}
           new == [c EXCEPT !.counts = counts, !.budget = spent, !.todo = left, !.at = where]
           actual == Written(record[r], unit, stored)
<1>3. calls' = [calls EXCEPT ![t][1] = new]
  <2> HIDE DEF c
  <2>1. [c EXCEPT !.counts[what] = @ + 1, !.budget = spent, !.todo = @ \ {Min(@)}, !.at = where] = new
    BY <1>1 DEF LogCall
  <2>2. calls' = [calls EXCEPT ![t][1] =
          [c EXCEPT !.counts[what] = @ + 1, !.budget = spent, !.todo = @ \ {Min(@)}, !.at = where]]
    BY <1>2, Zenon
  <2> HIDE DEF new, where
  <2> QED
    BY <2>1, <2>2, Zenon
<1>t. /\ where = "redacting" => Reflects(unit, mask, stored)
      /\ where # "redacting" => language = "JavaScript"
  <2>1. took => Reflects(unit, mask, stored)
    BY <1>2 DEF Tells
  <2>2. language = "Python" => took
    <3>1. language = "Python" => stored = mask
      BY <1>b DEF Stored
    <3> QED
      BY <1>2, <3>1 DEF Tells, Reflects
  <2>3. language \in Languages
    BY DEF LogInv, LogTypeOK
  <2> QED
    BY <2>1, <2>2, <2>3 DEF Languages
<1>4. /\ where \in {"redacting", "dropped", "warning"} /\ where \in Places
      /\ counts \in [Becomings -> Nat] /\ left \in SUBSET (1 .. 4)
  BY <1>1 DEF Places, LogCall
<1> HIDE DEF where, actual, counts, left
<1>5. /\ new \in LogCall /\ new.before = c.before /\ new.todo = left
      /\ new.counts = counts /\ new.budget = spent /\ new.at = where
      /\ new.record = r /\ new.observed = c.observed
  BY <1>1, <1>4 DEF LogCall
<1> HIDE DEF new
<1>6. language \in Languages
  BY DEF LogInv, LogTypeOK
<1>7. /\ actual \in LogRecord
      /\ \A f \in LogFields : Fit(r, f, record[r][f]) => Fit(r, f, actual[f])
      /\ CallOK(new, actual)
  <2>1. Taken(c, record[r], what, spent, mask, stored, new)
    BY <1>a, <1>b, <1>4, <1>5, <1>t DEF Taken, counts, left
  <2>a. actual = Written(record[r], Units[Min(c.todo)], stored)
    BY DEF actual
  <2> HIDE DEF c, r
  <2>2. /\ Working(c) /\ c.todo # {}
        /\ what = "unchanged" => Clean(Text(record[r], Units[Min(c.todo)]))
        /\ what = "limited" => TooMuch(c.before)
        /\ spent.exhausted => TooMany(c.before)
        /\ \A m \in Tolls : spent.spent[m] + Cardinality(c.todo) <= Cardinality(UnitsIn(c.before)) + 1
        /\ spent.spent["findings"] + Cardinality(c.todo) <= Cardinality(UnitsIn(c.before)) + 1
    BY DEF c, r
  <2> QED
    BY <1>1, <1>5, <1>6, <2>1, <2>2, <2>a, UnitTaken DEF r
<1>8. /\ record' \in [Records -> LogRecord] /\ record'[r] = actual
      /\ \A q \in Records \ {r} : record'[q] = record[q]
  BY <1>1, <1>2, <1>7 DEF LogInv, LogTypeOK, actual
<1>9. new.at # "reporting" /\ c.at # "reporting"
  BY <1>4, <1>5 DEF Working
<1>10. /\ calls' \in [Threads -> Seq(LogCall)] /\ Distinct' /\ Observers' /\ CallsOK'
       /\ \A q \in Records : Telling(q)' <=> Telling(q)
  <2>1. /\ new.record = calls[t][1].record /\ new.observed = calls[t][1].observed
        /\ calls[t][1].at # "reporting" /\ new.at # "reporting" /\ reporting' = reporting
        /\ CallOK(new, record'[new.record]) /\ UNCHANGED <<language, readOnly>>
        /\ record' \in [Records -> LogRecord] /\ \A q \in Records \ {new.record} : record'[q] = record[q]
    BY <1>1, <1>5, <1>7, <1>8, <1>9
  <2>2. new \in LogCall
    BY <1>5
  <2> HIDE DEF c, r
  <2> QED
    BY <1>3, <2>1, <2>2, Moved
<1>11. NothingRawIsPassedOn'
  <2>1. \A q \in Records : \A f \in LogFields : Fit(q, f, record[q][f]) => Fit(q, f, record'[q][f])
    BY <1>7, <1>8
  <2> QED
    BY <1>8, <2>1, CleanStays
<1>12. OutcomesOK' /\ EachPassIsReported'
  BY <1>10, ReportsStay
<1>13. LogTypeOK'
  <2>1. LogRecord' = LogRecord /\ LogCall' = LogCall /\ LogOutcome' = LogOutcome
    BY LanguageStays
  <2>2. warned' \in BOOLEAN
    BY <1>2
  <2> QED
    BY <1>8, <1>10, <2>1, <2>2 DEF LogInv, LogTypeOK
<1> QED
  BY <1>10, <1>11, <1>12, <1>13 DEF LogInv

\* The next unit is read and paid for.
LEMMA TakeKeeps ==
  ASSUME LogInv, NEW t \in Threads, Take(t)
  PROVE  LogInv'
<1> DEFINE c == Head(calls[t])
           r == c.record
           n == Min(c.todo)
           text == Text(record[r], Units[n])
           paid == Payment(record[r], Units[n], text, c.budget)
<1>1. ~Idle(t) /\ calls[t][1] = c /\ c.at = "redacting" /\ c.todo # {}
  BY TopCall DEF Take, At
<1>2. /\ c \in LogCall /\ r \in Records /\ record[r] \in LogRecord /\ CallOK(c, record[r])
      /\ c.todo \in SUBSET (1 .. 4) /\ Cardinality(c.todo) \in Nat /\ Cardinality(c.todo) # 0
      /\ c.budget \in Budget
  BY <1>1, TopCall DEF LogCall
<1>3. n \in c.todo
  BY <1>1, <1>2, FirstUnit
<1>4. Working(c) /\ SpentOn(c.budget, c, 0)
  BY <1>1, <1>2 DEF CallOK, Working
<1>5. PaidOf(paid, c.budget, Tolls)
  BY <1>2, PaymentOf
<1>6. /\ IF paid.refused \/ text = "long" THEN Became(t, "limited", paid.budget)
         ELSE IF text = "unreadable" THEN Became(t, "failed", paid.budget)
         ELSE /\ calls' = [calls EXCEPT ![t][1] = [c EXCEPT !.at = "scanning", !.budget = paid.budget]]
              /\ UNCHANGED <<record, warned>>
      /\ UNCHANGED <<language, readOnly, passes, loud, passedOn, reporting, outcomes>>
  BY <1>1, Zenon DEF Take
<1> HIDE DEF paid, text
<1>7. paid.budget \in Budget
  BY <1>5 DEF PaidOf
<1>8. paid.refused \/ paid.budget.exhausted => TooMany(c.before)
  <2>1. c.budget.exhausted => TooMany(c.before)
    BY <1>4 DEF SpentOn
  <2>2. ASSUME NEW m \in Tolls, c.budget.spent[m] + 1 > Limits[m]
        PROVE  TooMany(c.before)
    <3>1. m \in Meters /\ c.budget.spent[m] \in Nat /\ Limits[m] \in Nat
      BY <1>2, LimitsAssumption DEF Tolls, Meters, Budget
    <3>2. c.budget.spent[m] + Cardinality(c.todo) <= Cardinality(UnitsIn(c.before))
      BY <1>2, <1>4, <3>1, CountedUnits DEF SpentOn
    <3>3. Cardinality(UnitsIn(c.before)) > Limits[m]
      BY <1>2, <2>2, <3>1, <3>2, CountedUnits
    <3> QED
      BY <3>3 DEF TooMany, Tolls
  <2>3. paid.refused => TooMany(c.before)
    BY <1>5, <2>1, <2>2 DEF PaidOf
  <2>4. ~paid.refused => paid.budget.exhausted = c.budget.exhausted
    BY <1>5 DEF PaidOf
  <2> QED
    BY <2>1, <2>3, <2>4
<1>9. \A m \in Tolls : paid.budget.spent[m] + Cardinality(c.todo) <= Cardinality(UnitsIn(c.before)) + 1
  <2> SUFFICES ASSUME NEW m \in Tolls
               PROVE  paid.budget.spent[m] + Cardinality(c.todo) <= Cardinality(UnitsIn(c.before)) + 1
    OBVIOUS
  <2>1. m \in Meters /\ c.budget.spent[m] \in Nat
    BY <1>2 DEF Tolls, Meters, Budget
  <2>2. paid.budget.spent[m] = c.budget.spent[m] \/ paid.budget.spent[m] = c.budget.spent[m] + 1
    BY <1>5, <2>1 DEF PaidOf
  <2>3. c.budget.spent[m] + Cardinality(c.todo) <= Cardinality(UnitsIn(c.before)) + 0
    BY <1>4 DEF SpentOn
  <2> QED
    BY <1>2, <2>1, <2>2, <2>3, CountedUnits
<1>10. /\ paid.budget.spent["findings"] + Cardinality(c.todo) <= Cardinality(UnitsIn(c.before))
       /\ paid.budget.spent["findings"] \in Nat
  <2>1. "findings" \in Meters /\ "findings" \notin Tolls
    BY DEF Meters, Tolls
  <2>2. paid.budget.spent["findings"] = c.budget.spent["findings"]
    BY <1>5, <2>1 DEF PaidOf
  <2>3. paid.budget.spent["findings"] \in Nat
    BY <1>7, <2>1 DEF Budget
  <2> QED
    BY <1>4, <2>2, <2>3 DEF SpentOn
<1>11. /\ c.todo \subseteq UnitsIn(c.before) /\ text = Text(c.before, Units[n])
  BY <1>2, <1>3, <1>4 DEF CallOK, Rewritten, text
<1>12. CASE paid.refused \/ text = "long"
  <2>1. Became(t, "limited", paid.budget)
    BY <1>6, <1>12
  <2>2. TooMuch(c.before)
    BY <1>3, <1>8, <1>11, <1>12 DEF TooMuch
  <2>3. paid.budget.spent["findings"] + Cardinality(c.todo) <= Cardinality(UnitsIn(c.before)) + 1
    BY <1>2, <1>10, CountedUnits
  <2>4. "limited" \in Becomings
    BY DEF Becomings
  <2> QED
    BY <1>1, <1>4, <1>6, <1>7, <1>8, <1>9, <2>1, <2>2, <2>3, <2>4, BecameKeeps
<1>13. CASE ~(paid.refused \/ text = "long") /\ text = "unreadable"
  <2>1. Became(t, "failed", paid.budget)
    BY <1>6, <1>13
  <2>2. paid.budget.spent["findings"] + Cardinality(c.todo) <= Cardinality(UnitsIn(c.before)) + 1
    BY <1>2, <1>10, CountedUnits
  <2>3. "failed" \in Becomings
    BY DEF Becomings
  <2> QED
    BY <1>1, <1>4, <1>6, <1>7, <1>8, <1>9, <2>1, <2>2, <2>3, BecameKeeps
<1>14. CASE ~(paid.refused \/ text = "long") /\ text # "unreadable"
  <2> DEFINE new == [c EXCEPT !.at = "scanning", !.budget = paid.budget]
  <2>1. /\ new \in LogCall /\ new.record = r /\ new.before = c.before /\ new.todo = c.todo
        /\ new.at = "scanning" /\ new.counts = c.counts /\ new.budget = paid.budget /\ new.observed = c.observed
    BY <1>2, <1>7 DEF LogCall, Places
  <2>2. calls \in [Threads -> Seq(LogCall)] /\ 1 \in DOMAIN calls[t]
    BY <1>1, Innermost DEF LogInv, LogTypeOK
  <2>3. calls' = [calls EXCEPT ![t][1] = new] /\ UNCHANGED <<record, warned>>
    BY <1>6, <1>14
  <2> HIDE DEF new
  <2>4. CallOK(new, record[r])
    <3>1. Rewritten(new, record[r])
      <4>1. Rewritten(c, record[r])
        BY <1>2 DEF CallOK
      <4> QED
        BY <1>1, <1>4, <1>14, <2>1, <4>1 DEF Rewritten, Working, text
    <3>2. AllCounted(new)
      BY <1>2, <1>4, <2>1 DEF CallOK, AllCounted
    <3>3. new.counts["limited"] > 0 => TooMuch(new.before)
      BY <1>2, <2>1 DEF CallOK
    <3>4. SpentOn(new.budget, new, 1)
      BY <1>8, <1>9, <1>10, <2>1 DEF SpentOn
    <3> QED
      BY <2>1, <3>1, <3>2, <3>3, <3>4 DEF CallOK
  <2>5. /\ record' \in [Records -> LogRecord] /\ record' = record /\ reporting' = reporting
        /\ UNCHANGED <<language, readOnly>>
    BY <1>6, <2>3 DEF LogInv, LogTypeOK
  <2>6. /\ calls' \in [Threads -> Seq(LogCall)] /\ Distinct' /\ Observers' /\ CallsOK'
        /\ \A q \in Records : Telling(q)' <=> Telling(q)
    BY <1>1, <2>1, <2>3, <2>4, <2>5, Moved
  <2>7. NothingRawIsPassedOn'
    BY <1>6, <2>5, CleanStays
  <2>8. OutcomesOK' /\ EachPassIsReported'
    BY <1>6, <2>6, ReportsStay
  <2>9. LogTypeOK'
    BY <1>6, <2>3, <2>5, <2>6, LanguageStays DEF LogInv, LogTypeOK
  <2> QED
    BY <2>6, <2>7, <2>8, <2>9 DEF LogInv
<1> QED
  BY <1>12, <1>13, <1>14

\* The core answers, or fails.
LEMMA CoreAnswersKeeps ==
  ASSUME LogInv, NEW t \in Threads, CoreAnswers(t)
  PROVE  LogInv'
<1> DEFINE c == Head(calls[t])
           r == c.record
           secret == Text(record[r], Units[Min(c.todo)]) \in {"secret", "opaque"}
           charges == secret /\ language = "Python"
           spent == IF charges THEN Charged(c.budget, "findings", 1) ELSE c.budget
           what == IF ~secret THEN "unchanged" ELSE IF charges /\ spent.exhausted THEN "limited" ELSE "redacted"
<1>1. ~Idle(t) /\ calls[t][1] = c /\ c.at = "scanning"
  BY TopCall DEF CoreAnswers, At
<1>2. /\ c \in LogCall /\ r \in Records /\ record[r] \in LogRecord /\ CallOK(c, record[r])
      /\ c.todo \in SUBSET (1 .. 4) /\ Cardinality(c.todo) \in Nat
      /\ Cardinality(c.todo) = 0 <=> c.todo = {}
      /\ c.budget \in Budget
  BY <1>1, TopCall DEF LogCall
<1>3. /\ Working(c) /\ SpentOn(c.budget, c, 1) /\ c.todo # {} /\ Cardinality(c.todo) # 0
      /\ Text(record[r], Units[Min(c.todo)]) \notin {"long", "unreadable"}
  BY <1>1, <1>2 DEF CallOK, Rewritten, Working
<1>4. /\ Became(t, "failed", c.budget) \/ Became(t, what, spent)
      /\ UNCHANGED <<language, readOnly, passes, loud, passedOn, reporting, outcomes>>
  BY <1>1, Zenon DEF CoreAnswers
<1>5. /\ \A m \in Tolls : c.budget.spent[m] + Cardinality(c.todo) <= Cardinality(UnitsIn(c.before)) + 1
      /\ c.budget.spent["findings"] + Cardinality(c.todo) <= Cardinality(UnitsIn(c.before))
      /\ c.budget.exhausted => TooMany(c.before)
  BY <1>3 DEF SpentOn
<1>6. /\ "findings" \in Meters /\ "findings" \notin Tolls /\ Tolls \subseteq Meters
      /\ c.budget.spent["findings"] \in Nat /\ Limits["findings"] \in Nat
      /\ Cardinality(UnitsIn(c.before)) \in Nat
  BY <1>2, LimitsAssumption, CountedUnits DEF Meters, Tolls, Budget
<1>7. CASE Became(t, "failed", c.budget)
  <2>1. c.budget.spent["findings"] + Cardinality(c.todo) <= Cardinality(UnitsIn(c.before)) + 1
    BY <1>2, <1>5, <1>6
  <2>2. "failed" \in Becomings
    BY DEF Becomings
  <2> QED
    BY <1>1, <1>2, <1>3, <1>4, <1>5, <1>7, <2>1, <2>2, BecameKeeps
<1>8. CASE Became(t, what, spent)
  <2>1. /\ spent \in Budget
        /\ \A m \in Tolls : spent.spent[m] = c.budget.spent[m]
        /\ spent.spent["findings"] = c.budget.spent["findings"]
             \/ spent.spent["findings"] = c.budget.spent["findings"] + 1
    <3> HIDE DEF c
    <3> DEFINE charged == Charged(c.budget, "findings", 1)
    <3>0. c.budget \in Budget /\ "findings" \in Meters /\ 1 \in Nat
      BY <1>2, <1>6
    <3>1. /\ charged \in Budget
          /\ \A m \in Meters : charged.spent[m] = IF m = "findings" /\ Fits(c.budget, "findings", 1)
                                              THEN c.budget.spent[m] + 1 ELSE c.budget.spent[m]
      BY <3>0, ChargedMeter
    <3> HIDE DEF charged
    <3>2. \A m \in Tolls : charged.spent[m] = c.budget.spent[m]
      BY <1>6, <3>1
    <3>3. \/ charged.spent["findings"] = c.budget.spent["findings"]
          \/ charged.spent["findings"] = c.budget.spent["findings"] + 1
      BY <1>6, <3>1
    <3>4. spent = charged \/ spent = c.budget
      BY DEF charged
    <3> HIDE DEF spent
    <3> QED
      BY <1>2, <3>1, <3>2, <3>3, <3>4
  <2>2. spent.exhausted => TooMany(c.before)
    <3>1. CASE ~charges \/ Fits(c.budget, "findings", 1)
      <4>1. spent.exhausted = c.budget.exhausted
        BY <1>2, <1>6, <3>1 DEF Charged, Budget
      <4> QED
        BY <1>5, <4>1
    <3>2. CASE ~Fits(c.budget, "findings", 1)
      <4>1. c.budget.exhausted \/ c.budget.spent["findings"] + 1 > Limits["findings"]
        BY <1>6, <3>2 DEF Fits
      <4>2. c.budget.spent["findings"] + 1 <= Cardinality(UnitsIn(c.before))
        BY <1>2, <1>3, <1>5, <1>6
      <4>3. c.budget.spent["findings"] + 1 > Limits["findings"]
            => Cardinality(UnitsIn(c.before)) > Limits["findings"]
        BY <1>6, <4>2
      <4> QED
        BY <1>5, <4>1, <4>3 DEF TooMany
    <3> QED
      BY <3>1, <3>2
  <2>3. /\ what \in Becomings
        /\ what = "unchanged" => Clean(Text(record[r], Units[Min(c.todo)]))
        /\ what = "limited" => TooMuch(c.before)
    <3> HIDE DEF spent
    <3>1. what \in Becomings
      BY DEF Becomings
    <3>2. what = "unchanged" => ~secret
      OBVIOUS
    <3>3. what = "limited" => TooMuch(c.before)
      BY <2>2 DEF TooMuch
    <3> QED
      BY <1>3, <3>1, <3>2, <3>3 DEF Clean, Raw
  <2> HIDE DEF what, spent, charges, secret
  <2>4. \A m \in Tolls : spent.spent[m] + Cardinality(c.todo) <= Cardinality(UnitsIn(c.before)) + 1
    BY <1>5, <2>1
  <2>5. spent.spent["findings"] + Cardinality(c.todo) <= Cardinality(UnitsIn(c.before)) + 1
    BY <1>2, <1>5, <1>6, <2>1
  <2> QED
    BY <1>1, <1>2, <1>3, <1>4, <1>8, <2>1, <2>2, <2>3, <2>4, <2>5, BecameKeeps
<1> QED
  BY <1>4, <1>7, <1>8

\* A record with none of its units taken, and none counted.
LEMMA FreshCall ==
  ASSUME language \in Languages, NEW rec \in LogRecord, NEW c \in LogCall, c.before = rec, c.todo = UnitsIn(rec),
         c.at = "redacting", c.counts = NoCounts, c.budget = FreshBudget
  PROVE  CallOK(c, rec)
<1>1. UnitsIn(rec) \in SUBSET (1 .. 4) /\ Cardinality(UnitsIn(rec)) \in Nat
      /\ RawIn(rec) \subseteq UnitsIn(rec) /\ Cardinality(RawIn(rec)) \in Nat
  BY CountedUnits
<1>2. Rewritten(c, rec)
  <2>1. ASSUME NEW f \in LogFields, UnitOf(f) \notin c.todo PROVE Fit(c.record, f, rec[f])
    <3>1. UnitOf(f) \in 1 .. 4
      BY DEF UnitOf
    <3>2. Text(rec, Units[UnitOf(f)]) = "absent"
      BY <2>1, <3>1, FourUnits DEF UnitsIn
    <3> QED
      BY <3>1, <3>2, TextOfUnit DEF Fit
  <2> QED
    BY <2>1 DEF Rewritten
<1>3. Replaced(c.counts) = 0 /\ c.counts["unchanged"] = 0 /\ c.counts["limited"] = 0
  BY DEF NoCounts, Becomings, Replaced
<1>4. AllCounted(c)
  <2>1. c.todo \cap RawIn(c.before) = RawIn(c.before)
    BY <1>1
  <2> QED
    BY <1>1, <1>3, <2>1 DEF AllCounted
<1>5. SpentOn(c.budget, c, 0)
  <2>1. c.budget.exhausted = FALSE /\ \A m \in Meters : c.budget.spent[m] = 0
    BY DEF FreshBudget
  <2>2. Tolls \subseteq Meters /\ "findings" \in Meters
    BY DEF Tolls, Meters
  <2> QED
    BY <1>1, <2>1, <2>2 DEF SpentOn
<1> QED
  BY <1>2, <1>3, <1>4, <1>5 DEF CallOK, Working

\* A record is logged.
LEMMA BeginKeeps ==
  ASSUME LogInv, NEW t \in Threads, NEW r \in Records, Begin(t, r)
  PROVE  LogInv'
<1> DEFINE new == [record |-> r, before |-> record[r], todo |-> UnitsIn(record[r]), at |-> "redacting",
                   counts |-> NoCounts, budget |-> FreshBudget,
                   observed |-> \E i \in DOMAIN calls[t] : calls[t][i].at = "reporting"]
<1>1. /\ calls' = [calls EXCEPT ![t] = <<new>> \o calls[t]] /\ ~InProgress(r)
      /\ UNCHANGED <<language, readOnly, record, passes, loud, passedOn, reporting, warned, outcomes>>
  BY DEF Begin, BudgetFor
<1>2. record[r] \in LogRecord /\ language \in Languages
  BY DEF LogInv, LogTypeOK
<1>3. FreshBudget \in Budget /\ NoCounts \in [Becomings -> Nat]
  BY DEF FreshBudget, Budget, NoCounts
<1>4. UnitsIn(record[r]) \in SUBSET (1 .. 4)
  BY CountedUnits
<1>5. (\E i \in DOMAIN calls[t] : calls[t][i].at = "reporting") \in BOOLEAN
  OBVIOUS
<1>6. new \in LogCall
  BY <1>2, <1>3, <1>4, <1>5 DEF LogCall, Places
<1>7. /\ new.record = r /\ new.before = record[r] /\ new.todo = UnitsIn(record[r]) /\ new.at = "redacting"
      /\ new.counts = NoCounts /\ new.budget = FreshBudget
      /\ new.observed <=> \E i \in DOMAIN calls[t] : calls[t][i].at = "reporting"
  OBVIOUS
<1> HIDE DEF new
<1>8. CallOK(new, record[new.record])
  BY <1>2, <1>6, <1>7, FreshCall
<1>9. /\ calls' \in [Threads -> Seq(LogCall)] /\ Distinct' /\ Observers' /\ CallsOK'
      /\ \A q \in Records : Telling(q)' <=> Telling(q)
  <2>1. /\ ~InProgress(new.record) /\ new.at # "reporting" /\ UNCHANGED <<language, readOnly>>
        /\ record' = record /\ reporting' = reporting
    BY <1>1, <1>7
  <2> QED
    BY <1>1, <1>6, <1>7, <1>8, <2>1, CallIsLogged
<1>10. record' \in [Records -> LogRecord] /\ NothingRawIsPassedOn'
  BY <1>1, CleanStays DEF LogInv, LogTypeOK
<1>11. OutcomesOK' /\ EachPassIsReported'
  BY <1>1, <1>9, ReportsStay
<1>12. LogTypeOK'
  BY <1>1, <1>9, LanguageStays DEF LogInv, LogTypeOK
<1> QED
  BY <1>9, <1>10, <1>11, <1>12 DEF LogInv

\* The innermost call goes on to another place.
LEMMA WentTo ==
  ASSUME LogInv, NEW t \in Threads, ~Idle(t), NEW place \in Places, GoTo(t, place), NEW new,
         new = [calls[t][1] EXCEPT !.at = place]
  PROVE  /\ calls' = [calls EXCEPT ![t][1] = new] /\ new \in LogCall /\ new.at = place
         /\ new.record = calls[t][1].record /\ new.before = calls[t][1].before /\ new.todo = calls[t][1].todo
         /\ new.counts = calls[t][1].counts /\ new.budget = calls[t][1].budget
         /\ new.observed = calls[t][1].observed
<1>1. calls[t][1] \in LogCall
  BY TopCall
<1>2. /\ new \in LogCall /\ new.at = place
      /\ new.record = calls[t][1].record /\ new.before = calls[t][1].before /\ new.todo = calls[t][1].todo
      /\ new.counts = calls[t][1].counts /\ new.budget = calls[t][1].budget
      /\ new.observed = calls[t][1].observed
  BY <1>1 DEF LogCall
<1>3. calls' = [calls EXCEPT ![t][1] = new]
  BY DEF GoTo
<1> QED
  BY <1>2, <1>3

\* The warning returns.
LEMMA WarnedKeeps ==
  ASSUME LogInv, NEW t \in Threads, Warned(t)
  PROVE  LogInv'
<1> DEFINE c == calls[t][1]
           new == [c EXCEPT !.at = "dropped"]
<1>1. /\ ~Idle(t) /\ c.at = "warning" /\ GoTo(t, "dropped")
      /\ UNCHANGED <<language, readOnly, record, passes, loud, passedOn, reporting, warned, outcomes>>
  BY TopCall DEF Warned, At
<1>2. CallOK(c, record[c.record])
  BY <1>1, TopCall
<1>3. /\ calls' = [calls EXCEPT ![t][1] = new] /\ new \in LogCall /\ new.at = "dropped"
      /\ new.record = c.record /\ new.before = c.before /\ new.todo = c.todo
      /\ new.counts = c.counts /\ new.budget = c.budget /\ new.observed = c.observed
  BY <1>1, WentTo DEF Places
<1> HIDE DEF new
<1>4. CallOK(new, record[new.record])
  <2>1. Rewritten(new, record[new.record])
    BY <1>1, <1>2, <1>3 DEF CallOK, Rewritten, Working
  <2>2. new.counts["limited"] > 0 => TooMuch(new.before)
    BY <1>2, <1>3 DEF CallOK
  <2> QED
    BY <1>3, <2>1, <2>2 DEF CallOK, Working
<1>5. record' \in [Records -> LogRecord]
  BY <1>1 DEF LogInv, LogTypeOK
<1>6. /\ calls' \in [Threads -> Seq(LogCall)] /\ Distinct' /\ Observers' /\ CallsOK'
      /\ \A q \in Records : Telling(q)' <=> Telling(q)
  BY <1>1, <1>3, <1>4, <1>5, Moved
<1>7. NothingRawIsPassedOn'
  BY <1>1, <1>5, CleanStays
<1>8. OutcomesOK' /\ EachPassIsReported'
  BY <1>1, <1>6, ReportsStay
<1>9. LogTypeOK'
  BY <1>1, <1>6, LanguageStays DEF LogInv, LogTypeOK
<1> QED
  BY <1>6, <1>7, <1>8, <1>9 DEF LogInv

\* A record whose units are all taken may be passed on.
LEMMA PassedOnClean ==
  ASSUME LogInv, UNCHANGED <<language, readOnly>>, record' = record, NEW r \in Records,
         \A f \in LogFields : Fit(r, f, record[r][f]), passedOn' \in {passedOn, passedOn \cup {r}}
  PROVE  NothingRawIsPassedOn' /\ passedOn' \in SUBSET Records
<1>1. ASSUME NEW q \in passedOn', NEW f \in DOMAIN record[q] PROVE Fit(q, f, record[q][f])
  <2>1. CASE q = r
    BY <2>1 DEF LogInv, LogTypeOK, LogRecord
  <2>2. CASE q \in passedOn
    BY <2>2, FitToPass DEF LogInv
  <2> QED
    BY <2>1, <2>2
<1>2. passedOn' \in SUBSET Records
  BY DEF LogInv, LogTypeOK
<1> QED
  BY <1>1, <1>2 DEF NothingRawIsPassedOn, SeemsTaken, Fit, Clean

\* The next processor is given the record.
LEMMA ForwardKeeps ==
  ASSUME LogInv, NEW t \in Threads, Forward(t)
  PROVE  LogInv'
<1> DEFINE c == calls[t][1]
           new == [c EXCEPT !.at = "forwarding"]
<1>1. /\ ~Idle(t) /\ c.at = "redacting" /\ c.todo = {} /\ GoTo(t, "forwarding") /\ language = "JavaScript"
      /\ passedOn' = passedOn \cup {c.record}
      /\ UNCHANGED <<language, readOnly, record, passes, loud, reporting, warned, outcomes>>
  BY TopCall DEF Forward, At
<1>2. CallOK(c, record[c.record]) /\ c.record \in Records
  BY <1>1, TopCall
<1>3. /\ calls' = [calls EXCEPT ![t][1] = new] /\ new \in LogCall /\ new.at = "forwarding"
      /\ new.record = c.record /\ new.before = c.before /\ new.todo = c.todo
      /\ new.counts = c.counts /\ new.budget = c.budget /\ new.observed = c.observed
  BY <1>1, WentTo DEF Places
<1> HIDE DEF new
<1>4. CallOK(new, record[new.record])
  <2>1. Rewritten(new, record[new.record])
    BY <1>1, <1>2, <1>3 DEF CallOK, Rewritten, Working
  <2>2. AllCounted(new)
    BY <1>1, <1>2, <1>3 DEF CallOK, Working, AllCounted
  <2>3. new.counts["limited"] > 0 => TooMuch(new.before)
    BY <1>2, <1>3 DEF CallOK
  <2> QED
    BY <1>3, <2>1, <2>2, <2>3 DEF CallOK, Working
<1>5. record' \in [Records -> LogRecord]
  BY <1>1 DEF LogInv, LogTypeOK
<1>6. /\ calls' \in [Threads -> Seq(LogCall)] /\ Distinct' /\ Observers' /\ CallsOK'
      /\ \A q \in Records : Telling(q)' <=> Telling(q)
  BY <1>1, <1>3, <1>4, <1>5, Moved
<1>7. NothingRawIsPassedOn' /\ passedOn' \in SUBSET Records
  <2>1. \A f \in LogFields : Fit(c.record, f, record[c.record][f])
    BY <1>1, <1>2 DEF CallOK, Rewritten, Working
  <2> QED
    BY <1>1, <1>2, <2>1, PassedOnClean
<1>8. OutcomesOK' /\ EachPassIsReported'
  BY <1>1, <1>6, ReportsStay
<1>9. LogTypeOK'
  BY <1>1, <1>6, <1>7, LanguageStays DEF LogInv, LogTypeOK
<1> QED
  BY <1>6, <1>7, <1>8, <1>9 DEF LogInv

\* The innermost call returns; filter lets the record be formatted.
LEMMA ReturnKeeps ==
  ASSUME LogInv, NEW t \in Threads, ~Idle(t), Return(t),
         UNCHANGED <<language, readOnly, record, warned, outcomes>>,
         reporting' = IF calls[t][1].at = "reporting" THEN [reporting EXCEPT ![t] = FALSE] ELSE reporting,
         calls[t][1].at = "reporting" \/ calls[t][1].observed,
         language = "Python" => calls[t][1].todo = {}
  PROVE  LogInv'
<1> DEFINE c == calls[t][1]
           r == c.record
<1>1. /\ calls' = [calls EXCEPT ![t] = Tail(calls[t])]
      /\ passes' = [passes EXCEPT ![r] = @ + 1]
      /\ loud' = IF c.observed THEN loud ELSE [loud EXCEPT ![r] = @ + 1]
      /\ passedOn' = IF language = "Python" THEN passedOn \cup {r} ELSE passedOn
  BY TopCall DEF Return
<1>2. r \in Records /\ CallOK(c, record[r]) /\ c \in LogCall
  BY TopCall
<1>3. /\ calls' \in [Threads -> Seq(LogCall)] /\ Distinct' /\ Observers' /\ CallsOK'
      /\ \A q \in Records : Telling(q)' <=> Telling(q) /\ q # r
  BY <1>1, Left
<1>4. NothingRawIsPassedOn' /\ passedOn' \in SUBSET Records
  <2>1. CASE language = "Python"
    <3>1. \A f \in LogFields : Fit(r, f, record[r][f])
      BY <1>2, <2>1 DEF CallOK, Rewritten
    <3> QED
      BY <1>1, <1>2, <2>1, <3>1, PassedOnClean
  <2>2. CASE language # "Python"
    <3>1. passedOn' = passedOn /\ record' \in [Records -> LogRecord]
      BY <1>1, <2>2 DEF LogInv, LogTypeOK
    <3>2. NothingRawIsPassedOn'
      BY <3>1, CleanStays
    <3> QED
      BY <3>1, <3>2 DEF LogInv, LogTypeOK
  <2> QED
    BY <2>1, <2>2
<1>5. OutcomesOK'
  BY LanguageStays DEF LogInv, OutcomesOK
<1>6. c.observed <=> c.at # "reporting"
  <2>1. 1 \in DOMAIN calls[t] /\ Observed(calls[t], reporting[t])
    BY Innermost DEF LogInv, Observers
  <2> QED
    BY <2>1 DEF Observed
<1>7. EachPassIsReported'
  <2>1. \A q \in Records : Len(outcomes[q]) = loud[q] + IF Telling(q) THEN 1 ELSE 0
    BY DEF LogInv, EachPassIsReported, Telling
  <2>2. loud \in [Records -> Nat]
    BY DEF LogInv, LogTypeOK
  <2>3. Telling(r) <=> c.at = "reporting"
    BY TellingOfTop
  <2>4. ASSUME NEW q \in Records
        PROVE  Len(outcomes'[q]) = loud'[q] + IF Telling(q)' THEN 1 ELSE 0
    <3>1. Len(outcomes'[q]) = loud[q] + IF Telling(q) THEN 1 ELSE 0
      BY <2>1
    <3>2. Telling(q)' <=> Telling(q) /\ q # r
      BY <1>3
    <3>3. loud'[q] = IF q = r /\ ~c.observed THEN loud[q] + 1 ELSE loud[q]
      BY <1>1, <2>2
    <3>4. loud[q] \in Nat
      BY <2>2
    <3> HIDE DEF r, c
    <3>5. CASE q = r
      BY <1>6, <2>3, <3>1, <3>2, <3>3, <3>4, <3>5
    <3>6. CASE q # r
      BY <3>1, <3>2, <3>3, <3>4, <3>6
    <3> QED
      BY <3>5, <3>6
  <2> QED
    BY <2>4 DEF EachPassIsReported, Telling
<1>8. LogTypeOK'
  <2>1. passes' \in [Records -> Nat] /\ loud' \in [Records -> Nat]
    BY <1>1, <1>2 DEF LogInv, LogTypeOK
  <2>2. reporting' \in [Threads -> BOOLEAN]
    BY DEF LogInv, LogTypeOK
  <2> QED
    BY <1>3, <1>4, <2>1, <2>2, LanguageStays DEF LogInv, LogTypeOK
<1> QED
  BY <1>3, <1>4, <1>5, <1>7, <1>8 DEF LogInv

\* The observer is told of the record; or, one already running on the thread, it
\* is not, and the call returns.
LEMMA ReportKeeps ==
  ASSUME LogInv, NEW t \in Threads, Report(t)
  PROVE  LogInv'
<1> DEFINE c == calls[t][1]
           r == c.record
           new == [c EXCEPT !.at = "reporting"]
           outcome == [values |-> c.counts, before |-> c.before, dropped |-> c.at = "dropped"]
<1>1. /\ ~Idle(t) /\ Head(calls[t]) = c
      /\ \/ c.at = "forwarding" \/ c.at = "dropped"
         \/ language = "Python" /\ c.at = "redacting" /\ c.todo = {}
      /\ UNCHANGED <<language, readOnly, record, warned>>
  BY TopCall DEF Report, At
<1>2. \/ /\ MayReport(t) /\ GoTo(t, "reporting") /\ reporting' = [reporting EXCEPT ![t] = TRUE]
         /\ outcomes' = [outcomes EXCEPT ![r] = Append(@, outcome)]
         /\ UNCHANGED <<passes, loud, passedOn>>
      \/ ~MayReport(t) /\ Return(t) /\ UNCHANGED <<reporting, outcomes>>
  BY <1>1 DEF Report
<1>3. CallOK(c, record[r]) /\ r \in Records /\ c \in LogCall /\ language \in Languages
  BY <1>1, TopCall DEF LogInv, LogTypeOK
<1>4. 1 \in DOMAIN calls[t] /\ Observed(calls[t], reporting[t])
  BY <1>1, Innermost DEF LogInv, Observers
<1>5. CASE ~MayReport(t) /\ Return(t) /\ UNCHANGED <<reporting, outcomes>>
  <2>1. PICK i \in DOMAIN calls[t] : calls[t][i].at = "reporting"
    BY <1>4, <1>5 DEF MayReport, Observed
  <2>2. DOMAIN calls[t] = 1 .. Len(calls[t]) /\ Len(calls[t]) \in Nat
    BY <1>1, Innermost DEF LogInv
  <2>3. i # 1
    BY <1>1, <2>1
  <2>4. i > 1
    BY <2>2, <2>3
  <2>5. c.observed
    BY <1>4, <2>1, <2>4 DEF Observed
  <2>6. language = "Python" => c.todo = {}
    BY <1>1, <1>3 DEF CallOK, Rewritten
  <2> QED
    BY <1>1, <1>5, <2>5, <2>6, ReturnKeeps
<1>6. CASE /\ MayReport(t) /\ GoTo(t, "reporting") /\ reporting' = [reporting EXCEPT ![t] = TRUE]
           /\ outcomes' = [outcomes EXCEPT ![r] = Append(@, outcome)]
           /\ UNCHANGED <<passes, loud, passedOn>>
  <2>1. /\ calls' = [calls EXCEPT ![t][1] = new] /\ new \in LogCall /\ new.at = "reporting"
        /\ new.record = r /\ new.before = c.before /\ new.todo = c.todo
        /\ new.counts = c.counts /\ new.observed = c.observed
    BY <1>1, <1>6, WentTo DEF Places
  <2>2. /\ outcome \in LogOutcome /\ outcome.values = c.counts /\ outcome.before = c.before
        /\ outcome.dropped <=> c.at = "dropped"
    BY <1>3 DEF LogCall, LogOutcome
  <2> HIDE DEF new, outcome
  <2>3. CallOK(new, record[new.record])
    <3>1. Rewritten(new, record[new.record])
      BY <1>1, <1>3, <2>1 DEF CallOK, Rewritten, Working
    <3>2. new.counts["limited"] > 0 => TooMuch(new.before)
      BY <1>3, <2>1 DEF CallOK
    <3> QED
      BY <2>1, <3>1, <3>2 DEF CallOK, Working
  <2>4. OutcomeOK(outcome)
    <3>1. outcome.values["limited"] > 0 => TooMuch(outcome.before)
      BY <1>3, <2>2 DEF CallOK
    <3>2. CASE c.at # "dropped"
      <4>1. AllCounted(c) /\ c.todo = {}
        BY <1>1, <1>3, <3>2 DEF CallOK, Rewritten, Working
      <4>2. Cardinality(c.todo) = 0 /\ c.todo \cap RawIn(c.before) = {}
        BY <4>1, FS_EmptySet
      <4>3. Cardinality(c.todo \cap RawIn(c.before)) = 0
        BY <4>2, FS_EmptySet
      <4>4. Replaced(c.counts) \in Nat /\ c.counts["unchanged"] \in Nat
        BY <1>3 DEF LogCall, Becomings, Replaced
      <4>5. /\ Replaced(c.counts) + c.counts["unchanged"] = Cardinality(UnitsIn(c.before))
            /\ Replaced(c.counts) >= Cardinality(RawIn(c.before))
        <5>1. /\ Replaced(c.counts) + c.counts["unchanged"] + 0 = Cardinality(UnitsIn(c.before))
              /\ Replaced(c.counts) + 0 >= Cardinality(RawIn(c.before))
          BY <4>1, <4>2, <4>3 DEF AllCounted
        <5> QED
          BY <4>4, <5>1, CountedUnits
      <4> QED
        BY <2>2, <3>1, <4>5 DEF OutcomeOK
    <3>3. CASE c.at = "dropped"
      BY <2>2, <3>1, <3>3 DEF OutcomeOK
    <3> QED
      BY <3>2, <3>3
  <2>5. record' \in [Records -> LogRecord] /\ record' = record
    BY <1>1 DEF LogInv, LogTypeOK
  <2>6. /\ calls' \in [Threads -> Seq(LogCall)] /\ Distinct' /\ Observers' /\ CallsOK'
        /\ \A q \in Records : Telling(q)' <=> Telling(q) \/ (new.at = "reporting" /\ q = new.record)
    <3>1. ~reporting[t] /\ c.at # "reporting"
      BY <1>1, <1>6 DEF MayReport
    <3>2. /\ new.record = calls[t][1].record /\ new.observed = calls[t][1].observed
          /\ calls[t][1].at # "reporting" /\ ~reporting[t] /\ new.at = "reporting"
          /\ reporting' = [reporting EXCEPT ![t] = TRUE]
          /\ UNCHANGED <<language, readOnly>> /\ CallOK(new, record'[new.record])
          /\ \A q \in Records \ {new.record} : record'[q] = record[q]
      BY <1>1, <1>6, <2>1, <2>3, <2>5, <3>1
    <3>3. new \in LogCall /\ calls' = [calls EXCEPT ![t][1] = new]
      BY <2>1
    <3> HIDE DEF c, r
    <3> QED
      BY <1>1, <2>5, <3>2, <3>3, Moved
  <2>7. NothingRawIsPassedOn'
    BY <1>1, <1>6, <2>5, CleanStays
  <2>8. /\ outcomes \in [Records -> Seq(LogOutcome)] /\ outcomes' \in [Records -> Seq(LogOutcome)]
        /\ outcomes'[r] = Append(outcomes[r], outcome)
        /\ \A q \in Records \ {r} : outcomes'[q] = outcomes[q]
    BY <1>3, <1>6, <2>2 DEF LogInv, LogTypeOK
  <2>9. OutcomesOK'
    <3>1. ASSUME NEW q \in Records, NEW i \in DOMAIN outcomes'[q] PROVE OutcomeOK(outcomes'[q][i])
      <4>1. \A j \in DOMAIN outcomes[q] : OutcomeOK(outcomes[q][j])
        BY DEF LogInv, OutcomesOK
      <4>2. CASE q # r
        BY <2>8, <3>1, <4>1, <4>2
      <4>3. CASE q = r
        <5>1. /\ outcomes[r] \in Seq(LogOutcome) /\ Len(outcomes[r]) \in Nat
              /\ DOMAIN outcomes[r] = 1 .. Len(outcomes[r])
          BY <1>3, <2>8
        <5>2. /\ DOMAIN outcomes'[r] = 1 .. Len(outcomes[r]) + 1
              /\ outcomes'[r][Len(outcomes[r]) + 1] = outcome
              /\ \A j \in 1 .. Len(outcomes[r]) : outcomes'[r][j] = outcomes[r][j]
          <6> DEFINE told == outcomes[r]
                     more == outcomes'[r]
          <6>1. told \in Seq(LogOutcome) /\ more = Append(told, outcome)
            BY <2>8, <5>1
          <6> HIDE DEF told, more, outcome
          <6>2. /\ DOMAIN more = 1 .. Len(told) + 1 /\ more[Len(told) + 1] = outcome
                /\ \A j \in 1 .. Len(told) : more[j] = told[j]
            BY <6>1
          <6> QED
            BY <6>2 DEF told, more
        <5>3. i = Len(outcomes[r]) + 1 \/ i \in 1 .. Len(outcomes[r])
          BY <3>1, <4>3, <5>1, <5>2
        <5> HIDE DEF r
        <5> QED
          BY <2>4, <4>1, <4>3, <5>1, <5>2, <5>3
      <4> QED
        BY <4>2, <4>3
    <3> QED
      BY <1>1, <3>1, LanguageStays DEF OutcomesOK
  <2>10. EachPassIsReported'
    <3>1. \A q \in Records : Len(outcomes[q]) = loud[q] + IF Telling(q) THEN 1 ELSE 0
      BY DEF LogInv, EachPassIsReported, Telling
    <3>2. ~Telling(r)
      BY <1>1, TellingOfTop
    <3>3. Len(outcomes'[r]) = Len(outcomes[r]) + 1
      BY <1>3, <2>8
    <3>4. loud' = loud /\ loud \in [Records -> Nat]
      BY <1>6 DEF LogInv, LogTypeOK
    <3>5. ASSUME NEW q \in Records PROVE Len(outcomes'[q]) = loud'[q] + IF Telling(q)' THEN 1 ELSE 0
      <4>1. CASE q = r
        <5>1. Telling(q)'
          BY <2>1, <2>6, <4>1
        <5>2. Len(outcomes[q]) = loud[q] + 0 /\ loud[q] \in Nat
          BY <3>1, <3>2, <3>4, <4>1
        <5>3. Len(outcomes'[q]) = Len(outcomes[q]) + 1 /\ loud'[q] = loud[q]
          BY <3>3, <3>4, <4>1
        <5> HIDE DEF r
        <5> QED
          BY <5>1, <5>2, <5>3
      <4>2. CASE q # r
        <5>1. (Telling(q)' <=> Telling(q)) /\ outcomes'[q] = outcomes[q] /\ loud'[q] = loud[q]
          BY <2>1, <2>6, <2>8, <3>4, <4>2
        <5> QED
          BY <3>1, <5>1
      <4> QED
        BY <4>1, <4>2
    <3> QED
      BY <3>5 DEF EachPassIsReported, Telling
  <2>11. LogTypeOK'
    <3>1. reporting' \in [Threads -> BOOLEAN]
      BY <1>6 DEF LogInv, LogTypeOK
    <3> QED
      BY <1>1, <1>6, <2>6, <2>8, <3>1, LanguageStays DEF LogInv, LogTypeOK
  <2> QED
    BY <2>6, <2>7, <2>9, <2>10, <2>11 DEF LogInv
<1> QED
  BY <1>2, <1>5, <1>6

\* The observer returns.
LEMMA NotifiedKeeps ==
  ASSUME LogInv, NEW t \in Threads, Notified(t)
  PROVE  LogInv'
<1>1. ~Idle(t) /\ calls[t][1].at = "reporting" /\ Return(t)
  BY TopCall DEF Notified, At
<1>2. reporting' = [reporting EXCEPT ![t] = FALSE] /\ UNCHANGED <<language, readOnly, record, warned, outcomes>>
  BY DEF Notified
<1>3. language = "Python" => calls[t][1].todo = {}
  BY <1>1, TopCall DEF CallOK, Rewritten
<1> QED
  BY <1>1, <1>2, <1>3, ReturnKeeps

\* A handler without the filter formats a record that no call redacts.
LEMMA FormatUnfilteredKeeps ==
  ASSUME LogInv, NEW r \in Records, FormatUnfiltered(r)
  PROVE  LogInv'
<1>1. /\ language = "Python" /\ ~InProgress(r) /\ record[r].exc_info \in {"plain", "secret"}
      /\ record' = [record EXCEPT ![r].exc_text = record[r].exc_info]
      /\ UNCHANGED <<language, readOnly, calls, passes, loud, passedOn, reporting, warned, outcomes>>
  BY DEF FormatUnfiltered
<1>2. record \in [Records -> LogRecord] /\ LogRecord = [PyFields -> Contents] /\ LogFields = PyFields
  BY <1>1 DEF LogInv, LogTypeOK, LogRecord, LogFields
<1>3. /\ record' \in [Records -> LogRecord] /\ \A q \in Records \ {r} : record'[q] = record[q]
      /\ \A f \in PyFields : record'[r][f] = record[r][IF f = "exc_text" THEN "exc_info" ELSE f]
  BY <1>1, <1>2 DEF PyFields
<1>4. NothingRawIsPassedOn'
  <2> SUFFICES ASSUME NEW q \in passedOn, NEW f \in DOMAIN record'[q]
               PROVE  Clean(record'[q][f])
    BY <1>1 DEF NothingRawIsPassedOn, Clean
  <2>1. q \in Records /\ DOMAIN record'[q] = PyFields /\ DOMAIN record[q] = PyFields
    BY <1>2, <1>3 DEF LogInv, LogTypeOK
  <2>2. \A g \in PyFields : Clean(record[q][g])
    BY <2>1 DEF LogInv, NothingRawIsPassedOn, SeemsTaken, Clean, PyFields
  <2>3. CASE q = r
    <3>1. "exc_info" \in PyFields
      BY DEF PyFields
    <3> QED
      BY <1>3, <2>1, <2>2, <2>3, <3>1
  <2>4. CASE q # r
    BY <1>3, <2>1, <2>2, <2>4
  <2> QED
    BY <2>3, <2>4
<1>5. Distinct' /\ Observers'
  BY <1>1 DEF LogInv, Distinct, Observers
<1>6. CallsOK'
  <2>1. \A c, rec : CallOK(c, rec)' = CallOK(c, rec)
    BY <1>1, LanguageStays
  <2>2. ASSUME NEW t \in Threads, NEW i \in DOMAIN calls[t]
        PROVE  CallOK(calls[t][i], record'[calls[t][i].record])
    <3>1. calls[t][i].record \in Records /\ calls[t][i].record # r
      <4>1. calls[t] \in Seq(LogCall)
        BY DEF LogInv, LogTypeOK
      <4>2. calls[t][i] \in LogCall
        BY <2>2, <4>1
      <4> QED
        BY <1>1, <2>2, <4>2 DEF InProgress, LogCall
    <3>2. CallOK(calls[t][i], record[calls[t][i].record])
      BY DEF LogInv, CallsOK
    <3> QED
      BY <1>3, <3>1, <3>2
  <2> QED
    BY <1>1, <2>1, <2>2 DEF CallsOK
<1>7. OutcomesOK' /\ EachPassIsReported'
  <2>1. \A q \in Records : Telling(q)' <=> Telling(q)
    BY <1>1 DEF Telling
  <2> QED
    BY <1>1, <2>1, ReportsStay
<1>8. LogTypeOK'
  BY <1>1, <1>3, LanguageStays DEF LogInv, LogTypeOK
<1> QED
  BY <1>4, <1>5, <1>6, <1>7, <1>8 DEF LogInv

-----------------------------------------------------------------------------
(* The theorems.                                                           *)

\* It holds at first.
LEMMA LogInitInv == LogInit => LogInv
<1> SUFFICES ASSUME LogInit PROVE LogInv
  OBVIOUS
<1>1. LogTypeOK
  <2>1. record \in [Records -> LogRecord]
    BY LogAssumption DEF LogInit, LogRecord, LogFields, Languages
  <2>2. \A S : <<>> \in Seq(S)
    OBVIOUS
  <2> QED
    BY <2>1, <2>2 DEF LogInit, LogTypeOK
<1>2. Distinct /\ CallsOK /\ OutcomesOK /\ NothingRawIsPassedOn
  BY DEF LogInit, Distinct, CallsOK, OutcomesOK, NothingRawIsPassedOn
<1>3. Observers
  BY DEF LogInit, Observers, Observed
<1>4. EachPassIsReported
  BY DEF LogInit, EachPassIsReported
<1> QED
  BY <1>1, <1>2, <1>3, <1>4 DEF LogInv

\* Every step keeps it.
LEMMA LogNextInv == LogInv /\ [LogNext]_logVars => LogInv'
<1> SUFFICES ASSUME LogInv, [LogNext]_logVars PROVE LogInv'
  OBVIOUS
<1>1. CASE UNCHANGED logVars
  <2>1. /\ UNCHANGED <<language, readOnly, record, calls, passes, loud, passedOn>>
        /\ UNCHANGED <<reporting, warned, outcomes>>
    BY <1>1 DEF logVars
  <2>2. LogTypeOK'
    BY <2>1, LanguageStays DEF LogInv, LogTypeOK
  <2>3. Distinct' /\ Observers' /\ NothingRawIsPassedOn' /\ EachPassIsReported'
    BY <2>1 DEF LogInv, Distinct, Observers, NothingRawIsPassedOn, SeemsTaken, EachPassIsReported
  <2>4. CallsOK' /\ OutcomesOK'
    BY <2>1, LanguageStays DEF LogInv, CallsOK, OutcomesOK
  <2> QED
    BY <2>2, <2>3, <2>4 DEF LogInv
<1>2. ASSUME NEW t \in Threads, NEW r \in Records, Begin(t, r) PROVE LogInv'
  BY <1>2, BeginKeeps
<1>3. ASSUME NEW t \in Threads, Take(t) PROVE LogInv'
  BY <1>3, TakeKeeps
<1>4. ASSUME NEW t \in Threads, CoreAnswers(t) PROVE LogInv'
  BY <1>4, CoreAnswersKeeps
<1>5. ASSUME NEW t \in Threads, Warned(t) PROVE LogInv'
  BY <1>5, WarnedKeeps
<1>6. ASSUME NEW t \in Threads, Forward(t) PROVE LogInv'
  BY <1>6, ForwardKeeps
<1>7. ASSUME NEW t \in Threads, Report(t) PROVE LogInv'
  BY <1>7, ReportKeeps
<1>8. ASSUME NEW t \in Threads, Notified(t) PROVE LogInv'
  BY <1>8, NotifiedKeeps
<1>9. ASSUME NEW r \in Records, FormatUnfiltered(r) PROVE LogInv'
  BY <1>9, FormatUnfilteredKeeps
<1> QED
  BY <1>1, <1>2, <1>3, <1>4, <1>5, <1>6, <1>7, <1>8, <1>9 DEF LogNext

\* The invariant holds in every reachable state.
LEMMA LogInvariant == LogSpec => []LogInv
  BY LogInitInv, LogNextInv, PTL DEF LogSpec

\* A record given to the next processor or formatter holds no raw text, in any of
\* its fields, whichever writes it did not take and however often it is filtered,
\* but for an object without enumerable keys of its own that a read-only record
\* kept.
THEOREM HandedOnMasked == LogSpec => []NothingRawIsPassedOn
<1>1. LogInv => NothingRawIsPassedOn
  BY DEF LogInv
<1> QED
  BY <1>1, LogInvariant, PTL

\* What the observer is told of a record are the record's own units, and a limit
\* is reported of a record that is too big by itself only.
THEOREM RecordsCountTheirOwn == LogSpec => []CountsAreTheRecords
<1>1. LogInv => CountsAreTheRecords
  <2> SUFFICES ASSUME LogInv, NEW r \in Records, NEW i \in DOMAIN outcomes[r]
               PROVE  LET o == outcomes[r][i]
                          units == Cardinality(UnitsIn(o.before))
                      IN  /\ ~o.dropped => /\ Replaced(o.values) + o.values["unchanged"] = units
                                           /\ Replaced(o.values) >= Cardinality(RawIn(o.before))
                          /\ o.values["limited"] > 0 =>
                               \/ \E j \in UnitsIn(o.before) : Text(o.before, Units[j]) = "long"
                               \/ \E m \in {"nodes", "leaves", "scans", "findings"} : units > Limits[m]
    BY DEF CountsAreTheRecords
  <2>1. OutcomeOK(outcomes[r][i])
    BY DEF LogInv, OutcomesOK
  <2> QED
    BY <2>1 DEF OutcomeOK, TooMuch, TooMany
<1> QED
  BY <1>1, LogInvariant, PTL

\* Each pass is reported once, but for what an observer of the same thread logs.
THEOREM PassesAreReportedOnce == LogSpec => []EachPassIsReported
<1>1. LogInv => EachPassIsReported
  BY DEF LogInv
<1> QED
  BY <1>1, LogInvariant, PTL

-----------------------------------------------------------------------------
(* One leaf.                                                               *)

\* A budget that has not been overspent.
Solvent(b) == b \in Budget /\ WithinLimits(b)

\* A charge keeps a budget solvent, and what other meters spent.
LEMMA OneCharge ==
  ASSUME NEW b, Solvent(b), NEW meter \in Meters, NEW n \in Nat
  PROVE  /\ Solvent(Charged(b, meter, n))
         /\ \A m \in Meters \ {meter} : Charged(b, meter, n).spent[m] = b.spent[m]
  BY ChargedMeter, ChargesStayWithinLimits DEF Solvent

\* So does a scan, which is charged no leaf; it answers what the core does, or
\* that the budget is spent.
LEMMA OneScan ==
  ASSUME NEW b, Solvent(b), NEW answer
  PROVE  /\ Solvent(Scan(b, answer).budget)
         /\ Scan(b, answer).budget.spent["leaves"] = b.spent["leaves"]
         /\ Scan(b, answer).is \in {answer, "limit"}
<1> DEFINE scanned == ChargedScan(b, 1)
           found   == IF answer \in {"clean", "error", "broken"} THEN 0 ELSE 1
           charged == Charged(scanned, "findings", found)
<1>1. b \in Budget /\ WithinLimits(b) /\ 1 \in Nat /\ "findings" \in Meters /\ "leaves" \in Meters
  BY DEF Solvent, Meters
<1>2. scanned \in Budget /\ WithinLimits(scanned)
  BY <1>1, ChargedScanMeters, ChargesStayWithinLimits
<1>3. scanned.spent["leaves"] = b.spent["leaves"]
  BY <1>1, ChargedScanMeters DEF Meters
<1>4. found \in Nat
  OBVIOUS
<1>5. Solvent(charged) /\ charged.spent["leaves"] = scanned.spent["leaves"]
  <2>1. Solvent(scanned)
    BY <1>2 DEF Solvent
  <2>2. "leaves" \in Meters \ {"findings"}
    BY DEF Meters
  <2> HIDE DEF scanned, found
  <2> QED
    BY <2>1, <2>2, <1>1, <1>4, OneCharge, Zenon
<1>6. Scan(b, answer) =
        IF ~Copies THEN [is |-> answer, budget |-> b]
        ELSE IF scanned.exhausted THEN [is |-> "limit", budget |-> scanned]
             ELSE IF answer = "error" THEN [is |-> "error", budget |-> scanned]
             ELSE [is |-> IF charged.exhausted THEN "limit" ELSE answer, budget |-> charged]
  BY Zenon DEF Scan
<1> HIDE DEF scanned, charged, found
<1> QED
  BY <1>1, <1>2, <1>3, <1>5, <1>6 DEF Solvent

\* A leaf that stays as it is has no secret, alone or under its key.
LEMMA OneLeaf ==
  ASSUME NEW b, Solvent(b), NEW keyed \in BOOLEAN, NEW alone \in Answers,
         NEW view \in ViewAnswers
  PROVE  LET leaf == ScannedLeaf(b, keyed, alone, view)
         IN  /\ Solvent(leaf.budget) /\ leaf.budget.spent["leaves"] = b.spent["leaves"]
             /\ BecomesOf(leaf.is) \in Markers \cup {"unchanged"}
             /\ BecomesOf(leaf.is) = "unchanged" => ~IsSecret(keyed, alone, view)
<1> DEFINE first  == Scan(b, alone)
           second == Scan(first.budget, view)
           leaf   == ScannedLeaf(b, keyed, alone, view)
<1>1. /\ Solvent(first.budget) /\ first.budget.spent["leaves"] = b.spent["leaves"]
      /\ first.is \in {alone, "limit"}
  BY OneScan
<1>2. /\ Solvent(second.budget) /\ second.budget.spent["leaves"] = b.spent["leaves"]
      /\ second.is \in {view, "limit"}
  <2> HIDE DEF first
  <2> QED
    BY <1>1, OneScan
<1>3. leaf = IF AsksView(first.is, keyed)
             THEN [is |-> Chosen(first.is, second.is), budget |-> second.budget] ELSE first
  BY Zenon DEF ScannedLeaf
<1> HIDE DEF leaf, first, second
<1>4. \A is : BecomesOf(is) \in Markers \cup {"unchanged"}
  BY DEF BecomesOf, Markers
<1>5. CASE AsksView(first.is, keyed)
  <2>1. leaf.is = Chosen(first.is, second.is) /\ leaf.budget = second.budget
    BY <1>3, <1>5
  <2>2. ~RedactsOrBlocks(first.is) /\ first.is = alone
    BY <1>1, <1>5 DEF AsksView
  <2>3. ASSUME BecomesOf(leaf.is) = "unchanged" PROVE ~RedactsOrBlocks(view)
    <3>1. CASE second.is \in {"limit", "error"} \/ RedactsOrBlocks(second.is)
      BY <2>1, <2>3, <3>1 DEF Chosen, BecomesOf, RedactsOrBlocks
    <3>2. CASE ~(second.is \in {"limit", "error"} \/ RedactsOrBlocks(second.is))
      BY <1>2, <3>2
    <3> QED
      BY <3>1, <3>2
  <2> QED
    BY <1>2, <1>4, <2>1, <2>2, <2>3 DEF leaf, IsSecret
<1>6. CASE ~AsksView(first.is, keyed)
  <2>1. leaf = first
    BY <1>3, <1>6
  <2>2. ASSUME BecomesOf(first.is) = "unchanged" PROVE ~keyed /\ ~RedactsOrBlocks(alone)
    BY <1>1, <1>6, <2>2 DEF AsksView, RedactsOrBlocks, BecomesOf
  <2> QED
    BY <1>1, <1>4, <2>1, <2>2 DEF leaf, IsSecret
<1> QED
  BY <1>5, <1>6

-----------------------------------------------------------------------------
(* One container.                                                          *)

Kinds == {"root", "array", "object", "error", "json"}

Container ==
  [kind : Kinds, of : Objects \cup {"root"}, keyed : BOOLEAN, texts : Nat, left : Nat,
   cause : BOOLEAN, changed : BOOLEAN, hidden : Nat, out : [Markers \cup {"raw"} -> Nat]]

\* The copy holds nothing raw, and an original that will be returned hides nothing.
Masked(c) == c \in Container /\ c.out["raw"] = 0 /\ (c.changed \/ c.hidden = 0)

\* c has grown from what is at its place on the path.
Same(c, d) == c.kind = d.kind /\ c.of = d.of

\* c has the markers of d, and k more of kind b.
Gains(c, d, b, k) ==
  \A m \in Markers : c.out[m] = d.out[m] + (IF m = b THEN k ELSE 0)

LEMMA RestIsMasked ==
  ASSUME path # <<>>, Masked(In), In.left > 0 \/ In.cause
  PROVE  Masked(Rest) /\ Same(Rest, In) /\ Rest.out = In.out
<1>1. In \in Container
  BY DEF Masked
<1>2. CASE In.left > 0
  <2>1. Rest = [In EXCEPT !.left = @ - 1] /\ In.left - 1 \in Nat
    BY <1>1, <1>2 DEF Rest, Container
  <2> HIDE DEF Rest, In
  <2> QED
    BY <1>1, <2>1 DEF Masked, Container, Same
<1>3. CASE ~(In.left > 0)
  <2>1. Rest = [In EXCEPT !.cause = FALSE]
    BY <1>3 DEF Rest
  <2> HIDE DEF Rest, In
  <2> QED
    BY <1>1, <2>1 DEF Masked, Container, Same
<1> QED
  BY <1>2, <1>3

LEMMA MarkedIsMasked ==
  ASSUME NEW c, Masked(c), NEW b \in Markers
  PROVE  LET m == WithMarker(c, b)
         IN  Masked(m) /\ Same(m, c) /\ Gains(m, c, b, 1)
<1> DEFINE out == [c.out EXCEPT ![b] = @ + 1]
           m   == WithMarker(c, b)
<1>1. c \in Container /\ c.out \in [Markers \cup {"raw"} -> Nat] /\ c.hidden \in Nat
  BY DEF Masked, Container
<1>2. /\ out \in [Markers \cup {"raw"} -> Nat] /\ out["raw"] = c.out["raw"]
      /\ \A x \in Markers : out[x] = c.out[x] + (IF x = b THEN 1 ELSE 0)
  BY <1>1 DEF Markers
<1>3. m = [c EXCEPT !.out = out, !.changed = TRUE, !.hidden = c.hidden + 1]
  BY <1>1 DEF WithMarker, Container
<1>4. c.hidden + 1 \in Nat
  BY <1>1
<1> HIDE DEF out, m
<1>5. m \in Container /\ m.out = out /\ m.changed = TRUE /\ Same(m, c)
  BY <1>1, <1>2, <1>3, <1>4 DEF Container, Same
<1> QED
  BY <1>2, <1>5 DEF Masked, Gains, m

LEMMA OpenedIsMasked ==
  ASSUME NEW kind \in Kinds, NEW of \in Objects \cup {"root"}
  PROVE  LET c == Opened(kind, of)
         IN  /\ c \in Container /\ c.kind = kind /\ c.of = of /\ c.hidden = 0
             /\ \A b \in Markers \cup {"raw"} : c.out[b] = 0
<1>1. Nothing \in [Markers \cup {"raw"} -> Nat] /\ \A b \in Markers \cup {"raw"} : Nothing[b] = 0
  BY DEF Nothing
<1>2. Copies \in BOOLEAN
  BY DEF Copies
<1> QED
  BY <1>1, <1>2 DEF Opened, Container

\* A new container, not yet read.
Fresh(c, object) ==
  /\ c \in Container /\ c.of = object /\ c.kind # "root" /\ c.hidden = 0
  /\ \A b \in Markers \cup {"raw"} : c.out[b] = 0

\* The children past the bound make a container hide some, and then it has changed.
LEMMA BoundedIsMasked ==
  ASSUME NEW object, NEW c, Fresh(c, object), NEW wanted \in Nat, MaxWidth \in Nat
  PROVE  LET d == Bounded(c, wanted)
         IN  /\ Masked(d) /\ d.kind = c.kind /\ d.of = object
             /\ \A b \in Markers : d.out[b] = 0
<1> DEFINE kept == Min({wanted, MaxWidth})
           d    == Bounded(c, wanted)
<1>1. kept \in Nat /\ kept <= wanted
  <2>1. \E x \in {wanted, MaxWidth} : \A y \in {wanted, MaxWidth} : x <= y
    OBVIOUS
  <2>2. kept \in {wanted, MaxWidth} /\ \A y \in {wanted, MaxWidth} : kept <= y
    BY <2>1 DEF Min
  <2> HIDE DEF kept
  <2> QED
    BY <2>2
<1>2. wanted - kept \in Nat /\ (kept < wanted \/ wanted - kept = 0)
  <2> HIDE DEF kept
  <2> QED
    BY <1>1
<1>3. c \in Container /\ c.changed \in BOOLEAN
  BY DEF Fresh, Container
<1>4. d = [c EXCEPT !.left = kept, !.hidden = wanted - kept, !.changed = c.changed \/ kept < wanted]
  BY <1>3 DEF Bounded, Container
<1>5. (c.changed \/ kept < wanted) \in BOOLEAN
  OBVIOUS
<1> HIDE DEF kept, d
<1>6. /\ d \in Container /\ d.out = c.out /\ d.kind = c.kind /\ d.of = c.of
      /\ d.hidden = wanted - kept /\ d.changed = (c.changed \/ kept < wanted)
  BY <1>1, <1>2, <1>3, <1>4, <1>5 DEF Container
<1> QED
  BY <1>2, <1>6 DEF Masked, Fresh, d

\* What a parent absorbs of a container is no more raw than the container.
LEMMA AbsorbedIsMasked ==
  ASSUME NEW parent, NEW c, Masked(parent), Masked(c)
  PROVE  LET d == Absorbed(parent, c)
         IN  /\ Masked(d) /\ Same(d, parent)
             /\ \A b \in Markers : d.out[b] = parent.out[b] + c.out[b]
<1> DEFINE raw(b) == IF b = "raw" /\ ~c.changed THEN c.hidden ELSE 0
           out    == [b \in Markers \cup {"raw"} |-> parent.out[b] + c.out[b] + raw(b)]
           d      == Absorbed(parent, c)
<1>1. /\ parent \in Container /\ c \in Container
      /\ parent.out \in [Markers \cup {"raw"} -> Nat] /\ c.out \in [Markers \cup {"raw"} -> Nat]
      /\ parent.hidden \in Nat /\ c.hidden \in Nat /\ parent.changed \in BOOLEAN /\ c.changed \in BOOLEAN
  BY DEF Masked, Container
<1>2. \A b : raw(b) = 0
  BY DEF Masked
<1> HIDE DEF raw
<1>3. /\ out \in [Markers \cup {"raw"} -> Nat] /\ out["raw"] = 0
      /\ \A b \in Markers : out[b] = parent.out[b] + c.out[b]
  BY <1>1, <1>2 DEF Masked
<1>4. d = [parent EXCEPT !.out = out, !.changed = parent.changed \/ c.changed,
                         !.hidden = parent.hidden + c.hidden]
  BY <1>1 DEF Absorbed, Container, raw
<1>5. parent.hidden + c.hidden \in Nat /\ (parent.changed \/ c.changed) \in BOOLEAN
      /\ ((parent.changed \/ c.changed) \/ parent.hidden + c.hidden = 0)
  BY <1>1 DEF Masked
<1> HIDE DEF out, d
<1>6. /\ d \in Container /\ d.out = out /\ Same(d, parent)
      /\ d.changed = (parent.changed \/ c.changed) /\ d.hidden = parent.hidden + c.hidden
  BY <1>1, <1>3, <1>4, <1>5 DEF Container, Same
<1> QED
  BY <1>3, <1>5, <1>6 DEF Masked, d

-----------------------------------------------------------------------------
(* The path: what there is below the innermost container stays.            *)

Walked(p) ==
  /\ p \in Seq(Container) /\ p # <<>> /\ Len(p) <= MaxDepth + 1
  /\ \A i \in 1 .. Len(p) : Masked(p[i]) /\ (p[i].kind = "root" <=> i = Len(p))
  /\ \A i, j \in 1 .. Len(p) : p[i].of = p[j].of => i = j

\* The innermost container has become c.
HeadIs(q, p, c) == q = <<c>> \o Tail(p)

\* It has become d, and the walk is in c now.
EntersFrom(q, p, c, d) == q = <<c, d>> \o Tail(p)

\* The walk has left it for c.
LeavesTo(q, p, c) == q = <<c>> \o SubSeq(p, 3, Len(p))

LEMMA HeadIsAt ==
  ASSUME NEW p, Walked(p), NEW c \in Container, NEW q, HeadIs(q, p, c)
  PROVE  /\ q \in Seq(Container) /\ Len(q) = Len(p) /\ Len(p) \in Nat /\ Len(p) >= 1
         /\ q[1] = c /\ \A i \in 2 .. Len(p) : q[i] = p[i]
<1>1. p \in Seq(Container) /\ p # <<>>
  BY DEF Walked
<1>2. Len(p) \in Nat /\ Len(p) >= 1
  BY <1>1, EmptySeq
<1>3. /\ Tail(p) \in Seq(Container) /\ Len(Tail(p)) = Len(p) - 1
      /\ \A i \in 1 .. Len(p) - 1 : Tail(p)[i] = p[i + 1]
  BY <1>1, HeadTailProperties
<1>4. <<c>> \in Seq(Container) /\ Len(<<c>>) = 1 /\ <<c>>[1] = c
  OBVIOUS
<1>5. /\ q \in Seq(Container) /\ Len(q) = 1 + (Len(p) - 1)
      /\ \A i \in 1 .. 1 + (Len(p) - 1) : q[i] = IF i <= 1 THEN <<c>>[i] ELSE Tail(p)[i - 1]
  BY <1>3, <1>4, ConcatProperties DEF HeadIs
<1>6. \A i \in 2 .. Len(p) : q[i] = p[i]
  <2> SUFFICES ASSUME NEW i \in 2 .. Len(p) PROVE q[i] = p[i]
    OBVIOUS
  <2>1. q[i] = Tail(p)[i - 1] /\ i - 1 \in 1 .. Len(p) - 1
    BY <1>2, <1>5
  <2> QED
    BY <1>3, <2>1
<1> QED
  BY <1>2, <1>4, <1>5, <1>6

LEMMA EntersFromAt ==
  ASSUME NEW p, Walked(p), NEW c \in Container, NEW d \in Container, NEW q,
         EntersFrom(q, p, c, d)
  PROVE  /\ q \in Seq(Container) /\ Len(q) = Len(p) + 1 /\ Len(p) \in Nat /\ Len(p) >= 1
         /\ q[1] = c /\ q[2] = d /\ \A i \in 2 .. Len(p) : q[i + 1] = p[i]
<1>1. p \in Seq(Container) /\ p # <<>>
  BY DEF Walked
<1>2. Len(p) \in Nat /\ Len(p) >= 1
  BY <1>1, EmptySeq
<1>3. /\ Tail(p) \in Seq(Container) /\ Len(Tail(p)) = Len(p) - 1
      /\ \A i \in 1 .. Len(p) - 1 : Tail(p)[i] = p[i + 1]
  BY <1>1, HeadTailProperties
<1>4. <<c, d>> \in Seq(Container) /\ Len(<<c, d>>) = 2 /\ <<c, d>>[1] = c /\ <<c, d>>[2] = d
  OBVIOUS
<1>5. /\ q \in Seq(Container) /\ Len(q) = 2 + (Len(p) - 1)
      /\ \A i \in 1 .. 2 + (Len(p) - 1) : q[i] = IF i <= 2 THEN <<c, d>>[i] ELSE Tail(p)[i - 2]
  BY <1>3, <1>4, ConcatProperties DEF EntersFrom
<1>6. \A i \in 2 .. Len(p) : q[i + 1] = p[i]
  <2> SUFFICES ASSUME NEW i \in 2 .. Len(p) PROVE q[i + 1] = p[i]
    OBVIOUS
  <2>1. q[i + 1] = Tail(p)[i - 1] /\ i - 1 \in 1 .. Len(p) - 1
    BY <1>2, <1>5
  <2> QED
    BY <1>3, <2>1
<1> QED
  BY <1>2, <1>4, <1>5, <1>6

LEMMA LeavesToAt ==
  ASSUME NEW p, Walked(p), Len(p) > 1, NEW c \in Container, NEW q, LeavesTo(q, p, c)
  PROVE  /\ q \in Seq(Container) /\ Len(q) = Len(p) - 1 /\ Len(p) \in Nat
         /\ q[1] = c /\ \A i \in 3 .. Len(p) : q[i - 1] = p[i]
<1>1. p \in Seq(Container) /\ Len(p) \in Nat
  BY DEF Walked
<1> DEFINE rest == SubSeq(p, 3, Len(p))
<1>2. /\ rest \in Seq(Container) /\ Len(rest) = Len(p) - 2
      /\ \A i \in 1 .. Len(p) - 2 : rest[i] = p[i + 2]
  <2>1. CASE Len(p) = 2
    BY <1>1, <2>1
  <2>2. CASE Len(p) > 2
    BY <1>1, <2>2
  <2>3. Len(p) = 2 \/ Len(p) > 2
    BY <1>1
  <2> HIDE DEF rest
  <2> QED
    BY <2>1, <2>2, <2>3
<1>3. <<c>> \in Seq(Container) /\ Len(<<c>>) = 1 /\ <<c>>[1] = c
  OBVIOUS
<1>4. /\ q \in Seq(Container) /\ Len(q) = 1 + (Len(p) - 2)
      /\ \A i \in 1 .. 1 + (Len(p) - 2) : q[i] = IF i <= 1 THEN <<c>>[i] ELSE rest[i - 1]
  <2> HIDE DEF rest
  <2> QED
    BY <1>2, <1>3, ConcatProperties DEF LeavesTo, rest
<1>5. \A i \in 3 .. Len(p) : q[i - 1] = p[i]
  <2> SUFFICES ASSUME NEW i \in 3 .. Len(p) PROVE q[i - 1] = p[i]
    OBVIOUS
  <2>1. q[i - 1] = rest[i - 2] /\ i - 2 \in 1 .. Len(p) - 2 /\ (i - 2) + 2 = i
    <3> HIDE DEF rest
    <3> QED
      BY <1>1, <1>4
  <2> HIDE DEF rest
  <2> QED
    BY <1>2, <2>1
<1> HIDE DEF rest
<1> QED
  BY <1>1, <1>3, <1>4, <1>5

LEMMA HeadIsWalked ==
  ASSUME NEW p, Walked(p), NEW c, Masked(c), Same(c, p[1]), NEW q, HeadIs(q, p, c)
  PROVE  Walked(q)
<1>1. c \in Container
  BY DEF Masked
<1>2. /\ q \in Seq(Container) /\ Len(q) = Len(p) /\ Len(p) \in Nat /\ Len(p) >= 1
      /\ q[1] = c /\ \A i \in 2 .. Len(p) : q[i] = p[i]
  BY <1>1, HeadIsAt
<1>3. \A i \in 1 .. Len(p) : Masked(q[i]) /\ Same(q[i], p[i])
  BY <1>2 DEF Walked, Same
<1>4. q # <<>>
  BY <1>2
<1> QED
  BY <1>2, <1>3, <1>4 DEF Walked, Same

LEMMA EntersFromWalked ==
  ASSUME NEW p, Walked(p), Len(p) <= MaxDepth, MaxDepth \in Nat, NEW c, Masked(c), c.kind # "root",
         \A i \in 1 .. Len(p) : p[i].of # c.of,
         NEW d, Masked(d), Same(d, p[1]), NEW q, EntersFrom(q, p, c, d)
  PROVE  Walked(q)
<1>1. c \in Container /\ d \in Container
  BY DEF Masked
<1>2. /\ q \in Seq(Container) /\ Len(q) = Len(p) + 1 /\ Len(p) \in Nat /\ Len(p) >= 1
      /\ q[1] = c /\ q[2] = d /\ \A i \in 2 .. Len(p) : q[i + 1] = p[i]
  BY <1>1, EntersFromAt
<1>3. \A i \in 1 .. Len(p) : Masked(q[i + 1]) /\ Same(q[i + 1], p[i])
  <2> SUFFICES ASSUME NEW i \in 1 .. Len(p) PROVE Masked(q[i + 1]) /\ Same(q[i + 1], p[i])
    OBVIOUS
  <2>1. CASE i = 1
    BY <1>2, <2>1
  <2>2. CASE i # 1
    <3>1. q[i + 1] = p[i]
      BY <1>2, <2>2
    <3> QED
      BY <3>1 DEF Walked, Same
  <2> QED
    BY <2>1, <2>2
<1>4. \A i \in 2 .. Len(q) : i - 1 \in 1 .. Len(p) /\ (i - 1) + 1 = i
  BY <1>2
<1>5. \A i \in 2 .. Len(q) : Masked(q[i]) /\ Same(q[i], p[i - 1])
  BY <1>3, <1>4
<1>6. \A i \in 1 .. Len(q) : i = 1 \/ i \in 2 .. Len(q)
  BY <1>2
<1>7. \A i \in 1 .. Len(q) : Masked(q[i]) /\ (q[i].kind = "root" <=> i = Len(q))
  <2> SUFFICES ASSUME NEW i \in 1 .. Len(q)
               PROVE  Masked(q[i]) /\ (q[i].kind = "root" <=> i = Len(q))
    OBVIOUS
  <2>1. CASE i = 1
    BY <1>2, <2>1
  <2>2. CASE i \in 2 .. Len(q)
    <3>1. p[i - 1].kind = "root" <=> i - 1 = Len(p)
      BY <1>4, <2>2 DEF Walked
    <3> QED
      BY <1>2, <1>5, <2>2, <3>1 DEF Same
  <2> QED
    BY <1>6, <2>1, <2>2
<1>8. \A i, j \in 1 .. Len(q) : q[i].of = q[j].of => i = j
  <2> SUFFICES ASSUME NEW i \in 1 .. Len(q), NEW j \in 1 .. Len(q), q[i].of = q[j].of
               PROVE  i = j
    OBVIOUS
  <2>1. CASE i = 1 /\ j \in 2 .. Len(q)
    BY <1>2, <1>4, <1>5, <2>1 DEF Same
  <2>2. CASE j = 1 /\ i \in 2 .. Len(q)
    BY <1>2, <1>4, <1>5, <2>2 DEF Same
  <2>3. CASE i \in 2 .. Len(q) /\ j \in 2 .. Len(q)
    <3>1. i - 1 \in 1 .. Len(p) /\ j - 1 \in 1 .. Len(p) /\ p[i - 1].of = p[j - 1].of
      BY <1>4, <1>5, <2>3 DEF Same
    <3>2. i - 1 = j - 1
      BY <3>1 DEF Walked
    <3> QED
      BY <3>2, <2>3
  <2> QED
    BY <1>6, <2>1, <2>2, <2>3
<1>9. q # <<>> /\ Len(q) <= MaxDepth + 1
  BY <1>2
<1> QED
  BY <1>2, <1>7, <1>8, <1>9 DEF Walked

LEMMA LeavesToWalked ==
  ASSUME NEW p, Walked(p), Len(p) > 1, MaxDepth \in Nat, NEW c, Masked(c), Same(c, p[2]),
         NEW q, LeavesTo(q, p, c)
  PROVE  Walked(q)
<1>1. c \in Container
  BY DEF Masked
<1>2. /\ q \in Seq(Container) /\ Len(q) = Len(p) - 1 /\ Len(p) \in Nat
      /\ q[1] = c /\ \A i \in 3 .. Len(p) : q[i - 1] = p[i]
  BY <1>1, LeavesToAt
<1>3. \A i \in 1 .. Len(q) : i + 1 \in 2 .. Len(p)
  BY <1>2
<1>4. \A i \in 1 .. Len(q) : Masked(q[i]) /\ Same(q[i], p[i + 1])
  <2> SUFFICES ASSUME NEW i \in 1 .. Len(q) PROVE Masked(q[i]) /\ Same(q[i], p[i + 1])
    OBVIOUS
  <2>1. CASE i = 1
    BY <1>2, <2>1
  <2>2. CASE i # 1
    <3>1. i + 1 \in 3 .. Len(p) /\ (i + 1) - 1 = i
      BY <1>2, <1>3, <2>2
    <3>2. q[i] = p[i + 1]
      BY <1>2, <3>1
    <3> QED
      BY <1>2, <3>1, <3>2 DEF Walked, Same
  <2> QED
    BY <2>1, <2>2
<1>5. q # <<>> /\ Len(q) <= MaxDepth + 1
  BY <1>2 DEF Walked
<1>6. \A i \in 1 .. Len(q) : q[i].kind = "root" <=> i = Len(q)
  <2> SUFFICES ASSUME NEW i \in 1 .. Len(q) PROVE q[i].kind = "root" <=> i = Len(q)
    OBVIOUS
  <2>1. i + 1 \in 1 .. Len(p)
    BY <1>2
  <2>2. p[i + 1].kind = "root" <=> i + 1 = Len(p)
    BY <2>1 DEF Walked
  <2> QED
    BY <1>2, <1>4, <2>2 DEF Same
<1>7. \A i, j \in 1 .. Len(q) : q[i].of = q[j].of => i = j
  <2> SUFFICES ASSUME NEW i \in 1 .. Len(q), NEW j \in 1 .. Len(q), q[i].of = q[j].of
               PROVE  i = j
    OBVIOUS
  <2>1. i + 1 \in 1 .. Len(p) /\ j + 1 \in 1 .. Len(p)
    BY <1>2
  <2>2. p[i + 1].of = p[j + 1].of
    BY <1>4 DEF Same
  <2>3. i + 1 = j + 1
    BY <2>1, <2>2 DEF Walked
  <2> QED
    BY <2>3
<1> QED
  BY <1>2, <1>4, <1>5, <1>6, <1>7 DEF Walked

-----------------------------------------------------------------------------
(* The markers on the path.                                                *)

\* t sums the markers of kind b from the root up to each container.
SumsUp(t, p, b) ==
  /\ t \in [0 .. Len(p) -> Nat] /\ t[0] = 0
  /\ \A i \in 1 .. Len(p) : t[i] = t[i - 1] + p[Len(p) + 1 - i].out[b]

\* The path p delivers n markers of kind b.
Sum(p, b, n) == \E t : SumsUp(t, p, b) /\ t[Len(p)] = n

\* A set of naturals that is not empty has a least element.
LEMMA LeastOf ==
  ASSUME NEW T, T \subseteq Nat, T # {}
  PROVE  \E x \in T : \A y \in T : x <= y
<1>1. \E x \in T : \A y \in T : ~ (<<y, x>> \in OpToRel(<, Nat))
  BY NatLessThanWellFounded, WFMin
<1>2. PICK x \in T : \A y \in T : ~ (<<y, x>> \in OpToRel(<, Nat))
  BY <1>1
<1>3. \A y \in T : <<y, x>> \in Nat \X Nat
  OBVIOUS
<1>4. \A y \in T : ~ (y < x)
  BY <1>2, <1>3 DEF OpToRel
<1> QED
  BY <1>4

\* There is one way of adding up: two that differ would differ at a first place.
LEMMA SumsAgree ==
  ASSUME NEW p, Walked(p), NEW b, NEW t, SumsUp(t, p, b), NEW u,
         u = [i \in 0 .. Len(p) |-> IF i = 0 THEN 0 ELSE u[i - 1] + p[Len(p) + 1 - i].out[b]]
  PROVE  u[Len(p)] = t[Len(p)]
<1> DEFINE differ == {i \in 0 .. Len(p) : u[i] # t[i]}
<1>1. Len(p) \in Nat
  BY DEF Walked
<1>2. /\ u[0] = 0
      /\ \A i \in 1 .. Len(p) : u[i] = u[i - 1] + p[Len(p) + 1 - i].out[b]
  BY <1>1
<1>3. differ = {}
  <2> SUFFICES ASSUME differ # {} PROVE FALSE
    OBVIOUS
  <2>1. differ \subseteq Nat
    BY <1>1
  <2>2. PICK x \in differ : \A y \in differ : x <= y
    <3> HIDE DEF differ
    <3> QED
      BY <2>1, LeastOf
  <2>3. x \in 0 .. Len(p) /\ u[x] # t[x]
    BY <2>2
  <2>4. x # 0
    BY <1>2, <2>3 DEF SumsUp
  <2>5. x \in 1 .. Len(p) /\ x - 1 \in 0 .. Len(p) /\ ~ (x <= x - 1)
    BY <1>1, <2>3, <2>4
  <2>6. u[x - 1] = t[x - 1]
    BY <2>2, <2>5
  <2>7. u[x] = u[x - 1] + p[Len(p) + 1 - x].out[b]
    BY <1>2, <2>5
  <2>8. t[x] = t[x - 1] + p[Len(p) + 1 - x].out[b]
    BY <2>5 DEF SumsUp
  <2> QED
    BY <2>3, <2>6, <2>7, <2>8
<1>4. Len(p) \in 0 .. Len(p)
  BY <1>1
<1> QED
  BY <1>3, <1>4

\* And Delivered is it.
LEMMA DeliveredIsSum ==
  ASSUME Walked(path), NEW b, NEW n, Sum(path, b, n)
  PROVE  Delivered(b) = n
<1>1. PICK t : SumsUp(t, path, b) /\ t[Len(path)] = n
  BY DEF Sum
<1> DEFINE Adds(u) ==
      u = [i \in 0 .. Len(path) |-> IF i = 0 THEN 0 ELSE u[i - 1] + path[Len(path) + 1 - i].out[b]]
<1>2. Adds(t)
  <2>1. Len(path) \in Nat
    BY DEF Walked
  <2>2. t \in [0 .. Len(path) -> Nat] /\ t[0] = 0
    BY <1>1 DEF SumsUp
  <2>3. \A i \in 0 .. Len(path) : t[i] = IF i = 0 THEN 0 ELSE t[i - 1] + path[Len(path) + 1 - i].out[b]
    <3> SUFFICES ASSUME NEW i \in 0 .. Len(path), i # 0
                 PROVE  t[i] = t[i - 1] + path[Len(path) + 1 - i].out[b]
      BY <2>2
    <3>1. i \in 1 .. Len(path)
      BY <2>1
    <3> QED
      BY <1>1, <3>1 DEF SumsUp
  <2> QED
    BY <2>2, <2>3
<1>3. Adds(CHOOSE u : Adds(u))
  <2> HIDE DEF Adds
  <2> QED
    BY <1>2
<1>4. (CHOOSE u : Adds(u))[Len(path)] = t[Len(path)]
  <2> DEFINE u == CHOOSE u : Adds(u)
  <2>1. u = [i \in 0 .. Len(path) |-> IF i = 0 THEN 0 ELSE u[i - 1] + path[Len(path) + 1 - i].out[b]]
    BY <1>3
  <2> HIDE DEF u, Adds
  <2>2. u[Len(path)] = t[Len(path)]
    BY <1>1, <2>1, SumsAgree
  <2> QED
    BY <2>2 DEF u
<1>5. Delivered(b) = (CHOOSE u : Adds(u))[Len(path)]
  BY Zenon DEF Delivered
<1> HIDE DEF Adds
<1> QED
  BY <1>1, <1>4, <1>5

LEMMA SumOfRoot ==
  ASSUME NEW p, Len(p) = 1, NEW b, p[1].out[b] = 0
  PROVE  Sum(p, b, 0)
<1> DEFINE t == [i \in 0 .. 1 |-> 0]
<1>1. t \in [0 .. 1 -> Nat] /\ t[0] = 0 /\ t[1] = 0
  OBVIOUS
<1>2. \A i \in 1 .. 1 : t[i] = t[i - 1] + p[1 + 1 - i].out[b]
  <2> HIDE DEF t
  <2>1. 1 .. 1 = {1} /\ 1 - 1 = 0 /\ 1 + 1 - 1 = 1
    OBVIOUS
  <2>2. t[1] = t[0] + p[1].out[b]
    BY <1>1
  <2> QED
    BY <2>1, <2>2
<1> HIDE DEF t
<1> QED
  BY <1>1, <1>2 DEF Sum, SumsUp

\* A path of masked containers has natural numbers of markers.
LEMMA MarkersAreNat ==
  ASSUME NEW p, Walked(p), NEW b \in Markers, NEW i \in 1 .. Len(p)
  PROVE  p[i].out[b] \in Nat
  BY DEF Walked, Masked, Container

\* k more markers in the innermost container are k more in all.
LEMMA SumOfHead ==
  ASSUME NEW p, Walked(p), NEW c \in Container, NEW q, HeadIs(q, p, c), NEW b \in Markers,
         NEW n, Sum(p, b, n), NEW k \in Nat, c.out[b] = p[1].out[b] + k
  PROVE  n \in Nat /\ Sum(q, b, n + k)
<1>1. /\ q \in Seq(Container) /\ Len(q) = Len(p) /\ Len(p) \in Nat /\ Len(p) >= 1
      /\ q[1] = c /\ \A i \in 2 .. Len(p) : q[i] = p[i]
  BY HeadIsAt
<1>2. PICK t : SumsUp(t, p, b) /\ t[Len(p)] = n
  BY DEF Sum
<1>3. /\ t \in [0 .. Len(p) -> Nat] /\ t[0] = 0
      /\ \A i \in 1 .. Len(p) : t[i] = t[i - 1] + p[Len(p) + 1 - i].out[b]
  BY <1>2 DEF SumsUp
<1> DEFINE u == [t EXCEPT ![Len(p)] = n + k]
<1>4. n \in Nat
  BY <1>1, <1>2, <1>3
<1>5. /\ u \in [0 .. Len(p) -> Nat] /\ u[0] = 0 /\ u[Len(p)] = n + k
      /\ \A i \in 0 .. Len(p) - 1 : u[i] = t[i]
  BY <1>1, <1>3, <1>4
<1> HIDE DEF u
<1>6. ASSUME NEW i \in 1 .. Len(q) PROVE u[i] = u[i - 1] + q[Len(q) + 1 - i].out[b]
  <2>1. CASE i = Len(p)
    <3>1. Len(p) \in 1 .. Len(p) /\ Len(p) + 1 - Len(p) = 1 /\ Len(p) - 1 \in 0 .. Len(p) - 1
      BY <1>1
    <3>2. n = t[Len(p) - 1] + p[1].out[b]
      BY <1>2, <1>3, <3>1
    <3>3. t[Len(p) - 1] \in Nat /\ p[1].out[b] \in Nat
      <4>1. Len(p) - 1 \in 0 .. Len(p) /\ 1 \in 1 .. Len(p)
        BY <1>1
      <4> QED
        BY <1>3, <4>1, MarkersAreNat
    <3>4. n + k = t[Len(p) - 1] + (p[1].out[b] + k)
      BY <3>2, <3>3
    <3> QED
      BY <1>1, <1>5, <2>1, <3>1, <3>4
  <2>2. CASE i # Len(p)
    <3>1. /\ i \in 0 .. Len(p) - 1 /\ i - 1 \in 0 .. Len(p) - 1 /\ i \in 1 .. Len(p)
          /\ Len(p) + 1 - i \in 2 .. Len(p)
      BY <1>1, <2>2
    <3> QED
      BY <1>1, <1>3, <1>5, <3>1
  <2> QED
    BY <2>1, <2>2
<1> QED
  BY <1>1, <1>4, <1>5, <1>6 DEF Sum, SumsUp

\* A container that is entered adds none.
LEMMA SumOfEntered ==
  ASSUME NEW p, Walked(p), NEW c \in Container, NEW d \in Container, NEW q,
         EntersFrom(q, p, c, d), NEW b \in Markers, c.out[b] = 0, d.out[b] = p[1].out[b],
         NEW n, Sum(p, b, n)
  PROVE  n \in Nat /\ Sum(q, b, n)
<1>1. /\ q \in Seq(Container) /\ Len(q) = Len(p) + 1 /\ Len(p) \in Nat /\ Len(p) >= 1
      /\ q[1] = c /\ q[2] = d /\ \A i \in 2 .. Len(p) : q[i + 1] = p[i]
  BY EntersFromAt
<1>2. PICK t : SumsUp(t, p, b) /\ t[Len(p)] = n
  BY DEF Sum
<1>3. /\ t \in [0 .. Len(p) -> Nat] /\ t[0] = 0
      /\ \A i \in 1 .. Len(p) : t[i] = t[i - 1] + p[Len(p) + 1 - i].out[b]
  BY <1>2 DEF SumsUp
<1> DEFINE u == [i \in 0 .. Len(p) + 1 |-> IF i <= Len(p) THEN t[i] ELSE n]
<1>4. n \in Nat
  BY <1>1, <1>2, <1>3
<1>5. /\ u \in [0 .. Len(p) + 1 -> Nat] /\ u[0] = 0 /\ u[Len(p) + 1] = n
      /\ \A i \in 0 .. Len(p) : u[i] = t[i]
  BY <1>1, <1>3, <1>4
<1> HIDE DEF u
<1>6. ASSUME NEW i \in 1 .. Len(q) PROVE u[i] = u[i - 1] + q[Len(q) + 1 - i].out[b]
  <2>1. CASE i = Len(p) + 1
    <3>1. Len(q) + 1 - i = 1 /\ i - 1 = Len(p) /\ Len(p) \in 0 .. Len(p)
      BY <1>1, <2>1
    <3>2. u[i - 1] = n
      BY <1>2, <1>5, <3>1
    <3> QED
      BY <1>1, <1>4, <1>5, <2>1, <3>1, <3>2
  <2>2. CASE i = Len(p)
    <3>1. Len(q) + 1 - i = 2 /\ Len(p) + 1 - i = 1
      BY <1>1, <2>2
    <3>2. i \in 0 .. Len(p) /\ i - 1 \in 0 .. Len(p) /\ i \in 1 .. Len(p)
      BY <1>1, <2>2
    <3>3. u[i] = u[i - 1] + p[1].out[b]
      BY <1>3, <1>5, <3>1, <3>2
    <3>4. q[Len(q) + 1 - i].out[b] = p[1].out[b]
      BY <1>1, <3>1
    <3> QED
      BY <3>3, <3>4
  <2>3. CASE i \in 1 .. Len(p) - 1
    <3>1. /\ i \in 0 .. Len(p) /\ i - 1 \in 0 .. Len(p) /\ i \in 1 .. Len(p)
          /\ Len(p) + 1 - i \in 2 .. Len(p) /\ Len(q) + 1 - i = (Len(p) + 1 - i) + 1
      BY <1>1, <2>3
    <3>2. q[(Len(p) + 1 - i) + 1] = p[Len(p) + 1 - i]
      BY <1>1, <3>1
    <3> QED
      BY <1>3, <1>5, <3>1, <3>2, ZenonT(30)
  <2> QED
    BY <1>1, <2>1, <2>2, <2>3
<1>7. u \in [0 .. Len(q) -> Nat] /\ u[Len(q)] = n
  BY <1>1, <1>5
<1> QED
  BY <1>4, <1>5, <1>6, <1>7 DEF Sum, SumsUp

\* What the parent has of the container it is left for stays; k is what it gets.
LEMMA SumOfLeft ==
  ASSUME NEW p, Walked(p), Len(p) > 1, NEW c \in Container, NEW q, LeavesTo(q, p, c),
         NEW b \in Markers, NEW n, Sum(p, b, n), NEW k \in Nat, c.out[b] = p[2].out[b] + k
  PROVE  n \in Nat /\ \E m \in Nat : Sum(q, b, m) /\ m + p[1].out[b] = n + k
<1>1. /\ q \in Seq(Container) /\ Len(q) = Len(p) - 1 /\ Len(p) \in Nat
      /\ q[1] = c /\ \A i \in 3 .. Len(p) : q[i - 1] = p[i]
  BY LeavesToAt
<1>2. PICK t : SumsUp(t, p, b) /\ t[Len(p)] = n
  BY DEF Sum
<1>3. /\ t \in [0 .. Len(p) -> Nat] /\ t[0] = 0
      /\ \A i \in 1 .. Len(p) : t[i] = t[i - 1] + p[Len(p) + 1 - i].out[b]
  BY <1>2 DEF SumsUp
<1> DEFINE l == Len(p) - 1
           m == t[l] + k
           u == [i \in 0 .. l |-> IF i < l THEN t[i] ELSE m]
<1>4. /\ l \in Nat /\ l >= 1 /\ Len(p) = l + 1 /\ l \in 0 .. Len(p) /\ l \in 1 .. Len(p)
      /\ l + 1 \in 1 .. Len(p) /\ l - 1 \in 0 .. Len(p)
  BY <1>1
<1> HIDE DEF l
<1>5. t[l] \in Nat /\ m \in Nat /\ n \in Nat
  BY <1>2, <1>3, <1>4
<1>6. p[1].out[b] \in Nat /\ p[2].out[b] \in Nat
  BY <1>1, MarkersAreNat
<1>7. n = t[l] + p[1].out[b]
  <2>1. (l + 1) - 1 = l /\ Len(p) + 1 - (l + 1) = 1
    BY <1>4
  <2> QED
    BY <1>2, <1>3, <1>4, <2>1
<1>8. t[l] = t[l - 1] + p[2].out[b] /\ t[l - 1] \in Nat
  <2>1. Len(p) + 1 - l = 2
    BY <1>4
  <2> QED
    BY <1>3, <1>4, <2>1
<1>9. /\ u \in [0 .. l -> Nat] /\ u[0] = 0 /\ u[l] = m /\ \A i \in 0 .. l - 1 : u[i] = t[i]
  <2> HIDE DEF m
  <2>1. \A i \in 0 .. l : t[i] \in Nat
    BY <1>3, <1>4
  <2> QED
    BY <1>3, <1>4, <1>5, <2>1
<1>10. m + p[1].out[b] = n + k
  BY <1>5, <1>6, <1>7, SMTT(30)
<1>11. m = t[l - 1] + c.out[b]
  BY <1>6, <1>8
<1> HIDE DEF u, m
<1>12. ASSUME NEW i \in 1 .. Len(q) PROVE u[i] = u[i - 1] + q[Len(q) + 1 - i].out[b]
  <2>1. CASE i = l
    <3>1. Len(q) + 1 - i = 1 /\ i - 1 = l - 1 /\ l - 1 \in 0 .. l - 1
      BY <1>1, <1>4, <2>1
    <3> QED
      BY <1>1, <1>9, <1>11, <2>1, <3>1
  <2>2. CASE i \in 1 .. l - 1
    <3>1. /\ i \in 0 .. l - 1 /\ i - 1 \in 0 .. l - 1 /\ i \in 1 .. Len(p)
          /\ Len(p) + 1 - i \in 3 .. Len(p) /\ Len(q) + 1 - i = (Len(p) + 1 - i) - 1
      BY <1>1, <1>4, <2>2
    <3>2. q[(Len(p) + 1 - i) - 1] = p[Len(p) + 1 - i]
      BY <1>1, <3>1
    <3> QED
      BY <1>3, <1>9, <3>1, <3>2
  <2>3. i = l \/ i \in 1 .. l - 1
    BY <1>1, <1>4
  <2> QED
    BY <2>1, <2>2, <2>3
<1>13. Len(q) = l
  BY <1>1, <1>4
<1>14. Sum(q, b, m)
  BY <1>9, <1>12, <1>13 DEF Sum, SumsUp
<1> QED
  BY <1>5, <1>10, <1>14

-----------------------------------------------------------------------------
(* Steps of the path, with the counter that goes with it.                  *)

\* No more markers of a kind are on the path than were counted.
Tallied(p, count) ==
  /\ count \in [Markers -> Nat]
  /\ \A b \in Markers : \E n \in Nat : Sum(p, b, n) /\ n <= count[b]

Sound(p, count) == Walked(p) /\ Tallied(p, count)

\* What c has more than d was counted in between.
Pays(c, d, count, more) ==
  \A b \in Markers : \E k \in Nat : c.out[b] = d.out[b] + k /\ count[b] + k <= more[b]

LEMMA HeadStep ==
  ASSUME NEW p, NEW count, Sound(p, count), NEW c, Masked(c), Same(c, p[1]), NEW q, HeadIs(q, p, c),
         NEW more \in [Markers -> Nat], Pays(c, p[1], count, more)
  PROVE  Sound(q, more)
<1>1. Walked(p) /\ Tallied(p, count) /\ c \in Container
  BY DEF Sound, Masked
<1>2. Walked(q)
  BY <1>1, HeadIsWalked
<1>3. ASSUME NEW b \in Markers PROVE \E n \in Nat : Sum(q, b, n) /\ n <= more[b]
  <2>1. PICK n \in Nat : Sum(p, b, n) /\ n <= count[b]
    BY <1>1 DEF Tallied
  <2>2. PICK k \in Nat : c.out[b] = p[1].out[b] + k /\ count[b] + k <= more[b]
    BY DEF Pays
  <2>3. Sum(q, b, n + k)
    BY <1>1, <2>1, <2>2, SumOfHead
  <2>4. n + k \in Nat /\ n + k <= more[b]
    <3>1. count[b] \in Nat /\ more[b] \in Nat
      BY <1>1 DEF Tallied
    <3> QED
      BY <2>1, <2>2, <3>1
  <2> QED
    BY <2>3, <2>4
<1> QED
  BY <1>2, <1>3 DEF Sound, Tallied

LEMMA EnterStep ==
  ASSUME NEW p, NEW count, Sound(p, count), Len(p) <= MaxDepth, MaxDepth \in Nat,
         NEW c, Masked(c), c.kind # "root", \A i \in 1 .. Len(p) : p[i].of # c.of,
         \A b \in Markers : c.out[b] = 0,
         NEW d, Masked(d), Same(d, p[1]), d.out = p[1].out, NEW q, EntersFrom(q, p, c, d),
         NEW more \in [Markers -> Nat], \A b \in Markers : count[b] <= more[b]
  PROVE  Sound(q, more)
<1>1. Walked(p) /\ Tallied(p, count) /\ c \in Container /\ d \in Container
  BY DEF Sound, Masked
<1>2. Walked(q)
  BY <1>1, EntersFromWalked
<1>3. ASSUME NEW b \in Markers PROVE \E n \in Nat : Sum(q, b, n) /\ n <= more[b]
  <2>1. PICK n \in Nat : Sum(p, b, n) /\ n <= count[b]
    BY <1>1 DEF Tallied
  <2>2. Sum(q, b, n)
    BY <1>1, <2>1, SumOfEntered
  <2>3. count[b] \in Nat /\ more[b] \in Nat /\ count[b] <= more[b]
    BY <1>1 DEF Tallied
  <2>4. n <= more[b]
    BY <2>1, <2>3
  <2> QED
    BY <2>2, <2>4
<1> QED
  BY <1>2, <1>3 DEF Sound, Tallied

\* What leaves with a container had been counted.
LEMMA WhatIsLeft ==
  ASSUME NEW m \in Nat, NEW n \in Nat, NEW k \in Nat, NEW gone \in Nat,
         NEW counted \in Nat, NEW now \in Nat,
         n <= counted, counted + k <= now + gone, m + gone = n + k
  PROVE  m <= now
OBVIOUS

LEMMA LeaveStep ==
  ASSUME NEW p, NEW count, Sound(p, count), Len(p) > 1, MaxDepth \in Nat,
         NEW c, Masked(c), Same(c, p[2]), NEW q, LeavesTo(q, p, c), NEW more \in [Markers -> Nat],
         \A b \in Markers : \E k \in Nat :
           c.out[b] = p[2].out[b] + k /\ count[b] + k <= more[b] + p[1].out[b]
  PROVE  Sound(q, more)
<1>1. Walked(p) /\ Tallied(p, count) /\ c \in Container
  BY DEF Sound, Masked
<1>2. Walked(q)
  BY <1>1, LeavesToWalked
<1>3. ASSUME NEW b \in Markers PROVE \E n \in Nat : Sum(q, b, n) /\ n <= more[b]
  <2>1. PICK n \in Nat : Sum(p, b, n) /\ n <= count[b]
    BY <1>1 DEF Tallied
  <2>2. PICK k \in Nat : c.out[b] = p[2].out[b] + k /\ count[b] + k <= more[b] + p[1].out[b]
    OBVIOUS
  <2>3. PICK m \in Nat : Sum(q, b, m) /\ m + p[1].out[b] = n + k
    BY <1>1, <2>1, <2>2, SumOfLeft
  <2>4. count[b] \in Nat /\ more[b] \in Nat /\ p[1].out[b] \in Nat
    <3>1. 1 \in 1 .. Len(p)
      BY <1>1 DEF Walked
    <3> QED
      BY <1>1, <3>1, MarkersAreNat DEF Tallied
  <2>5. m <= more[b]
    BY <2>1, <2>2, <2>3, <2>4, WhatIsLeft
  <2> QED
    BY <2>3, <2>5
<1> QED
  BY <1>2, <1>3 DEF Sound, Tallied

LEMMA InIsFirst == ASSUME Walked(path) PROVE In = path[1] /\ path # <<>> /\ Masked(In)
<1>1. Len(path) \in Nat /\ Len(path) # 0
  BY EmptySeq DEF Walked
<1>2. 1 \in 1 .. Len(path)
  BY <1>1
<1> QED
  BY <1>2 DEF Walked, In

\* c has another value than In, but no marker of it yet.
Grown(c) == Masked(c) /\ Same(c, In) /\ c.out = In.out

LEMMA CountedOne ==
  ASSUME counter \in [Markers -> Nat], NEW b \in Markers
  PROVE  /\ [counter EXCEPT ![b] = @ + 1] \in [Markers -> Nat]
         /\ \A m \in Markers : [counter EXCEPT ![b] = @ + 1][m] = counter[m] + (IF m = b THEN 1 ELSE 0)
  OBVIOUS

LEMMA MarkStep ==
  ASSUME Sound(path, counter), NEW c, Grown(c), NEW b \in Markers, Mark(c, b)
  PROVE  Sound(path', counter')
<1> DEFINE m == WithMarker(c, b)
<1>1. counter \in [Markers -> Nat] /\ Walked(path) /\ In = path[1]
  BY InIsFirst DEF Sound, Tallied
<1>2. Masked(m) /\ Same(m, c) /\ Gains(m, c, b, 1) /\ Same(c, In) /\ c.out = In.out
  BY MarkedIsMasked DEF Grown
<1>3. HeadIs(path', path, m) /\ counter' = [counter EXCEPT ![b] = @ + 1]
  BY DEF Mark, HeadIs, Counted
<1> HIDE DEF m
<1>4. counter' \in [Markers -> Nat]
  BY <1>1, <1>3, CountedOne
<1>5. Same(m, path[1])
  BY <1>1, <1>2 DEF Same
<1>6. Pays(m, path[1], counter, counter')
  <2> SUFFICES ASSUME NEW x \in Markers
               PROVE  \E k \in Nat : m.out[x] = path[1].out[x] + k /\ counter[x] + k <= counter'[x]
    BY DEF Pays
  <2> DEFINE k == IF x = b THEN 1 ELSE 0
  <2>1. k \in Nat
    OBVIOUS
  <2>2. m.out[x] = path[1].out[x] + k
    BY <1>1, <1>2 DEF Gains
  <2>3. counter'[x] = counter[x] + k /\ counter[x] \in Nat
    BY <1>1, <1>3, CountedOne
  <2> HIDE DEF k
  <2>4. counter[x] + k <= counter'[x]
    BY <2>1, <2>3
  <2> QED
    BY <2>1, <2>2, <2>4
<1> QED
  BY <1>2, <1>3, <1>4, <1>5, <1>6, HeadStep

\* The container goes on, with nothing of it counted.
LEMMA GrownStep ==
  ASSUME Sound(path, counter), NEW c, Grown(c), path' = <<c>> \o Tail(path),
         counter' \in [Markers -> Nat], \A b \in Markers : counter[b] <= counter'[b]
  PROVE  Sound(path', counter')
<1>1. counter \in [Markers -> Nat] /\ Walked(path) /\ In = path[1]
  BY InIsFirst DEF Sound, Tallied
<1>2. HeadIs(path', path, c) /\ Masked(c) /\ Same(c, path[1])
  BY <1>1 DEF Grown, HeadIs
<1>3. Pays(c, path[1], counter, counter')
  <2> SUFFICES ASSUME NEW b \in Markers
               PROVE  c.out[b] = path[1].out[b] + 0 /\ counter[b] + 0 <= counter'[b]
    BY DEF Pays
  <2>1. counter[b] \in Nat /\ path[1].out[b] \in Nat /\ c.out = path[1].out
    BY <1>1, InIsFirst DEF Masked, Container, Grown
  <2> QED
    BY <2>1
<1> QED
  BY <1>2, <1>3, HeadStep

LEMMA DeliverStep ==
  ASSUME Sound(path, counter), NEW c, Grown(c), NEW b \in Markers \cup {"unchanged"},
         NEW secret \in BOOLEAN, b = "unchanged" => ~secret, DeliverLeaf(c, b, secret)
  PROVE  Sound(path', counter')
<1>1. CASE b = "unchanged"
  <2>1. WithSame(c, secret) = c
    BY <1>1 DEF WithSame
  <2>2. path' = <<c>> \o Tail(path) /\ counter' = counter
    BY <1>1, <2>1 DEF DeliverLeaf
  <2>3. counter \in [Markers -> Nat] /\ \A x \in Markers : counter[x] <= counter[x]
    BY DEF Sound, Tallied
  <2> QED
    BY <2>2, <2>3, GrownStep
<1>2. CASE b # "unchanged"
  <2>1. Mark(c, b)
    BY <1>2 DEF DeliverLeaf, Mark, Counted
  <2> QED
    BY <1>2, <2>1, MarkStep
<1> QED
  BY <1>1, <1>2

-----------------------------------------------------------------------------
(* What a walk spends.                                                     *)

\* The strings an operation was charged for and those left are no more than allowed.
LeavesPaid(l, b) ==
  /\ l \in 0 .. MaxLeaves /\ Solvent(b)
  /\ Copies => b.spent["leaves"] + l <= MaxLeaves

WalkInv ==
  /\ walker \in Walkers
  /\ Sound(path, counter)
  /\ nodes \in 0 .. MaxNodes
  /\ LeavesPaid(leaves, budget)

LEMMA LimitsAreNat ==
  MaxDepth \in Nat /\ MaxWidth \in Nat /\ MaxNodes \in Nat /\ MaxLeaves \in Nat
  BY WalkAssumption

\* A charge of another meter does not touch the leaves.
LEMMA ChargeKeepsLeaves ==
  ASSUME NEW l, NEW b, LeavesPaid(l, b), NEW meter \in Meters \ {"leaves"}
  PROVE  LeavesPaid(l, Charged(b, meter, 1))
<1>1. Solvent(b) /\ meter \in Meters /\ 1 \in Nat /\ "leaves" \in Meters \ {meter}
  BY DEF LeavesPaid, Meters
<1>2. Solvent(Charged(b, meter, 1)) /\ Charged(b, meter, 1).spent["leaves"] = b.spent["leaves"]
  BY <1>1, OneCharge
<1> QED
  BY <1>2 DEF LeavesPaid

LEMMA PaymentsKeepLeaves ==
  ASSUME WalkInv
  PROVE  LeavesPaid(leaves, budget) /\ LeavesPaid(leaves, KeyPaid) /\ LeavesPaid(leaves, NodePaid)
<1>1. LeavesPaid(leaves, budget) /\ "keys" \in Meters \ {"leaves"} /\ "nodes" \in Meters \ {"leaves"}
  BY DEF WalkInv, Meters
<1>2. LeavesPaid(leaves, KeyPaid)
  BY <1>1, ChargeKeepsLeaves DEF KeyPaid
<1>3. LeavesPaid(leaves, NodePaid)
  BY <1>1, <1>2, ChargeKeepsLeaves DEF NodePaid
<1> QED
  BY <1>1, <1>2, <1>3

\* A string is masked, and its leaf paid for by the walk and by its operation.
LEMMA MaskStringStep ==
  ASSUME Sound(path, counter), NEW c, Grown(c), NEW b, LeavesPaid(leaves, b), NEW keyed \in BOOLEAN,
         MaskString(c, b, keyed)
  PROVE  Sound(path', counter') /\ LeavesPaid(leaves', budget')
<1> DEFINE charged == IF Copies /\ leaves > 0 THEN Charged(b, "leaves", 1) ELSE b
<1>1. Solvent(b) /\ leaves \in Nat /\ "leaves" \in Meters /\ 1 \in Nat /\ "limited" \in Markers
  BY DEF LeavesPaid, Meters, Markers
<1>2. Solvent(charged) /\ leaves <= MaxLeaves
  BY <1>1, OneCharge DEF LeavesPaid
<1>3. b.spent["leaves"] \in Nat /\ charged.spent["leaves"] \in Nat
  <2> HIDE DEF charged
  <2> QED
    BY <1>1, <1>2 DEF Solvent, Budget
<1>4. Copies /\ leaves > 0 =>
        charged.spent["leaves"] = IF Fits(b, "leaves", 1) THEN b.spent["leaves"] + 1 ELSE b.spent["leaves"]
  BY <1>1, ChargedMeter DEF Solvent
<1>5. Copies /\ leaves > 0 /\ ~charged.exhausted => Fits(b, "leaves", 1)
  BY <1>1 DEF Charged, Refused, Solvent, Budget
<1>6. Copies /\ leaves > 0 /\ Fits(b, "leaves", 1) => ~charged.exhausted
  <2> SUFFICES ASSUME Copies, leaves > 0, Fits(b, "leaves", 1) PROVE ~charged.exhausted
    OBVIOUS
  <2>1. charged = [b EXCEPT !.spent["leaves"] = @ + 1] /\ ~b.exhausted
    BY DEF Charged, Fits
  <2> QED
    BY <1>1, <2>1 DEF Solvent, Budget
<1>7. ~(Copies /\ leaves > 0) => charged = b
  OBVIOUS
<1>8. CASE NoLeaf(charged)
  <2>1. Mark(c, "limited") /\ budget' = charged /\ leaves' = leaves
    BY <1>8, Zenon DEF MaskString
  <2> HIDE DEF charged
  <2>2. charged.spent["leaves"] = b.spent["leaves"]
    BY <1>4, <1>6, <1>7, <1>8 DEF NoLeaf
  <2> QED
    BY <1>1, <1>2, <2>1, <2>2, MarkStep DEF LeavesPaid
<1>9. CASE ~NoLeaf(charged)
  <2>1. /\ leaves' = leaves - 1
        /\ \/ Mark(c, "limited") /\ budget' = charged
           \/ \E alone \in Answers : \E view \in IF keyed THEN ViewAnswers ELSE {"clean"} :
                LET leaf == ScannedLeaf(charged, keyed, alone, view)
                IN  /\ budget' = leaf.budget
                    /\ DeliverLeaf(c, BecomesOf(leaf.is), IsSecret(keyed, alone, view))
    BY <1>9, Zenon DEF MaskString
  <2>2. leaves > 0 /\ (Copies => charged.spent["leaves"] = b.spent["leaves"] + 1)
    <3> HIDE DEF charged
    <3> QED
      BY <1>1, <1>4, <1>5, <1>9 DEF NoLeaf
  <2> HIDE DEF charged
  <2>3. leaves - 1 \in 0 .. MaxLeaves /\ (Copies => charged.spent["leaves"] + (leaves - 1) <= MaxLeaves)
    BY <1>1, <1>2, <1>3, <2>2, LimitsAreNat DEF LeavesPaid
  <2>4. CASE Mark(c, "limited") /\ budget' = charged
    BY <1>1, <1>2, <2>1, <2>3, <2>4, MarkStep DEF LeavesPaid
  <2>5. ASSUME NEW alone \in Answers, NEW view \in IF keyed THEN ViewAnswers ELSE {"clean"},
               budget' = ScannedLeaf(charged, keyed, alone, view).budget,
               DeliverLeaf(c, BecomesOf(ScannedLeaf(charged, keyed, alone, view).is),
                           IsSecret(keyed, alone, view))
        PROVE  Sound(path', counter') /\ LeavesPaid(leaves', budget')
    <3> DEFINE leaf   == ScannedLeaf(charged, keyed, alone, view)
               secret == IsSecret(keyed, alone, view)
    <3>1. view \in ViewAnswers
      BY <2>5 DEF ViewAnswers, Answers
    <3>2. /\ Solvent(leaf.budget) /\ leaf.budget.spent["leaves"] = charged.spent["leaves"]
          /\ BecomesOf(leaf.is) \in Markers \cup {"unchanged"}
          /\ BecomesOf(leaf.is) = "unchanged" => ~secret
      BY <1>2, <2>5, <3>1, OneLeaf
    <3>3. secret \in BOOLEAN
      BY DEF IsSecret, RedactsOrBlocks
    <3>4. budget' = leaf.budget /\ DeliverLeaf(c, BecomesOf(leaf.is), secret)
      BY <2>5
    <3> HIDE DEF leaf, secret
    <3>5. Sound(path', counter')
      BY <3>2, <3>3, <3>4, DeliverStep
    <3>6. LeavesPaid(leaves', budget')
      BY <2>1, <2>3, <3>2, <3>4 DEF LeavesPaid
    <3> QED
      BY <3>5, <3>6
  <2> QED
    BY <2>1, <2>4, <2>5, Zenon
<1> QED
  BY <1>8, <1>9

-----------------------------------------------------------------------------
(* One step of the walk.                                                   *)

LEMMA NewState ==
  ASSUME WalkInv, walker' = walker, Sound(path', counter'), nodes' \in 0 .. MaxNodes,
         LeavesPaid(leaves', budget')
  PROVE  WalkInv'
  BY DEF WalkInv, LeavesPaid, Copies

LEMMA WalkFacts ==
  ASSUME WalkInv
  PROVE  /\ Walked(path) /\ Sound(path, counter) /\ counter \in [Markers -> Nat]
         /\ In = path[1] /\ Masked(In) /\ In \in Container /\ path # <<>>
         /\ nodes \in 0 .. MaxNodes
  BY InIsFirst DEF WalkInv, Sound, Tallied, Masked

\* What is read of the container leaves the rest of it.
LEMMA ReadIsGrown ==
  ASSUME WalkInv, In.left > 0 \/ In.cause
  PROVE  Grown(Rest)
  BY WalkFacts, RestIsMasked DEF Grown

LEMMA TextIsGrown ==
  ASSUME WalkInv, In.texts > 0
  PROVE  Grown([In EXCEPT !.texts = @ - 1])
<1>1. In \in Container /\ Masked(In) /\ In.texts \in Nat /\ In.texts - 1 \in Nat
  BY WalkFacts DEF Container
<1> DEFINE c == [In EXCEPT !.texts = @ - 1]
<1>2. /\ c \in Container /\ c.out = In.out /\ c.hidden = In.hidden /\ c.changed = In.changed
      /\ Same(c, In)
  <2> HIDE DEF In
  <2> QED
    BY <1>1 DEF Container, Same
<1> QED
  BY <1>1, <1>2 DEF Grown, Masked

LEMMA CutIsGrown == ASSUME WalkInv PROVE Grown(Cut(In))
<1>1. In \in Container /\ Masked(In)
  BY WalkFacts
<1>2. /\ Cut(In) \in Container /\ Cut(In).out = In.out /\ Cut(In).hidden = In.hidden
      /\ Cut(In).changed = In.changed /\ Same(Cut(In), In)
  <2> HIDE DEF In
  <2> QED
    BY <1>1 DEF Container, Same, Cut
<1> QED
  BY <1>1, <1>2 DEF Grown, Masked

LEMMA ExceptionTextStep == ASSUME WalkInv, ExceptionText PROVE WalkInv'
<1> DEFINE c == [In EXCEPT !.texts = @ - 1]
<1>1. /\ In.texts > 0 /\ walker' = walker /\ nodes' = nodes
      /\ \/ MaskString(c, budget, FALSE)
         \/ Mark(c, "failed") /\ leaves' = leaves /\ budget' = budget
  BY Zenon DEF ExceptionText
<1>2. Grown(c) /\ Sound(path, counter) /\ LeavesPaid(leaves, budget) /\ nodes' \in 0 .. MaxNodes
  BY <1>1, TextIsGrown, WalkFacts DEF WalkInv
<1> HIDE DEF c
<1>3. Sound(path', counter') /\ LeavesPaid(leaves', budget')
  <2>1. CASE MaskString(c, budget, FALSE)
    BY <1>2, <2>1, MaskStringStep
  <2>2. CASE Mark(c, "failed") /\ leaves' = leaves /\ budget' = budget
    BY <1>2, <2>2, MarkStep DEF Markers
  <2> QED
    BY <1>1, <2>1, <2>2
<1> QED
  BY <1>1, <1>2, <1>3, NewState

LEMMA CutKeysStep == ASSUME WalkInv, CutKeys PROVE WalkInv'
<1>1. /\ counter' = [counter EXCEPT !["limited"] = @ + 1] /\ path' = <<Cut(In)>> \o Tail(path)
      /\ budget' = KeyPaid /\ walker' = walker /\ nodes' = nodes /\ leaves' = leaves
  BY DEF CutKeys, Counted
<1>2. counter' \in [Markers -> Nat] /\ \A b \in Markers : counter[b] <= counter'[b]
  <2>1. "limited" \in Markers /\ counter \in [Markers -> Nat]
    BY WalkFacts DEF Markers
  <2> QED
    BY <1>1, <2>1
<1>3. Sound(path', counter')
  BY <1>1, <1>2, WalkFacts, CutIsGrown, GrownStep
<1> QED
  BY <1>1, <1>3, WalkFacts, PaymentsKeepLeaves, NewState

LEMMA ReadThrowsStep == ASSUME WalkInv, ReadThrows PROVE WalkInv'
<1>1. /\ In.left > 0 /\ Mark(Rest, "failed") /\ budget' = KeyPaid
      /\ walker' = walker /\ nodes' = nodes /\ leaves' = leaves
  BY DEF ReadThrows
<1>2. Sound(path', counter')
  BY <1>1, WalkFacts, ReadIsGrown, MarkStep DEF Markers
<1> QED
  BY <1>1, <1>2, WalkFacts, PaymentsKeepLeaves, NewState

LEMMA VisitRefusedStep == ASSUME WalkInv, VisitRefused PROVE WalkInv'
<1>1. /\ In.left > 0 \/ In.cause
      /\ Mark(Rest, "limited") /\ budget' = NodePaid
      /\ walker' = walker /\ nodes' = nodes /\ leaves' = leaves
  BY DEF VisitRefused, Proceeds, Reads
<1>2. Sound(path', counter')
  BY <1>1, WalkFacts, ReadIsGrown, MarkStep DEF Markers
<1> QED
  BY <1>1, <1>2, WalkFacts, PaymentsKeepLeaves, NewState

\* What every visit has in common.
LEMMA VisitFacts ==
  ASSUME WalkInv, Visits
  PROVE  /\ Grown(Rest) /\ LeavesPaid(leaves, NodePaid) /\ walker' = walker
         /\ nodes' \in 0 .. MaxNodes
<1>1. /\ In.left > 0 \/ In.cause
      /\ nodes # 0 /\ nodes' = nodes - 1 /\ walker' = walker
  BY DEF Visits, Proceeds, Reads, NoNode
<1>2. nodes' \in 0 .. MaxNodes
  BY <1>1, WalkFacts, LimitsAreNat
<1> QED
  BY <1>1, <1>2, ReadIsGrown, PaymentsKeepLeaves

LEMMA KeyedIsBoolean == ASSUME WalkInv PROVE Keyed \subseteq BOOLEAN
<1>1. In.keyed \in BOOLEAN
  BY WalkFacts DEF Container
<1>2. /\ {In.keyed} \subseteq BOOLEAN /\ {FALSE, walker = "_Walk"} \subseteq BOOLEAN
      /\ {FALSE, walker = "walkValue" /\ Len(path) = 2} \subseteq BOOLEAN
      /\ (IF In.left = 0 \/ ~Copies THEN {FALSE} ELSE {TRUE, walker # "_Walk"}) \subseteq BOOLEAN
  BY <1>1
<1> QED
  BY <1>2 DEF Keyed

LEMMA VisitStringStep == ASSUME WalkInv, VisitString PROVE WalkInv'
<1>1. Visits /\ \E keyed \in Keyed : MaskString(Rest, NodePaid, keyed)
  BY DEF VisitString
<1>2. Sound(path', counter') /\ LeavesPaid(leaves', budget')
  BY <1>1, KeyedIsBoolean, WalkFacts, VisitFacts, MaskStringStep
<1> QED
  BY <1>1, <1>2, VisitFacts, NewState

LEMMA VisitScalarStep == ASSUME WalkInv, VisitScalar PROVE WalkInv'
<1>1. /\ Visits /\ path' = <<Rest>> \o Tail(path) /\ budget' = NodePaid
      /\ leaves' = leaves /\ counter' = counter
  BY DEF VisitScalar
<1>2. counter' \in [Markers -> Nat] /\ \A b \in Markers : counter[b] <= counter'[b]
  BY <1>1, WalkFacts
<1>3. Sound(path', counter')
  BY <1>1, <1>2, WalkFacts, VisitFacts, GrownStep
<1> QED
  BY <1>1, <1>3, VisitFacts, NewState

LEMMA VisitMarkerStep == ASSUME WalkInv, VisitMarker PROVE WalkInv'
<1>1. /\ Visits /\ (Mark(Rest, "limited") \/ Mark(Rest, "failed"))
      /\ budget' = NodePaid /\ leaves' = leaves
  BY DEF VisitMarker
<1>2. Sound(path', counter')
  BY <1>1, WalkFacts, VisitFacts, MarkStep DEF Markers
<1> QED
  BY <1>1, <1>2, VisitFacts, NewState

\* A container that is entered is new, and not on the path.
LEMMA EnteredStep ==
  ASSUME WalkInv, NEW object \in Objects, MayEnter(object), NEW c, Masked(c), c.kind # "root",
         c.of = object, \A b \in Markers : c.out[b] = 0, path' = Entered(c),
         counter' \in [Markers -> Nat], \A b \in Markers : counter[b] <= counter'[b],
         budget' = NodePaid, leaves' = leaves
  PROVE  WalkInv'
<1>1. Visits /\ Depth < MaxDepth /\ \A i \in 1 .. Len(path) : path[i].of # c.of
  <2>1. DOMAIN path = 1 .. Len(path)
    BY WalkFacts DEF Walked
  <2> QED
    BY <2>1 DEF MayEnter, OnPath
<1>2. Len(path) <= MaxDepth
  BY <1>1, WalkFacts, LimitsAreNat DEF Depth, Walked
<1>3. Masked(Rest) /\ Same(Rest, path[1]) /\ Rest.out = path[1].out
  BY <1>1, VisitFacts, WalkFacts DEF Grown
<1>4. EntersFrom(path', path, c, Rest)
  BY DEF EntersFrom, Entered
<1>5. Sound(path', counter')
  BY <1>1, <1>2, <1>3, <1>4, WalkFacts, LimitsAreNat, EnterStep
<1> QED
  BY <1>1, <1>5, VisitFacts, NewState

LEMMA TruncatedCounts ==
  ASSUME WalkInv, NEW wanted, counter' = Truncated(wanted)
  PROVE  counter' \in [Markers -> Nat] /\ \A b \in Markers : counter[b] <= counter'[b]
<1>1. counter \in [Markers -> Nat] /\ "limited" \in Markers
  BY WalkFacts DEF Markers
<1>2. counter' = counter \/ counter' = [counter EXCEPT !["limited"] = @ + 1]
  BY DEF Truncated
<1> QED
  BY <1>1, <1>2

LEMMA EnterArrayStep ==
  ASSUME WalkInv, NEW object \in Objects, NEW wanted \in Nat, EnterArray(object, wanted)
  PROVE  WalkInv'
<1> DEFINE opened == Opened("array", object)
           c      == Bounded(opened, wanted)
<1>1. /\ MayEnter(object) /\ path' = Entered(c) /\ counter' = Truncated(wanted)
      /\ budget' = NodePaid /\ leaves' = leaves
  BY DEF EnterArray
<1>2. Fresh(opened, object)
  BY OpenedIsMasked DEF Fresh, Kinds
<1> HIDE DEF opened
<1>3. Masked(c) /\ c.kind # "root" /\ c.of = object /\ \A b \in Markers : c.out[b] = 0
  BY <1>2, BoundedIsMasked, LimitsAreNat DEF Fresh
<1> HIDE DEF c
<1> QED
  BY <1>1, <1>3, TruncatedCounts, EnteredStep

LEMMA EnterObjectStep ==
  ASSUME WalkInv, NEW object \in Objects, NEW wanted \in Nat, EnterObject(object, wanted)
  PROVE  WalkInv'
<1>1. PICK plain \in BOOLEAN :
        path' = Entered(Bounded([Opened("object", object) EXCEPT !.changed = @ \/ ~plain], wanted))
  BY DEF EnterObject
<1> DEFINE opened == [Opened("object", object) EXCEPT !.changed = @ \/ ~plain]
           c      == Bounded(opened, wanted)
<1>2. /\ MayEnter(object) /\ path' = Entered(c) /\ counter' = Truncated(wanted)
      /\ budget' = NodePaid /\ leaves' = leaves
  BY <1>1 DEF EnterObject
<1>3. Fresh(opened, object)
  <2> DEFINE o == Opened("object", object)
  <2>1. Fresh(o, object)
    BY OpenedIsMasked DEF Fresh, Kinds
  <2> HIDE DEF o
  <2>2. o.changed \in BOOLEAN /\ (o.changed \/ ~plain) \in BOOLEAN
    BY <2>1 DEF Fresh, Container
  <2>3. opened = [o EXCEPT !.changed = o.changed \/ ~plain]
    BY <2>1 DEF o, Fresh, Container
  <2> HIDE DEF opened
  <2>4. /\ opened \in Container /\ opened.kind = o.kind /\ opened.of = o.of
        /\ opened.out = o.out /\ opened.hidden = o.hidden
    BY <2>1, <2>2, <2>3 DEF Fresh, Container
  <2> QED
    BY <2>1, <2>4 DEF Fresh
<1> HIDE DEF opened
<1>4. Masked(c) /\ c.kind # "root" /\ c.of = object /\ \A b \in Markers : c.out[b] = 0
  BY <1>3, BoundedIsMasked, LimitsAreNat DEF Fresh
<1> HIDE DEF c
<1> QED
  BY <1>2, <1>4, TruncatedCounts, EnteredStep

LEMMA EnterErrorStep ==
  ASSUME WalkInv, NEW object \in Objects, NEW wanted \in Nat, EnterError(object, wanted)
  PROVE  WalkInv'
<1> DEFINE texts       == IF Copies THEN 2 ELSE 0
           read(cause) == [Opened("error", object) EXCEPT !.changed = TRUE, !.cause = Copies /\ cause,
                                                          !.texts = texts]
<1>1. PICK cause \in BOOLEAN : path' = Entered(Bounded(read(cause), wanted))
  BY DEF EnterError
<1> DEFINE opened == read(cause)
           c      == Bounded(opened, wanted)
<1>2. /\ MayEnter(object) /\ path' = Entered(c) /\ counter' = Truncated(wanted)
      /\ budget' = NodePaid /\ leaves' = leaves
  BY <1>1 DEF EnterError
<1>3. Fresh(opened, object)
  <2> DEFINE o == Opened("error", object)
  <2>1. Fresh(o, object)
    BY OpenedIsMasked DEF Fresh, Kinds
  <2>2. texts \in Nat /\ (Copies /\ cause) \in BOOLEAN
    BY DEF Copies
  <2>3. opened = [o EXCEPT !.changed = TRUE, !.cause = Copies /\ cause, !.texts = texts]
    OBVIOUS
  <2> HIDE DEF o, opened, texts
  <2>4. /\ opened \in Container /\ opened.kind = o.kind /\ opened.of = o.of
        /\ opened.out = o.out /\ opened.hidden = o.hidden
    BY <2>1, <2>2, <2>3 DEF Fresh, Container
  <2> QED
    BY <2>1, <2>4 DEF Fresh
<1> HIDE DEF opened
<1>4. Masked(c) /\ c.kind # "root" /\ c.of = object /\ \A b \in Markers : c.out[b] = 0
  BY <1>3, BoundedIsMasked, LimitsAreNat DEF Fresh
<1> HIDE DEF c
<1> QED
  BY <1>2, <1>4, TruncatedCounts, EnteredStep

LEMMA EnterJsonStep ==
  ASSUME WalkInv, NEW object \in Objects, EnterJson(object)
  PROVE  WalkInv'
<1>1. PICK keyed \in Keyed : path' = Entered([Opened("json", object) EXCEPT !.keyed = keyed, !.changed = TRUE])
  BY DEF EnterJson
<1> DEFINE o == Opened("json", object)
           c == [o EXCEPT !.keyed = keyed, !.changed = TRUE]
<1>2. /\ MayEnter(object) /\ path' = Entered(c) /\ counter' = counter
      /\ budget' = NodePaid /\ leaves' = leaves
  BY <1>1 DEF EnterJson
<1>3. Fresh(o, object)
  BY OpenedIsMasked DEF Fresh, Kinds
<1>4. keyed \in BOOLEAN
  BY KeyedIsBoolean
<1> HIDE DEF o
<1>5. Masked(c) /\ c.kind # "root" /\ c.of = object /\ \A b \in Markers : c.out[b] = 0
  <2>1. /\ c \in Container /\ c.kind = o.kind /\ c.of = o.of /\ c.out = o.out
        /\ c.hidden = o.hidden /\ c.changed = TRUE
    BY <1>3, <1>4 DEF Fresh, Container
  <2> HIDE DEF c
  <2> QED
    BY <1>3, <2>1 DEF Fresh, Masked
<1>6. counter' \in [Markers -> Nat] /\ \A b \in Markers : counter[b] <= counter'[b]
  BY <1>2, WalkFacts
<1> HIDE DEF c
<1> QED
  BY <1>2, <1>5, <1>6, EnteredStep

\* Only the root is not in a container.
LEMMA ParentOf ==
  ASSUME WalkInv, In.kind # "root" \/ Len(path) > 1
  PROVE  /\ Len(path) > 1 /\ Masked(path[2])
         /\ \A b \in Markers : In.out[b] \in Nat
<1>1. Walked(path) /\ In = path[1] /\ Masked(In) /\ Len(path) \in Nat /\ path # <<>>
  BY WalkFacts DEF Walked
<1>2. Len(path) >= 1
  BY <1>1, EmptySeq DEF Walked
<1>3. Len(path) > 1
  BY <1>1, <1>2 DEF Walked
<1>4. 2 \in 1 .. Len(path)
  BY <1>1, <1>3
<1>5. In.out \in [Markers \cup {"raw"} -> Nat]
  BY <1>1 DEF Masked, Container
<1> QED
  BY <1>1, <1>3, <1>4, <1>5 DEF Walked

LEMMA ContainerThrowsStep == ASSUME WalkInv, ContainerThrows PROVE WalkInv'
<1> DEFINE c == WithMarker(path[2], "failed")
<1>1. /\ In.kind # "root" /\ counter' = [counter EXCEPT !["failed"] = @ + 1] /\ LeavesTo(path', path, c)
      /\ walker' = walker /\ nodes' = nodes /\ leaves' = leaves /\ budget' = budget
  BY DEF ContainerThrows, Counted, LeavesTo
<1>2. Len(path) > 1 /\ Masked(path[2]) /\ \A b \in Markers : In.out[b] \in Nat
  BY <1>1, ParentOf
<1>3. "failed" \in Markers /\ counter \in [Markers -> Nat] /\ In = path[1] /\ Sound(path, counter)
  BY WalkFacts DEF Markers
<1>4. Masked(c) /\ Same(c, path[2]) /\ Gains(c, path[2], "failed", 1)
  BY <1>2, <1>3, MarkedIsMasked
<1>5. /\ counter' \in [Markers -> Nat]
      /\ \A b \in Markers : counter'[b] = counter[b] + (IF b = "failed" THEN 1 ELSE 0)
  BY <1>1, <1>3, CountedOne
<1> HIDE DEF c
<1>6. \A b \in Markers : \E k \in Nat :
        c.out[b] = path[2].out[b] + k /\ counter[b] + k <= counter'[b] + path[1].out[b]
  <2> SUFFICES ASSUME NEW b \in Markers
               PROVE  \E k \in Nat : /\ c.out[b] = path[2].out[b] + k
                                     /\ counter[b] + k <= counter'[b] + path[1].out[b]
    OBVIOUS
  <2> DEFINE k == IF b = "failed" THEN 1 ELSE 0
  <2>1. k \in Nat /\ c.out[b] = path[2].out[b] + k /\ counter'[b] = counter[b] + k
    BY <1>4, <1>5 DEF Gains
  <2>2. counter[b] \in Nat /\ path[1].out[b] \in Nat
    BY <1>2, <1>3
  <2> HIDE DEF k
  <2>3. counter[b] + k <= counter'[b] + path[1].out[b]
    BY <2>1, <2>2
  <2> QED
    BY <2>1, <2>3
<1>7. /\ Sound(path, counter) /\ Len(path) > 1 /\ MaxDepth \in Nat /\ LeavesTo(path', path, c)
      /\ Masked(c) /\ Same(c, path[2]) /\ counter' \in [Markers -> Nat]
  BY <1>1, <1>2, <1>3, <1>4, <1>5, LimitsAreNat
<1>8. Sound(path', counter')
  BY <1>6, <1>7, LeaveStep
<1> QED
  BY <1>1, <1>8, WalkFacts, PaymentsKeepLeaves, NewState

LEMMA LeaveIsStep == ASSUME WalkInv, Leave PROVE WalkInv'
<1> DEFINE c == Absorbed(path[2], In)
<1>1. /\ Len(path) > 1 /\ LeavesTo(path', path, c) /\ counter' = counter
      /\ walker' = walker /\ nodes' = nodes /\ leaves' = leaves /\ budget' = budget
  BY DEF Leave, LeavesTo
<1>2. Masked(path[2]) /\ \A b \in Markers : In.out[b] \in Nat
  BY <1>1, ParentOf
<1>3. counter \in [Markers -> Nat] /\ In = path[1] /\ Masked(In) /\ Sound(path, counter)
  BY WalkFacts
<1>4. Masked(c) /\ Same(c, path[2]) /\ \A b \in Markers : c.out[b] = path[2].out[b] + In.out[b]
  BY <1>2, <1>3, AbsorbedIsMasked
<1> HIDE DEF c
<1>5. \A b \in Markers : \E k \in Nat :
        c.out[b] = path[2].out[b] + k /\ counter[b] + k <= counter'[b] + path[1].out[b]
  BY <1>1, <1>2, <1>3, <1>4
<1>6. Sound(path', counter')
  BY <1>1, <1>3, <1>4, <1>5, LimitsAreNat, LeaveStep
<1> QED
  BY <1>1, <1>6, WalkFacts, PaymentsKeepLeaves, NewState

-----------------------------------------------------------------------------
(* The theorems.                                                           *)

LEMMA WalkInitInv == WalkInit => WalkInv
<1> SUFFICES ASSUME WalkInit PROVE WalkInv
  OBVIOUS
<1> DEFINE r == Root
<1>1. /\ walker \in Walkers /\ path = <<r>> /\ nodes = MaxNodes /\ leaves = MaxLeaves
      /\ budget = FreshBudget /\ counter = [b \in Markers |-> 0]
  BY DEF WalkInit
<1>2. /\ r \in Container /\ r.kind = "root" /\ r.of = "root" /\ r.hidden = 0
      /\ \A b \in Markers \cup {"raw"} : r.out[b] = 0
  BY OpenedIsMasked DEF Root, Kinds
<1> HIDE DEF r
<1>3. Len(path) = 1 /\ path[1] = r /\ path \in Seq(Container) /\ path # <<>>
  BY <1>1, <1>2
<1>4. Masked(r)
  BY <1>2 DEF Masked
<1>5. Walked(path)
  <2>1. 1 .. 1 = {1} /\ 1 <= MaxDepth + 1
    BY LimitsAreNat
  <2> QED
    BY <1>2, <1>3, <1>4, <2>1 DEF Walked
<1>6. Tallied(path, counter)
  <2>1. ASSUME NEW b \in Markers PROVE Sum(path, b, 0) /\ 0 <= counter[b] /\ 0 \in Nat
    BY <1>1, <1>2, <1>3, SumOfRoot
  <2> QED
    BY <1>1, <2>1 DEF Tallied
<1>7. LeavesPaid(leaves, budget)
  <2>1. FreshBudget \in Budget /\ FreshBudget.spent["leaves"] = 0
    BY DEF FreshBudget, Budget, Meters
  <2>2. WithinLimits(FreshBudget)
    BY LimitsAssumption DEF WithinLimits, FreshBudget
  <2> QED
    BY <1>1, <2>1, <2>2, LimitsAreNat DEF LeavesPaid, Solvent
<1> QED
  BY <1>1, <1>5, <1>6, <1>7, LimitsAreNat DEF WalkInv, Sound

LEMMA WalkNextInv == WalkInv /\ [WalkNext]_walkVars => WalkInv'
<1> SUFFICES ASSUME WalkInv, [WalkNext]_walkVars PROVE WalkInv'
  OBVIOUS
<1>1. CASE UNCHANGED walkVars
  BY <1>1 DEF walkVars, WalkInv, Sound, Walked, Tallied, LeavesPaid, Copies
<1>2. ASSUME NEW object \in Objects, NEW wanted \in 0 .. (MaxWidth + 1),
             EnterArray(object, wanted) \/ EnterObject(object, wanted) \/ EnterError(object, wanted)
      PROVE  WalkInv'
  <2>1. wanted \in Nat
    BY LimitsAreNat
  <2> QED
    BY <1>2, <2>1, EnterArrayStep, EnterObjectStep, EnterErrorStep
<1>3. CASE WalkNext
  BY <1>2, <1>3, ExceptionTextStep, CutKeysStep, ReadThrowsStep, ContainerThrowsStep, VisitRefusedStep,
     VisitStringStep, VisitScalarStep, VisitMarkerStep, LeaveIsStep, EnterJsonStep DEF WalkNext
<1> QED
  BY <1>1, <1>3

LEMMA WalkInvariant == WalkSpec => []WalkInv
  BY WalkInitInv, WalkNextInv, PTL DEF WalkSpec

\* A walk returns nothing that the core redacts or blocks, alone or under its key,
\* and nothing past a limit: not in its copy, and not in an original returned as it is.
THEOREM WalksReturnNothingRaw == WalkSpec => []NothingRawIsReturned
<1>1. WalkInv => NothingRawIsReturned
  BY WalkFacts DEF NothingRawIsReturned, Masked
<1> QED
  BY <1>1, WalkInvariant, PTL

\* A walk counts every marker it puts out, is never in an object twice nor past
\* maxDepth, and hands the core no more strings than its limit and its operation's allow.
THEOREM WalksCountWithinLimits == WalkSpec => []CountedWithinLimits
<1>1. WalkInv => DeliveredIsCounted
  <2> SUFFICES ASSUME WalkInv, NEW b \in Markers PROVE Delivered(b) <= counter[b]
    BY DEF DeliveredIsCounted
  <2>1. Walked(path) /\ Tallied(path, counter)
    BY DEF WalkInv, Sound
  <2>2. PICK n \in Nat : Sum(path, b, n) /\ n <= counter[b]
    BY <2>1 DEF Tallied
  <2> QED
    BY <2>1, <2>2, DeliveredIsSum
<1>2. WalkInv => WalkIsBounded
  <2> SUFFICES ASSUME WalkInv PROVE WalkIsBounded
    OBVIOUS
  <2>1. Walked(path) /\ nodes \in 0 .. MaxNodes /\ LeavesPaid(leaves, budget)
    BY DEF WalkInv, Sound
  <2>2. DOMAIN path = 1 .. Len(path)
    BY <2>1 DEF Walked
  <2>3. Copies => budget.spent["leaves"] <= MaxLeaves
    <3>1. leaves \in Nat /\ budget.spent["leaves"] \in Nat
      BY <2>1 DEF LeavesPaid, Solvent, Budget, Meters
    <3> QED
      BY <2>1, <3>1, LimitsAreNat DEF LeavesPaid
  <2> QED
    BY <2>1, <2>2, <2>3 DEF WalkIsBounded, Walked, LeavesPaid, Solvent
<1> QED
  BY <1>1, <1>2, WalkInvariant, PTL DEF CountedWithinLimits
==============================================================================
