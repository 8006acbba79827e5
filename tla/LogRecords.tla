------------------------------ MODULE LogRecords ------------------------------
(***************************************************************************)
(* The two adapters that redact a log record in place: the OpenTelemetry   *)
(* log record processor (JavaScript), which drops a record that does not   *)
(* take a masked write, and the logging filter (Python), which never drops *)
(* one.  A pass takes the record's units of text one by one - its fields,  *)
(* or what a formatter would make of its message and its exception - and   *)
(* writes each back.  Its counts and its budget are its own.               *)
(*                                                                         *)
(* Host code runs in the middle of a pass: what formats a message or reads *)
(* a value, the core's policy, the warning, the next processor, the        *)
(* observer; it may log another record through the same adapter.  A Python *)
(* record is filtered once per filtered handler, on any thread, and a      *)
(* handler without the filter may have formatted it before.                *)
(***************************************************************************)
EXTENDS OperationBudget, Sequences, FiniteSetsExt

CONSTANTS
  Threads,    \* the threads that log
  Records,    \* the log records
  Shapes,     \* by language, what the fields of a record may be when it is logged
  MaxPasses   \* bound: filtered handlers a Python record goes through

\* A text the core changes, one it leaves alone, one past maxStringLength, a
\* value that cannot be read or formatted, and a masked text or marker.  An
\* `opaque` value is an object without enumerable keys of its own, an Error say,
\* that shows a secret when it is formatted, or a container of one; `rebuilt` is
\* what is put in its place, and `cut` a masked value that was shortened when it
\* was stored.
Contents ==
  {"absent", "plain", "secret", "opaque", "long", "unreadable", "masked", "rebuilt", "cut"}

\* What a later formatter or exporter must not read.
Raw == {"secret", "opaque", "long", "unreadable"}

JsFields == {"body", "severityText", "eventName", "attribute"}

\* `args` is "plain" or "secret" while a formatter would still merge them into
\* msg; exc_info is the text of the exception, if there is one.
PyFields == {"msg", "args", "exc_info", "exc_text", "stack_info", "extra"}

Languages == {"JavaScript", "Python"}

ASSUME LogAssumption ==
  /\ MaxPasses \in Nat
  /\ Shapes["JavaScript"] \subseteq [JsFields -> Contents]
  /\ Shapes["Python"] \subseteq [PyFields -> Contents]

VARIABLES
  language,   \* which of the adapters this is
  readOnly,   \* the records that may not take a write
  record,     \* the fields of each record
  calls,      \* onEmit or filter in progress on each thread, innermost first
  passes,     \* how many passes of a record have ended
  loud,       \* how many of them did not run inside an observer
  passedOn,   \* the records given to the next processor or formatter
  reporting,  \* an observer runs on the thread
  warned,     \* the processor has warned about a dropped record
  outcomes    \* what the observer was told of each record

logVars == <<language, readOnly, record, calls, passes, loud, passedOn, reporting, warned, outcomes>>

\* countLeaf and the markers: what a unit became.
Becomings == {"unchanged", "redacted", "limited", "failed"}

NoCounts == [b \in Becomings |-> 0]

Places == {"redacting", "scanning", "warning", "forwarding", "dropped", "reporting"}

-----------------------------------------------------------------------------
(* The units of a record.                                                  *)

\* What getMessage makes of msg and args.
Message(rec) ==
  IF rec.args = "absent" THEN rec.msg
  ELSE IF "unreadable" \in {rec.msg, rec.args} THEN "unreadable"
  ELSE IF "long" \in {rec.msg, rec.args} THEN "long"
  ELSE IF {"secret", "opaque"} \cap {rec.msg, rec.args} # {} THEN "secret" ELSE "plain"

\* The exception is formatted anew, whatever was cached; without one a cached
\* text still renders.
Exception(rec) == IF rec.exc_info # "absent" THEN rec.exc_info ELSE rec.exc_text

\* In the order redactRecord and filter take them.
Units ==
  IF language = "JavaScript"
  THEN <<"body", "severityText", "eventName", "attribute">>
  ELSE <<"message", "exception", "stack_info", "extra">>

Text(rec, unit) ==
  CASE unit = "message" -> Message(rec)
    [] unit = "exception" -> Exception(rec)
    [] OTHER -> rec[unit]

\* The units a record has, by their place in that order.
UnitsIn(rec) == {i \in DOMAIN Units : Text(rec, Units[i]) # "absent"}

\* A masked unit replaces every field it was made of.
Written(rec, unit, text) ==
  CASE unit = "message" -> [rec EXCEPT !.msg = text, !.args = "absent"]
    [] unit = "exception" -> [rec EXCEPT !.exc_text = text, !.exc_info = "absent"]
    [] OTHER -> [rec EXCEPT ![unit] = text]

-----------------------------------------------------------------------------
(* The budget of one pass.  The JavaScript one is RecordMasker's own nodes  *)
(* and leaves, and a refusal there refuses nothing else.                    *)

\* The charges before a text is scanned.  A cached exception is a text like any
\* other.
Toll(rec, unit, text) ==
  LET cached == unit = "exception" /\ rec.exc_info = "absent"
      node == IF text = "unreadable" THEN unit \in {"body", "attribute", "extra"}
              ELSE unit \notin {"severityText", "eventName", "exception"} \/ cached
  IN  (IF node THEN {"nodes"} ELSE {}) \cup (IF text = "unreadable" THEN {} ELSE {"leaves"})

\* And that of the scan itself, which only the Python budget has.
ScanToll(text) == IF language = "Python" /\ text \notin {"long", "unreadable"} THEN {"scans"} ELSE {}

\* A payment is the budget after it, and whether it was refused.
Paid(payment, meter) ==
  LET b == payment.budget
  IN  IF payment.refused THEN payment
      ELSE IF Fits(b, meter, 1) THEN [payment EXCEPT !.budget = Charged(b, meter, 1)]
      ELSE [budget |-> IF language = "Python" THEN Refused(b) ELSE b, refused |-> TRUE]

\* The charges of a text, in order, up to the first that is refused.
Payment(rec, unit, text, b) ==
  LET Due(payment, meter) ==
        IF meter \in Toll(rec, unit, text) \cup ScanToll(text) THEN Paid(payment, meter) ELSE payment
  IN  Due(Due(Due([budget |-> b, refused |-> FALSE], "nodes"), "leaves"), "scans")

-----------------------------------------------------------------------------
(* The calls of a thread.                                                  *)

Idle(t) == calls[t] = <<>>

At(t, place) == ~Idle(t) /\ Head(calls[t]).at = place

GoTo(t, place) == calls' = [calls EXCEPT ![t][1].at = place]

\* Host code runs between calls, and inside one wherever it is read, scanned,
\* warned about, forwarded or observed.
HostRuns(t) ==
  /\ At(t, "redacting") => Head(calls[t]).todo # {}
  /\ ~At(t, "dropped")
  /\ language = "JavaScript" => \A other \in Threads \ {t} : Idle(other)

InProgress(r) == \E t \in Threads : \E i \in DOMAIN calls[t] : calls[t][i].record = r

\* BUG: the budget is the adapter's, and a record pays for the one before it.
BudgetFor_shared(t) == IF Idle(t) THEN FreshBudget ELSE Head(calls[t]).budget

\* RecordMasker, OperationBudget: a fresh one per pass.
BudgetFor(t) == FreshBudget

\* onEmit and filter are called.  `before` is the record as it was, `observed`
\* whether the call is made by an observer of its own thread.
Begin(t, r) ==
  /\ HostRuns(t) /\ ~InProgress(r)
  /\ passes[r] < (IF language = "Python" THEN MaxPasses ELSE 1)
  /\ calls' = [calls EXCEPT ![t] =
       <<[record |-> r, before |-> record[r], todo |-> UnitsIn(record[r]), at |-> "redacting",
          counts |-> NoCounts, budget |-> BudgetFor(t),
          observed |-> \E i \in DOMAIN calls[t] : calls[t][i].at = "reporting"]>> \o calls[t]]
  /\ UNCHANGED <<language, readOnly, record, passes, loud, passedOn, reporting, warned, outcomes>>

\* What a text is replaced with: a text, or for an object one that is built anew.
Masks(text) == IF text = "opaque" THEN {"masked", "rebuilt"} ELSE {"masked"}

\* BUG: whatever is read back, the write is taken for done.
Reflects_anything(unit, wanted, actual) == TRUE

\* A write took if what is read back is what was written, or in a body or an
\* attribute, what shortening makes of it.  Of an object it is asked that every
\* key it has is there and no more, which one without keys answers.
Reflects(unit, wanted, actual) ==
  \/ actual = wanted
  \/ unit \in {"body", "attribute"} /\ (actual = "cut" \/ (wanted = "rebuilt" /\ actual = "opaque"))

\* What is there after a write.  A Python attribute takes what is assigned to it.
\* The record of the SDK may shorten it, and one that is read-only, or whose
\* attribute bag is frozen, may leave what was there.
Stored(r, text, mask) ==
  IF language = "Python" \/ mask = text THEN {mask}
  ELSE {mask, "cut"} \cup (IF r \in readOnly THEN {text} ELSE {})

\* A write that left what was there may have thrown, and then nothing is read back.
Tells(unit, text, mask, stored) ==
  {Reflects(unit, mask, stored)} \cup (IF stored = text /\ mask # text THEN {FALSE} ELSE {})

\* The unit in progress became `what`: it is counted, written, and read back.  A
\* record that did not take the write is dropped, warned about the first time.
Became(t, what, spent) ==
  LET call == Head(calls[t])
      rec == record[call.record]
      unit == Units[Min(call.todo)]
      text == Text(rec, unit)
  IN  \E mask \in IF what = "unchanged" THEN {text} ELSE Masks(text) :
      \E stored \in Stored(call.record, text, mask) :
      \E took \in Tells(unit, text, mask, stored) :
        /\ record' = [record EXCEPT ![call.record] = Written(rec, unit, stored)]
        /\ warned' = (warned \/ ~took)
        /\ calls' = [calls EXCEPT ![t][1] =
             [call EXCEPT !.counts[what] = @ + 1, !.budget = spent, !.todo = @ \ {Min(@)},
                          !.at = IF took THEN "redacting" ELSE IF warned THEN "dropped" ELSE "warning"]]

\* The next unit is read and paid for: it is a marker at once, or the core's.
Take(t) ==
  /\ At(t, "redacting") /\ Head(calls[t]).todo # {}
  /\ LET call == Head(calls[t])
         unit == Units[Min(call.todo)]
         text == Text(record[call.record], unit)
         paid == Payment(record[call.record], unit, text, call.budget)
     IN  IF paid.refused \/ text = "long" THEN Became(t, "limited", paid.budget)
         ELSE IF text = "unreadable" THEN Became(t, "failed", paid.budget)
         ELSE /\ calls' = [calls EXCEPT ![t][1] = [call EXCEPT !.at = "scanning", !.budget = paid.budget]]
              /\ UNCHANGED <<record, warned>>
  /\ UNCHANGED <<language, readOnly, passes, loud, passedOn, reporting, outcomes>>

\* The core answers or fails.  Python charges what it found.
CoreAnswers(t) ==
  /\ At(t, "scanning")
  /\ LET call == Head(calls[t])
         secret == Text(record[call.record], Units[Min(call.todo)]) \in {"secret", "opaque"}
         charges == secret /\ language = "Python"
         spent == IF charges THEN Charged(call.budget, "findings", 1) ELSE call.budget
     IN  \/ Became(t, "failed", call.budget)
         \/ Became(t, IF ~secret THEN "unchanged"
                      ELSE IF charges /\ spent.exhausted THEN "limited" ELSE "redacted", spent)
  /\ UNCHANGED <<language, readOnly, passes, loud, passedOn, reporting, outcomes>>

\* emitWarning or console.warn has returned, or thrown, which is swallowed.
Warned(t) ==
  /\ At(t, "warning")
  /\ GoTo(t, "dropped")
  /\ UNCHANGED <<language, readOnly, record, passes, loud, passedOn, reporting, warned, outcomes>>

\* Every unit is written: the next processor is given the record.
Forward(t) ==
  /\ language = "JavaScript" /\ At(t, "redacting") /\ Head(calls[t]).todo = {}
  /\ GoTo(t, "forwarding")
  /\ passedOn' = passedOn \cup {Head(calls[t]).record}
  /\ UNCHANGED <<language, readOnly, record, passes, loud, reporting, warned, outcomes>>

\* The call returns; filter lets the handler format the record.
Return(t) ==
  LET call == Head(calls[t])
  IN  /\ calls' = [calls EXCEPT ![t] = Tail(@)]
      /\ passes' = [passes EXCEPT ![call.record] = @ + 1]
      /\ loud' = IF call.observed THEN loud ELSE [loud EXCEPT ![call.record] = @ + 1]
      /\ passedOn' = IF language = "Python" THEN passedOn \cup {call.record} ELSE passedOn

\* BUG: the flag is not looked at, and an observer that logs is observed.
MayReport_always(t) == TRUE

MayReport(t) == ~reporting[t]

\* The record is forwarded or dropped, or filtered: the observer is told, unless
\* one runs on the thread already.
Report(t) ==
  /\ \/ At(t, "forwarding") \/ At(t, "dropped")
     \/ language = "Python" /\ At(t, "redacting") /\ Head(calls[t]).todo = {}
  /\ LET call == Head(calls[t])
     IN  IF MayReport(t)
         THEN /\ GoTo(t, "reporting")
              /\ reporting' = [reporting EXCEPT ![t] = TRUE]
              /\ outcomes' = [outcomes EXCEPT ![call.record] =
                   Append(@, [values |-> call.counts, before |-> call.before, dropped |-> call.at = "dropped"])]
              /\ UNCHANGED <<passes, loud, passedOn>>
         ELSE Return(t) /\ UNCHANGED <<reporting, outcomes>>
  /\ UNCHANGED <<language, readOnly, record, warned>>

\* The observer has returned, or thrown, which is swallowed.
Notified(t) ==
  /\ At(t, "reporting")
  /\ reporting' = [reporting EXCEPT ![t] = FALSE]
  /\ Return(t)
  /\ UNCHANGED <<language, readOnly, record, warned, outcomes>>

\* External: a handler without the filter formats the record, and caches what it
\* made of the exception.
FormatUnfiltered(r) ==
  /\ language = "Python" /\ ~InProgress(r)
  /\ record[r].exc_text = "absent" /\ record[r].exc_info \in {"plain", "secret"}
  /\ record' = [record EXCEPT ![r].exc_text = record[r].exc_info]
  /\ UNCHANGED <<language, readOnly, calls, passes, loud, passedOn, reporting, warned, outcomes>>

-----------------------------------------------------------------------------
LogInit ==
  /\ language \in Languages
  /\ readOnly \in IF language = "JavaScript" THEN SUBSET Records ELSE {{}}
  /\ record \in [Records -> Shapes[language]]
  /\ calls = [t \in Threads |-> <<>>]
  /\ passes = [r \in Records |-> 0]
  /\ loud = [r \in Records |-> 0]
  /\ passedOn = {}
  /\ reporting = [t \in Threads |-> FALSE]
  /\ warned = FALSE
  /\ outcomes = [r \in Records |-> <<>>]

LogNext ==
  \/ \E t \in Threads :
       \/ \E r \in Records : Begin(t, r)
       \/ Take(t) \/ CoreAnswers(t) \/ Warned(t) \/ Forward(t) \/ Report(t) \/ Notified(t)
  \/ \E r \in Records : FormatUnfiltered(r)

LogSpec == LogInit /\ [][LogNext]_logVars

-----------------------------------------------------------------------------
(* Properties.                                                             *)

\* A read-only record kept an object without enumerable keys in its body, or in an
\* attribute, and the read-back took it for the one written.
SeemsTaken(r, f) ==
  r \in readOnly /\ f \in {"body", "attribute"} /\ record[r][f] = "opaque"

\* A record handed on holds no text that was not masked, in any field a later
\* formatter or exporter reads, whichever writes did not take, whoever formatted
\* it before and however often it is filtered, but for what SeemsTaken: redactRecord
\* and filter.
NothingRawIsPassedOn ==
  \A r \in passedOn : \A f \in DOMAIN record[r] : record[r][f] \notin Raw \/ SeemsTaken(r, f)

\* The units a record held that would have gone out raw.
RawIn(rec) == {i \in UnitsIn(rec) : Text(rec, Units[i]) \in Raw}

Replaced(values) == values["redacted"] + values["limited"] + values["failed"]

\* What is reported of a record are its own units, each counted once, however
\* records nest and threads interleave: nothing raw is reported as unchanged, and
\* a limit is reported only of a record that is too big by itself.
CountsAreTheRecords ==
  \A r \in Records : \A i \in DOMAIN outcomes[r] :
    LET o == outcomes[r][i]
        units == Cardinality(UnitsIn(o.before))
    IN  /\ ~o.dropped => /\ Replaced(o.values) + o.values["unchanged"] = units
                         /\ Replaced(o.values) >= Cardinality(RawIn(o.before))
        /\ o.values["limited"] > 0 =>
             \/ \E j \in UnitsIn(o.before) : Text(o.before, Units[j]) = "long"
             \/ \E m \in {"nodes", "leaves", "scans", "findings"} : units > Limits[m]

\* Each pass is reported exactly once, forwarded, dropped or filtered, but for
\* one that an observer of the same thread makes; an observer of another thread
\* silences nobody.
EachPassIsReported ==
  \A r \in Records :
    Len(outcomes[r]) = loud[r] + IF \E t \in Threads : \E i \in DOMAIN calls[t] :
                                      calls[t][i].record = r /\ calls[t][i].at = "reporting" THEN 1 ELSE 0
==============================================================================
