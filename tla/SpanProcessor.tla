---------------------------- MODULE SpanProcessor ----------------------------
(***************************************************************************)
(* RedactingSpanProcessorWith, in JavaScript and in Python.  A span is     *)
(* masked in place when it ends and handed to the next processor, or       *)
(* dropped if a masked text does not stick.  The masker is one closure for *)
(* all spans: it reads, anew for every text, the counter and the budget    *)
(* the processor holds at that moment.  Host code runs inside onEnd - the  *)
(* core's policy, the next processor, the observer - and may end another   *)
(* span there; in Python other threads end spans meanwhile, each with a    *)
(* counter, a budget and a reporting flag of its own, but one flag `_warned`. *)
(* JavaScript is the case of one thread whose warning never raises.        *)
(***************************************************************************)
EXTENDS OperationBudget, Sequences

CONSTANTS
  Threads,        \* the threads that end spans
  Spans,          \* the spans they end
  Nobody,         \* no span: what the processor holds between two calls
  WarningsRaise,  \* Python's warning filter is "error"
  Bodies          \* what a span may hold: how many texts of each kind

\* A text the core changes, or one it leaves alone.
Kinds == {"secret", "plain"}

ASSUME SpanAssumption ==
  /\ Nobody \notin Spans
  /\ WarningsRaise \in BOOLEAN
  /\ Bodies \subseteq [Kinds -> Nat]

VARIABLES
  call,       \* the onEnd call of each span, or its absence
  top,        \* the span whose onEnd is innermost on each thread
  held,       \* whose counter and whose budget each thread's processor state is
  counter,    \* the OutcomeCounter made for each span
  budget,     \* the OperationBudget made for each span
  texts,      \* the texts of each span still to be masked, by kind
  quiet,      \* the spans that ended inside an observer
  exported,   \* the spans the next processor was given
  reporting,  \* an observer runs on the thread
  outcomes,   \* what onOutcome was called with, in order
  warned,     \* the processor has warned about a dropped span
  became      \* what became of each span's own texts

spanVars == <<call, top, held, counter, budget, texts, quiet, exported, reporting,
              outcomes, warned, became>>

\* countLeaf: what a text became.  `replaced` stands for redacted, blocked and
\* failed, which all write another text.
Becomings == {"unchanged", "replaced", "limited"}

Counts == [Becomings -> Nat]

NoCounts == [b \in Becomings |-> 0]

\* #counter and #budget, by the span they were made for.
Holder == [counter : Spans \cup {Nobody}, budget : Spans \cup {Nobody}]

Outside == [counter |-> Nobody, budget |-> Nobody]

\* A span is open until it ends.  redactSpan walks its texts, and waits in the
\* core for one of them; a text that did not stick is warned about; the next
\* processor runs; the observer runs; onEnd is over.
Places == {"open", "walking", "scanning", "unwritable", "warning", "forwarding", "dropped", "reporting", "over"}

\* `caller` is the span whose onEnd was innermost before, `text` the kind of the
\* text in progress and `leaf` what the masker read for it; `outer` is what the
\* processor held before, and `values` the snapshot of the counts.
Call ==
  [at : Places, caller : Spans \cup {Nobody}, text : Kinds, leaf : Holder, outer : Holder, values : Counts]

NoCall ==
  [at |-> "open", caller |-> Nobody, text |-> "plain", leaf |-> Outside, outer |-> Outside, values |-> NoCounts]

Outcome == [span : Spans, values : Counts, dropped : BOOLEAN]

-----------------------------------------------------------------------------
(* The processor's state of one thread.                                    *)

Busy(t) == top[t] # Nobody

At(t, place) == Busy(t) /\ call[top[t]].at = place

\* The innermost call goes to another place.
GoTo(t, place) == call' = [call EXCEPT ![top[t]].at = place]

\* The innermost call returns.
Return(t) == GoTo(t, "over") /\ top' = [top EXCEPT ![t] = call[top[t]].caller]

\* A fresh counter and a fresh budget for each span.
Fresh(t, s) == [counter |-> s, budget |-> s]

\* BUG: nothing is restored.
Restored_nothing(t) == held[t]

\* The finally: what was held before onEnd is held again.
Restored(t) == call[top[t]].outer

\* Host code runs: between calls, in the core's policy, in the next processor
\* and in the observer.
HostRuns(t) == Busy(t) => call[top[t]].at \in {"scanning", "forwarding", "reporting"}

-----------------------------------------------------------------------------
(* onEnd.                                                                  *)

\* A span ends: it may not end twice.
OnEnd(t, s) ==
  /\ HostRuns(t) /\ call[s].at = "open"
  /\ quiet' = IF reporting[t] THEN quiet \cup {s} ELSE quiet
  /\ held' = [held EXCEPT ![t] = Fresh(t, s)]
  /\ call' = [call EXCEPT ![s] = [NoCall EXCEPT !.at = "walking", !.caller = top[t], !.outer = held[t]]]
  /\ top' = [top EXCEPT ![t] = s]
  /\ UNCHANGED <<counter, budget, texts, exported, reporting, outcomes, warned, became>>

HasText(s, kind) == texts[s][kind] > 0

\* A text has become `what`: it is counted on the counter the masker read, and
\* written back unless nothing changed.  A write that does not stick - the field
\* is frozen, or has moved - is found by reading it back.
Masked(t, kind, what, leaf) ==
  LET s == top[t]
  IN  /\ counter' = [counter EXCEPT ![leaf.counter][what] = @ + 1]
      /\ became' = [became EXCEPT ![s][what] = @ + 1]
      /\ \/ texts' = [texts EXCEPT ![s][kind] = @ - 1] /\ GoTo(t, "walking")
         \/ what # "unchanged" /\ GoTo(t, "unwritable") /\ UNCHANGED texts

\* The charges before a text is scanned: its node, its leaf, and the scan.
Walked(b) == Charged(Charged(b, "nodes", 1), "leaves", 1)

\* The masker is given the next text: past the budget, or longer than
\* maxStringLength, it is a marker at once; otherwise it is handed to the core.
MaskText(t, kind) ==
  /\ At(t, "walking") /\ HasText(top[t], kind)
  /\ LET leaf == held[t]
         walked == Walked(budget[leaf.budget])
     IN  \E tooLong \in BOOLEAN :
           LET spent == IF tooLong THEN walked ELSE ChargedScan(walked, 0)
           IN  /\ budget' = [budget EXCEPT ![leaf.budget] = spent]
               /\ IF tooLong \/ spent.exhausted
                  THEN Masked(t, kind, "limited", leaf)
                  ELSE /\ call' = [call EXCEPT ![top[t]].at = "scanning", ![top[t]].text = kind,
                                               ![top[t]].leaf = leaf]
                       /\ UNCHANGED <<counter, became, texts>>
  /\ UNCHANGED <<top, held, quiet, exported, reporting, outcomes, warned>>

\* What the core makes of a text: a secret is always replaced, a plain text is
\* left alone unless the core fails, whatever findings merely warn about it.
Scanned(kind) == IF kind = "secret" THEN {"replaced"} ELSE {"replaced", "unchanged"}

\* The counter and the budget the masker read before it called the core.
Read(t) == call[top[t]].leaf

\* The core answers, and its findings are charged.
CoreAnswers(t) ==
  /\ At(t, "scanning")
  /\ LET leaf == Read(t)
     IN  \E findings \in {0, 1} :
           LET spent == Charged(budget[leaf.budget], "findings", findings)
           IN  /\ budget' = [budget EXCEPT ![leaf.budget] = spent]
               /\ \E what \in IF spent.exhausted THEN {"limited"} ELSE Scanned(call[top[t]].text) :
                    Masked(t, call[top[t]].text, what, leaf)
  /\ UNCHANGED <<top, held, quiet, exported, reporting, outcomes, warned>>

\* Reading the span throws: its shape is not what the processor expects.
UnexpectedShape(t) ==
  /\ At(t, "walking")
  /\ GoTo(t, "unwritable")
  /\ UNCHANGED <<top, held, counter, budget, texts, quiet, exported, reporting, outcomes, warned, became>>

\* The counts are snapshotted and what was held before is restored.
Leave(t, place) ==
  /\ call' = [call EXCEPT ![top[t]].at = place, ![top[t]].values = counter[held[t].counter]]
  /\ held' = [held EXCEPT ![t] = Restored(t)]

\* The span will not be exported; the first time, that is warned about.
LookWarned(t) ==
  /\ At(t, "unwritable")
  /\ IF warned
     THEN Leave(t, "dropped")
     ELSE GoTo(t, "warning") /\ UNCHANGED held
  /\ UNCHANGED <<top, counter, budget, texts, quiet, exported, reporting, outcomes, warned, became>>

\* Python's warnings.warn raises under the "error" filter: it leaves on_end
\* through the finally that restores, and past the report.
Warn(t) ==
  /\ At(t, "warning")
  /\ warned' = TRUE
  /\ \/ Leave(t, "dropped") /\ UNCHANGED top
     \/ /\ WarningsRaise
        /\ Return(t)
        /\ held' = [held EXCEPT ![t] = Restored(t)]
  /\ UNCHANGED <<counter, budget, texts, quiet, exported, reporting, outcomes, became>>

\* BUG: a span that did not take a write is exported all the same.
Exports_anyway(t) ==
  At(t, "unwritable") \/ (At(t, "walking") /\ \A kind \in Kinds : ~HasText(top[t], kind))

\* A span is exported once redactSpan has gone through all of its texts.
Exports(t) == At(t, "walking") /\ \A kind \in Kinds : ~HasText(top[t], kind)

\* Every text is masked: the next processor is given the span.
Forward(t) ==
  /\ Exports(t)
  /\ Leave(t, "forwarding")
  /\ exported' = exported \cup {top[t]}
  /\ UNCHANGED <<top, counter, budget, texts, quiet, reporting, outcomes, warned, became>>

\* BUG: an observer may be told of a span its own work ended.
MayReport_always(t) == TRUE

MayReport(t) == ~reporting[t]

\* The next processor has returned or thrown, or the span was dropped: the
\* observer is told, unless the thread is already in one.
Report(t) ==
  /\ At(t, "forwarding") \/ At(t, "dropped")
  /\ IF MayReport(t)
     THEN /\ reporting' = [reporting EXCEPT ![t] = TRUE]
          /\ outcomes' = Append(outcomes, [span |-> top[t], values |-> call[top[t]].values,
                                           dropped |-> At(t, "dropped")])
          /\ GoTo(t, "reporting") /\ UNCHANGED top
     ELSE Return(t) /\ UNCHANGED <<reporting, outcomes>>
  /\ UNCHANGED <<held, counter, budget, texts, quiet, exported, warned, became>>

\* The observer has returned, or thrown, which is swallowed.
Notified(t) ==
  /\ At(t, "reporting")
  /\ reporting' = [reporting EXCEPT ![t] = FALSE]
  /\ Return(t)
  /\ UNCHANGED <<held, counter, budget, texts, quiet, exported, outcomes, warned, became>>

-----------------------------------------------------------------------------
SpanInit ==
  /\ call = [s \in Spans |-> NoCall]
  /\ top = [t \in Threads |-> Nobody]
  /\ held = [t \in Threads |-> Outside]
  /\ counter = [s \in Spans |-> NoCounts]
  /\ budget = [s \in Spans |-> FreshBudget]
  /\ texts \in [Spans -> Bodies]
  /\ quiet = {} /\ exported = {}
  /\ reporting = [t \in Threads |-> FALSE]
  /\ outcomes = <<>>
  /\ warned = FALSE
  /\ became = [s \in Spans |-> NoCounts]

SpanNext ==
  \E t \in Threads :
    \/ \E s \in Spans : OnEnd(t, s)
    \/ \E kind \in Kinds : MaskText(t, kind)
    \/ CoreAnswers(t) \/ UnexpectedShape(t) \/ LookWarned(t) \/ Warn(t)
    \/ Forward(t) \/ Report(t) \/ Notified(t)

SpanSpec == SpanInit /\ [][SpanNext]_spanVars

-----------------------------------------------------------------------------
(* Properties.                                                             *)

\* Every variable stays in its type; a span has no fewer texts than none.
SpanTypeOK ==
  /\ call \in [Spans -> Call]
  /\ top \in [Threads -> Spans \cup {Nobody}]
  /\ held \in [Threads -> Holder]
  /\ counter \in [Spans -> Counts]
  /\ budget \in [Spans -> Budget]
  /\ texts \in [Spans -> [Kinds -> Nat]]
  /\ quiet \in SUBSET Spans /\ exported \in SUBSET Spans
  /\ reporting \in [Threads -> BOOLEAN]
  /\ outcomes \in Seq(Outcome)
  /\ warned \in BOOLEAN
  /\ became \in [Spans -> Counts]

\* No span reaches the next processor with a text that was not masked, whatever
\* else ended while it was masked and whichever of its writes did not stick.
ExportedIsMasked == \A s \in exported : texts[s]["secret"] = 0

\* What is counted for a span, and reported of it, is what became of its own
\* texts, whoever ended a span in the middle.
CountsAreTheSpans ==
  /\ counter = became
  /\ \A i \in DOMAIN outcomes : outcomes[i].values = became[outcomes[i].span]

\* The texts of a span whose masking has begun.
Begun(s) ==
  became[s]["unchanged"] + became[s]["replaced"] + became[s]["limited"]
  + (IF call[s].at = "scanning" THEN 1 ELSE 0)

\* A span pays for its own texts and for no other's: one that ends in the middle
\* of another does not spend that one's budget, and none is exhausted before one
\* of its own texts was refused.
PaysForItsOwn ==
  \A s \in Spans :
    /\ budget[s].spent["leaves"] <= Begun(s)
    /\ budget[s].exhausted => became[s]["limited"] > 0

\* Each span whose onEnd is over was reported exactly once, forwarded or dropped,
\* and as what it was; one that ended inside an observer was not reported.
ReportsOf(s) == {i \in DOMAIN outcomes : outcomes[i].span = s}

OneOutcomePerSpan ==
  \A s \in Spans :
    call[s].at = "over" =>
      IF s \in quiet THEN ReportsOf(s) = {}
      ELSE \E i \in DOMAIN outcomes :
             ReportsOf(s) = {i} /\ (outcomes[i].dropped <=> s \notin exported)

\* A span ends as if it were the only one: with its own budget and one report.
EndsAsIfAlone == PaysForItsOwn /\ OneOutcomePerSpan

\* redactSpan is running for the span.
Redacting(s) == call[s].at \in {"walking", "scanning", "unwritable", "warning"}

\* What the processor holds while the onEnd of s is innermost.
HeldIn(s) == IF s = Nobody THEN Outside ELSE IF Redacting(s) THEN [counter |-> s, budget |-> s] ELSE call[s].outer

\* The counter and the budget follow the calls: a span being masked finds its
\* own, whoever ended a span in the middle, and a call leaves what it found.
HeldFollowsCalls ==
  /\ \A t \in Threads : held[t] = HeldIn(top[t])
  /\ \A s \in Spans : call[s].at \notin {"open", "over"} => call[s].outer = HeldIn(call[s].caller)
==============================================================================
