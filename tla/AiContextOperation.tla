-------------------------- MODULE AiContextOperation --------------------------
(***************************************************************************)
(* One host operation of the AI-context boundary: sanitizeText,            *)
(* sanitizeValue or buildContext.  An operation owns one aggregate budget  *)
(* and one memo of scans, which all of its parts share; it polls the       *)
(* caller's signal around every part, and delivers every part or nothing.  *)
(* A value is read in document order, one key or node at a time, and what  *)
(* reading it gives next is the host's choice: the value may be full of    *)
(* getters.  Host code also runs in the core's policy and in onFinding; it *)
(* can cancel in each, and what the signal says is only seen by a poll.    *)
(*                                                                         *)
(* The core is a pure function of the text it is given: `known` is what it *)
(* has answered so far.  A string is given to it alone, <<text>>, or in    *)
(* its key-context view, <<key, text>>.  A result reports no finding or    *)
(* one, and stands for the most severe action in it.                       *)
(***************************************************************************)
EXTENDS OperationBudget, Sequences, FiniteSets

CONSTANTS
  Texts,      \* the strings of a value, its leaves and its keys
  LongTexts,  \* those past MAX_MEMOIZED_LENGTH
  NoKey,      \* the key of a root, and of an element of an array
  MaxMemo,    \* MAX_MEMO_ENTRIES
  MaxDepth,   \* traversalLimits
  MaxNodes

ASSUME OperationAssumption ==
  /\ LongTexts \subseteq Texts /\ NoKey \notin Texts
  /\ MaxMemo \in Nat /\ MaxDepth \in Nat /\ MaxNodes \in Nat

VARIABLES
  op,       \* the operation: its closure, and the walk it is in
  known,    \* the core's answer to each input it was ever given
  called,   \* how often this operation gave the core each input
  emitted,  \* the occurrences handed to onFinding, in order
  aborted,  \* what the signal says when polled
  outcome   \* what the operation returned

operationVars == <<op, known, called, emitted, aborted, outcome>>

CoreFailures == {"limit_exceeded", "lifecycle", "core_error"}

Outcomes == {"none", "ok", "aborted", "policy", "unsupported_value"} \cup CoreFailures

Verdicts == {"clean", "warn", "redact", "block"}

\* The finding of a view lies in the leaf, or `outside` of it and redacts or
\* blocks there.
ViewVerdicts == Verdicts \cup {"outside"}

Inputs == {<<t>> : t \in Texts} \cup {<<k, t>> : k, t \in Texts}

Keys == Texts \cup {NoKey}

\* Where a finding lies: in the nth leaf or the nth key of a part, or in the
\* whole text of one.
Occurrence == [part : Nat, scope : {"text", "leaf", "key"}, ordinal : Nat]

\* A leaf ready to be delivered: `visit` is its place among the leaves charged.
Leaf == [visit : Nat, at : Occurrence, text : Texts, key : Keys, verdict : Verdicts]

\* A container the walk is in: an array, or an object with the keys read so far.
Container == [isArray : BOOLEAN, keys : SUBSET Texts]

Places ==
  {"idle",      \* no operation
   "parts",     \* before a part of buildContext
   "walking",   \* in walkStrict, before a node, a key or the end of a container
   "leaf",      \* before a string leaf, or a whole text, is scanned
   "view",      \* before the same leaf is scanned in its view
   "key",       \* before a key is scanned
   "part end"}  \* the part is read: its last poll

Operation ==
  [kind : {"text", "value", "context"}, at : Places, part : Nat, isText : BOOLEAN,
   budget : Budget, memo : UNION {[D -> ViewVerdicts] : D \in SUBSET Inputs},
   nodes : Nat, open : Seq(Container), key : Keys,
   text : Keys, alone : Verdicts, leaves : Nat, keys : Nat,
   findings : Seq(Occurrence), staged : Seq(Leaf)]

Outcome == [is : Outcomes, findings : Seq(Occurrence), leaves : Seq(Leaf)]

EmptyMemo == [i \in {} |-> "clean"]

\* newOperation
NewOperation(kind) ==
  [kind |-> kind, at |-> "idle", part |-> 0, isText |-> FALSE,
   budget |-> FreshBudget, memo |-> EmptyMemo,
   nodes |-> 0, open |-> <<>>, key |-> NoKey, text |-> NoKey, alone |-> "clean",
   leaves |-> 0, keys |-> 0, findings |-> <<>>, staged |-> <<>>]

-----------------------------------------------------------------------------
(* The end of an operation.                                                *)

\* The operation returns.  Only ok carries anything out of it.
Refuse(reason) ==
  /\ outcome' = [is |-> reason, findings |-> <<>>, leaves |-> <<>>]
  /\ op' = NewOperation("text")

Deliver ==
  /\ outcome' = [is |-> "ok", findings |-> op.findings, leaves |-> op.staged]
  /\ op' = NewOperation("text")

\* BUG: what was staged is returned without a last look at the signal.
Cancelled_never == FALSE

\* isAborted
Cancelled == aborted

-----------------------------------------------------------------------------
(* scanText.                                                               *)

\* UTF-8 bytes: a text is one byte, and a view has seven more around two.
Bytes(input) == IF Len(input) = 1 THEN 1 ELSE 9

\* A view of short texts is short.
Short(input) == \A i \in DOMAIN input : input[i] \notin LongTexts

\* sanitizeText has no memo.
Remembered(input) == input \in DOMAIN op.memo

MayRemember(input) ==
  op.kind # "text" /\ Short(input) /\ Cardinality(DOMAIN op.memo) < MaxMemo

MayScan(input) == ~Remembered(input) /\ FitsScan(op.budget, Bytes(input))

\* The memo's answer, or the core's.
AnswersTo(input) ==
  IF Remembered(input) THEN {op.memo[input]}
  ELSE IF ~MayScan(input) THEN {}
  ELSE IF input \in DOMAIN known THEN {known[input]}
  ELSE IF Len(input) = 1 THEN Verdicts ELSE ViewVerdicts

Set(f, x, y) == [z \in DOMAIN f \cup {x} |-> IF z = x THEN y ELSE f[z]]

\* The operation after a scan that was answered `v`.
AfterScan(input, v) ==
  IF Remembered(input) THEN op
  ELSE [op EXCEPT !.budget = ChargedScan(@, Bytes(input)),
                  !.memo = IF MayRemember(input) THEN Set(@, input, v) ELSE @]

CoreSees(input, v) ==
  IF Remembered(input) THEN UNCHANGED <<known, called>>
  ELSE /\ known' = Set(known, input, v)
       /\ called' = [called EXCEPT ![input] = @ + 1]

ToScan == IF op.at = "view" THEN <<op.key, op.text>> ELSE <<op.text>>

\* The budget has no room for the scan: the core is not called.
ScanRefused ==
  /\ op.at \in {"leaf", "view", "key"}
  /\ ~Remembered(ToScan) /\ ~MayScan(ToScan)
  /\ Refuse("limit_exceeded")
  /\ UNCHANGED <<known, called, emitted, aborted>>

\* The core throws, or what it returns is no result, or no result for a view: a
\* view rewritten outside of the leaf.
CoreFails ==
  /\ op.at \in {"leaf", "view", "key"}
  /\ MayScan(ToScan)
  /\ called' = [called EXCEPT ![ToScan] = @ + 1]
  /\ \E reason \in CoreFailures : Refuse(reason)
  /\ UNCHANGED <<known, emitted, aborted>>

-----------------------------------------------------------------------------
(* The findings of one occurrence.                                         *)

Reports(v) == IF v = "clean" THEN 0 ELSE 1

RedactsOrBlocks(v) == v \in {"redact", "block", "outside"}

\* BUG: only the findings of a fresh scan are charged.
Charges_fresh(v) == IF Remembered(ToScan) THEN 0 ELSE Reports(v)

\* chargeFindings: what is reported is charged, memoized or not.
Charges(v) == Reports(v)

\* BUG: what the memo answers is not reported again.
Occurrences_fresh(at, v) == IF v = "clean" \/ Remembered(ToScan) THEN <<>> ELSE <<at>>

Occurrences(at, v) == IF v = "clean" THEN <<>> ELSE <<at>>

LeafOccurrence(o) ==
  [part |-> o.part, scope |-> IF o.isText THEN "text" ELSE "leaf",
   ordinal |-> IF o.isText THEN 0 ELSE o.leaves - 1]

KeyOccurrence(o) == [part |-> o.part, scope |-> "key", ordinal |-> o.keys - 1]

\* A whole value is read when no container is open.
Resumed(o) == [o EXCEPT !.at = IF o.isText \/ o.open = <<>> THEN "part end" ELSE "walking"]

\* A leaf's verdict is settled: it is charged, emitted, and blocks or is staged.
Settle(o, v) ==
  LET charged  == [o EXCEPT !.budget = Charged(@, "findings", Charges(v))]
      reported == Occurrences(LeafOccurrence(o), v)
      leaf     == [visit |-> o.budget.spent["leaves"], at |-> LeafOccurrence(o),
                   text |-> o.text, key |-> o.key, verdict |-> v]
  IN  IF charged.budget.exhausted
      THEN Refuse("limit_exceeded") /\ UNCHANGED emitted
      ELSE /\ emitted' = emitted \o reported
           /\ IF v = "block"
              THEN Refuse("policy")
              ELSE op' = Resumed([charged EXCEPT
                           !.findings = @ \o reported, !.staged = Append(@, leaf),
                           !.text = NoKey, !.key = NoKey, !.alone = "clean"])
                   /\ UNCHANGED outcome

\* Which of the two results of a leaf is its own.
LeafVerdict(alone, view) ==
  IF ~RedactsOrBlocks(view) /\ alone # "clean" THEN alone ELSE view

NeedsView(v) == op.key # NoKey /\ ~RedactsOrBlocks(v)

\* The leaf, or the whole text, alone.
ScanAlone ==
  /\ op.at = "leaf"
  /\ \E v \in AnswersTo(<<op.text>>) :
       /\ CoreSees(<<op.text>>, v)
       /\ LET o == AfterScan(<<op.text>>, v)
          IN  IF NeedsView(v)
              THEN op' = [o EXCEPT !.at = "view", !.alone = v] /\ UNCHANGED <<outcome, emitted>>
              ELSE Settle(o, v)
  /\ UNCHANGED aborted

\* The leaf in its view.  What lies outside of it cannot be rewritten.
ScanView ==
  /\ op.at = "view"
  /\ \E v \in AnswersTo(ToScan) :
       /\ CoreSees(ToScan, v)
       /\ IF v = "outside"
          THEN Refuse("policy") /\ UNCHANGED emitted
          ELSE Settle(AfterScan(ToScan, v), LeafVerdict(op.alone, v))
  /\ UNCHANGED aborted

\* BUG: a key is only refused when it blocks.
KeyMustGo_blockOnly(v) == v = "block"

KeyMustGo(v) == RedactsOrBlocks(v)

\* A key, which cannot be rewritten either.
ScanKey ==
  /\ op.at = "key"
  /\ \E v \in AnswersTo(<<op.text>>) :
       /\ CoreSees(<<op.text>>, v)
       /\ LET o == AfterScan(<<op.text>>, v)
              charged == [o EXCEPT !.budget = Charged(@, "findings", Charges(v))]
          IN  IF charged.budget.exhausted
              THEN Refuse("limit_exceeded") /\ UNCHANGED emitted
              ELSE /\ emitted' = emitted \o Occurrences(KeyOccurrence(o), v)
                   /\ IF KeyMustGo(v) THEN Refuse("policy")
                      ELSE op' = [charged EXCEPT !.at = "walking", !.key = op.text, !.text = NoKey]
                           /\ UNCHANGED outcome
  /\ UNCHANGED aborted

-----------------------------------------------------------------------------
(* walkStrict.                                                             *)

\* nodes += 1 against the walk's own limit, then chargeNode.
NodeFits == op.nodes + 1 <= MaxNodes /\ Fits(op.budget, "nodes", 1)

\* BUG: a container costs nothing.
Visited_leavesOnly(isLeaf) ==
  IF isLeaf THEN [op EXCEPT !.nodes = @ + 1, !.budget = Charged(@, "nodes", 1)] ELSE op

\* The operation after the visit of a leaf or of a container.
Visited(isLeaf) == [op EXCEPT !.nodes = @ + 1, !.budget = Charged(@, "nodes", 1)]

ReadsValue ==
  /\ op.at = "walking"
  /\ op.open # <<>> => Head(op.open).isArray \/ op.key # NoKey

\* A node past a limit; or no JSON value, an array hole, a container the walk
\* is already in, a getter that throws, or a container past maxDepth.
VisitFails ==
  /\ ReadsValue
  /\ \/ ~NodeFits /\ Refuse("limit_exceeded")
     \/ Refuse("unsupported_value")
     \/ NodeFits /\ Len(op.open) + 1 > MaxDepth /\ Refuse("limit_exceeded")
  /\ UNCHANGED <<known, called, emitted, aborted>>

VisitString(text) ==
  /\ ReadsValue /\ NodeFits
  /\ IF Fits(Visited(TRUE).budget, "leaves", 1)
     THEN /\ op' = [Visited(TRUE) EXCEPT !.budget = Charged(@, "leaves", 1), !.leaves = @ + 1,
                                   !.at = "leaf", !.text = text]
          /\ UNCHANGED outcome
     ELSE Refuse("limit_exceeded")
  /\ UNCHANGED <<known, called, emitted, aborted>>

\* A finite number, a boolean or null.
VisitScalar ==
  /\ ReadsValue /\ NodeFits
  /\ op' = Resumed([Visited(TRUE) EXCEPT !.key = NoKey])
  /\ UNCHANGED <<known, called, emitted, aborted, outcome>>

EnterContainer(isArray) ==
  /\ ReadsValue /\ NodeFits
  /\ Len(op.open) + 1 <= MaxDepth
  /\ op' = [Visited(FALSE) EXCEPT !.open = <<[isArray |-> isArray, keys |-> {}]>> \o @, !.key = NoKey]
  /\ UNCHANGED <<known, called, emitted, aborted, outcome>>

BetweenMembers == op.at = "walking" /\ op.open # <<>> /\ op.key = NoKey

ReadKey(key) ==
  /\ BetweenMembers /\ ~Head(op.open).isArray
  /\ key \notin Head(op.open).keys
  /\ IF Fits(op.budget, "keys", 1)
     THEN /\ op' = [op EXCEPT !.budget = Charged(@, "keys", 1), !.keys = @ + 1, !.at = "key",
                              !.text = key, !.open[1].keys = @ \cup {key}]
          /\ UNCHANGED outcome
     ELSE Refuse("limit_exceeded")
  /\ UNCHANGED <<known, called, emitted, aborted>>

LeaveContainer ==
  /\ BetweenMembers
  /\ op' = Resumed([op EXCEPT !.open = Tail(@)])
  /\ UNCHANGED <<known, called, emitted, aborted, outcome>>

-----------------------------------------------------------------------------
(* The operations.                                                         *)

\* The walk and the ordinals start anew; the budget and the memo go on.
ForPart(o) == [o EXCEPT !.nodes = 0, !.open = <<>>, !.leaves = 0, !.keys = 0]

\* sanitizeTextIn, up to the scan: a whole text is one node and one leaf.
EnterText(o, text) ==
  LET charged == Charged(Charged(o.budget, "nodes", 1), "leaves", 1)
  IN  IF Cancelled THEN Refuse("aborted")
      ELSE IF charged.exhausted THEN Refuse("limit_exceeded")
      ELSE IF text \notin Texts THEN Refuse("unsupported_value")
      ELSE /\ op' = [ForPart(o) EXCEPT !.budget = Charged(Charged(@, "nodes", 1), "leaves", 1),
                                       !.isText = TRUE, !.at = "leaf", !.text = text]
           /\ UNCHANGED outcome

\* sanitizeValueIn, up to the walk.
EnterValue(o) ==
  IF Cancelled THEN Refuse("aborted")
  ELSE op' = [ForPart(o) EXCEPT !.isText = FALSE, !.at = "walking"] /\ UNCHANGED outcome

MayStart == op.at = "idle" /\ outcome.is = "none"

\* A text that is no string is NoKey.
StartText(text) ==
  /\ MayStart
  /\ EnterText(NewOperation("text"), text)
  /\ UNCHANGED <<known, called, emitted, aborted>>

StartValue ==
  /\ MayStart
  /\ EnterValue(NewOperation("value"))
  /\ UNCHANGED <<known, called, emitted, aborted>>

StartContext ==
  /\ MayStart
  /\ \/ Cancelled /\ Refuse("aborted")
     \/ ~Cancelled /\ Refuse("unsupported_value")  \* parts is no array
     \/ ~Cancelled /\ op' = [NewOperation("context") EXCEPT !.at = "parts"] /\ UNCHANGED outcome
  /\ UNCHANGED <<known, called, emitted, aborted>>

\* The next part: malformed, a text, or a value.
NextPart ==
  /\ op.at = "parts"
  /\ \/ Refuse("unsupported_value")
     \/ \E text \in Keys : EnterText(op, text)
     \/ EnterValue(op)
  /\ UNCHANGED <<known, called, emitted, aborted>>

\* The poll after a part: sanitizeText and sanitizeValue return, buildContext
\* goes on.
EndPart ==
  /\ op.at = "part end"
  /\ \/ Cancelled /\ Refuse("aborted")
     \/ ~Cancelled /\ op.kind # "context" /\ Deliver
     \/ /\ ~Cancelled /\ op.kind = "context"
        /\ op' = [op EXCEPT !.at = "parts", !.part = @ + 1]
        /\ UNCHANGED outcome
  /\ UNCHANGED <<known, called, emitted, aborted>>

\* No part is left.
EndContext ==
  /\ op.at = "parts"
  /\ IF Cancelled THEN Refuse("aborted") ELSE Deliver
  /\ UNCHANGED <<known, called, emitted, aborted>>

\* The host aborts the signal.
Cancel ==
  /\ ~aborted
  /\ aborted' = TRUE
  /\ UNCHANGED <<op, known, called, emitted, outcome>>

-----------------------------------------------------------------------------
Init ==
  /\ op = NewOperation("text")
  /\ known = EmptyMemo
  /\ called = [i \in Inputs |-> 0]
  /\ emitted = <<>>
  /\ aborted = FALSE
  /\ outcome = [is |-> "none", findings |-> <<>>, leaves |-> <<>>]

Start == (\E text \in Keys : StartText(text)) \/ StartValue \/ StartContext

ScanStep == ScanRefused \/ CoreFails \/ ScanAlone \/ ScanView \/ ScanKey

WalkStep ==
  \/ VisitFails \/ VisitScalar \/ LeaveContainer
  \/ \E text \in Texts : VisitString(text) \/ ReadKey(text)
  \/ \E isArray \in BOOLEAN : EnterContainer(isArray)

PartStep == NextPart \/ EndPart \/ EndContext

OperationStep == ScanStep \/ WalkStep \/ PartStep

Next == Start \/ OperationStep \/ Cancel

\* A JavaScript call runs to its end; the host need not make or cancel one.
Fairness == WF_operationVars(OperationStep)

Spec == Init /\ [][Next]_operationVars /\ Fairness

-----------------------------------------------------------------------------
(* Properties.                                                             *)

\* Every variable stays in its type, and the memo within MAX_MEMO_ENTRIES.
OperationTypeOK ==
  /\ op \in Operation
  /\ known \in UNION {[D -> ViewVerdicts] : D \in SUBSET Inputs}
  /\ called \in [Inputs -> Nat]
  /\ emitted \in Seq(Occurrence)
  /\ aborted \in BOOLEAN
  /\ outcome \in Outcome

\* The memo never holds more than MAX_MEMO_ENTRIES results, and none that the
\* core would answer differently.
MemoIsBounded ==
  /\ Cardinality(DOMAIN op.memo) <= MaxMemo
  /\ \A i \in DOMAIN op.memo : Short(i) /\ i \in DOMAIN known /\ op.memo[i] = known[i]

\* What scanning this leaf afresh would say of it.
Afresh(leaf) ==
  IF leaf.key = NoKey \/ RedactsOrBlocks(known[<<leaf.text>>]) THEN known[<<leaf.text>>]
  ELSE LeafVerdict(known[<<leaf.text>>], known[<<leaf.key, leaf.text>>])

\* A leaf is delivered only as the core would have it scanned, alone and under
\* its key, wherever the answer came from; nothing that blocks is delivered, nor
\* a leaf under a key that would have had to be rewritten.
DeliveredAsScanned ==
  \A i \in DOMAIN outcome.leaves :
    LET leaf == outcome.leaves[i]
    IN  /\ leaf.verdict = Afresh(leaf) /\ leaf.verdict \notin {"block", "outside"}
        /\ leaf.key # NoKey => known[<<leaf.key>>] \in {"clean", "warn"}
        /\ leaf.key # NoKey /\ ~RedactsOrBlocks(known[<<leaf.text>>]) =>
             known[<<leaf.key, leaf.text>>] \notin {"block", "outside"}

\* What stands in `all` at the positions in `chosen`, in that order.
Selects(list, all, chosen) ==
  /\ Len(list) = Cardinality(chosen)
  /\ \A i \in chosen : list[Cardinality({j \in chosen : j <= i})] = all[i]

Spots(leaves) == [i \in DOMAIN leaves |-> leaves[i].at]

Reported(leaves) == {i \in DOMAIN leaves : leaves[i].verdict # "clean"}

NotOfKeys(occurrences) == {i \in DOMAIN occurrences : occurrences[i].scope # "key"}

\* The findings of an ok outcome are those of its leaves, one for every visit
\* of a reported text, each naming the part and the leaf it was visited at; and
\* the host was told of each of them, in that order.
FindingsPerOccurrence ==
  outcome.is = "ok" =>
    /\ Selects(outcome.findings, Spots(outcome.leaves), Reported(outcome.leaves))
    /\ Selects(outcome.findings, emitted, NotOfKeys(emitted))

\* Within one operation no short text is given to the core twice, in whatever
\* part or under whatever key it comes back, until the memo is full.
ScannedOnce ==
  op.at # "idle" /\ op.kind # "text" /\ Cardinality(DOMAIN op.memo) < MaxMemo =>
    \A i \in Inputs : Short(i) => called[i] <= 1

\* The memo of one operation stays within MAX_MEMO_ENTRIES and spares every rescan
\* it has room for.
MemoIsSound == OperationTypeOK /\ MemoIsBounded /\ ScannedOnce

\* The calls of the core this operation made: the nth for each input.
Calls == UNION {{<<i, n>> : n \in 1 .. called[i]} : i \in Inputs}

\* Those that gave it a view.
ViewCalls == {call \in Calls : Len(call[1]) = 2}

\* One budget pays for all of an operation: every call of the core and every
\* finding the host was told of, over all parts, is on it and within it, and the
\* memo keeps what was scanned from being called and paid for again.
OneBudget ==
  /\ MemoIsSound
  /\ op.at # "idle" =>
    /\ op.budget.spent["scans"] = Cardinality(Calls)
    /\ op.budget.spent["bytes"] = Cardinality(Calls) + 8 * Cardinality(ViewCalls)
    /\ op.budget.spent["findings"] = Len(emitted)
    /\ WithinLimits(op.budget)

\* An operation cancelled before it returned delivers nothing.
OkIsNotCancelled == [][outcome'.is = "ok" => outcome.is = "ok" \/ ~aborted]_operationVars

\* Every operation returns, however the value it reads unfolds: its limits end
\* a value, and a list of parts, that never would.
AlwaysReturns == op.at # "idle" ~> outcome.is # "none"

\* The operation keeps what StagedRelease promises: the leaves charged are
\* delivered all and in order, once, or not at all.
Visits(leaves) == [i \in DOMAIN leaves |-> leaves[i].visit]

Promise ==
  INSTANCE StagedRelease WITH
    phase   <- IF outcome.is = "none" THEN "open"
               ELSE IF outcome.is = "ok" THEN "released" ELSE "refused",
    content <- IF outcome.is = "none" THEN Visits(op.staged) ELSE <<>>,
    output  <- Visits(outcome.leaves)

KeepsPromise == Promise!StagedSpec

\* An operation delivers every part or nothing, and once cancelled nothing.
WholeOrNothing == OkIsNotCancelled /\ KeepsPromise
==============================================================================
