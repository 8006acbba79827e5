----------------------- MODULE AiContextOperation_proofs -----------------------
(***************************************************************************)
(* What holds of one host operation for any texts, limits and memo: it     *)
(* delivers all leaves or none, each as the core would have it scanned;    *)
(* every finding is told and listed once per occurrence; one budget pays   *)
(* for all of it; and so it implements StagedRelease.                      *)
(***************************************************************************)
EXTENDS AiContextOperation, OperationBudget_proofs, FiniteSetTheorems, SequenceTheorems, TLAPS

-----------------------------------------------------------------------------
(* The inductive invariant.                                                *)

Working == op.at # "idle"

\* What an operation returned, or has not returned yet.
Ended ==
  /\ ~Working => op = NewOperation("text")
  /\ outcome.is # "none" => ~Working
  /\ ~Working /\ outcome.is = "none" =>
       emitted = <<>> /\ called = [i \in Inputs |-> 0]
  /\ outcome.is # "ok" => outcome.leaves = <<>> /\ outcome.findings = <<>>

\* The core never reports what lies outside of a text it is given alone.
AnswersAlone == \A t \in Texts : <<t>> \in DOMAIN known => known[<<t>>] \in Verdicts

\* What the places of the walk have in hand.  A key in hand has been scanned and
\* may stay; before a view, its leaf has been scanned alone.
Placed(o) ==
  /\ o.at \in {"leaf", "view", "key"} => o.text \in Texts
  /\ o.at \in {"leaf", "view"} /\ ~o.isText => o.leaves > 0
  /\ o.at = "key" => o.keys > 0 /\ o.key = NoKey
  /\ o.at \in {"walking", "key"} => ~o.isText
  /\ o.at \in {"parts", "part end"} => o.key = NoKey
  /\ o.at = "view" =>
       /\ o.key # NoKey /\ <<o.text>> \in DOMAIN known
       /\ o.alone = known[<<o.text>>] /\ ~RedactsOrBlocks(o.alone)
  /\ o.key # NoKey => <<o.key>> \in DOMAIN known /\ known[<<o.key>>] \in {"clean", "warn"}

\* A leaf is as the core would have it, and its scans have been made.
AsScanned(leaf) ==
  /\ <<leaf.text>> \in DOMAIN known
  /\ leaf.verdict = Afresh(leaf) /\ leaf.verdict \notin {"block", "outside"}
  /\ leaf.key # NoKey => <<leaf.key>> \in DOMAIN known /\ known[<<leaf.key>>] \in {"clean", "warn"}
  /\ leaf.key # NoKey /\ ~RedactsOrBlocks(known[<<leaf.text>>]) =>
       /\ <<leaf.key, leaf.text>> \in DOMAIN known
       /\ known[<<leaf.key, leaf.text>>] \notin {"block", "outside"}

AllScanned(leaves) == \A i \in DOMAIN leaves : AsScanned(leaves[i])

\* What is listed is what the leaves report and what the host was told.
Listed(findings, leaves) ==
  /\ Selects(findings, Spots(leaves), Reported(leaves))
  /\ Selects(findings, emitted, NotOfKeys(emitted))

\* The budget is what the core and the host were given, and has refused nothing.
Paid(budget) ==
  /\ IsFiniteSet(Calls)
  /\ budget.spent["scans"] = Cardinality(Calls)
  /\ budget.spent["bytes"] = Cardinality(Calls) + 8 * Cardinality(ViewCalls)
  /\ budget.spent["findings"] = Len(emitted)
  /\ WithinLimits(budget)
  /\ ~budget.exhausted

\* The memo holds what the core answered; while it has room, it holds all that
\* was scanned.
Remembers(o) ==
  /\ IsFiniteSet(DOMAIN o.memo) /\ Cardinality(DOMAIN o.memo) <= MaxMemo
  /\ \A i \in DOMAIN o.memo : Short(i) /\ i \in DOMAIN known /\ o.memo[i] = known[i]
  /\ o.kind # "text" /\ Cardinality(DOMAIN o.memo) < MaxMemo =>
       \A i \in Inputs : Short(i) => called[i] <= 1 /\ (called[i] = 1 => i \in DOMAIN o.memo)

\* A leaf's visit is its place among those staged; the one in hand is the next.
Numbered(o) ==
  /\ \A i \in DOMAIN o.staged : o.staged[i].visit = i
  /\ o.budget.spent["leaves"] =
       Len(o.staged) + IF o.at \in {"leaf", "view"} THEN 1 ELSE 0

\* What an operation has done so far is accounted for.
Accounted(o) ==
  /\ AllScanned(o.staged)
  /\ Listed(o.findings, o.staged)
  /\ Paid(o.budget)
  /\ Remembers(o)

OperationInv ==
  /\ Ended
  /\ AnswersAlone
  /\ Working => Placed(op) /\ Accounted(op) /\ Numbered(op)
  /\ outcome.is = "ok" => AllScanned(outcome.leaves) /\ Listed(outcome.findings, outcome.leaves)

-----------------------------------------------------------------------------
(* Inputs, functions and sequences.                                        *)

\* An input is a text alone or a text under a key, and which of them it is, and
\* of what, can be read off it.
LEMMA InputKinds ==
  /\ \A t \in Texts : <<t>> \in Inputs /\ Len(<<t>>) = 1 /\ Bytes(<<t>>) = 1
  /\ \A k, t \in Texts : <<k, t>> \in Inputs /\ Len(<<k, t>>) = 2 /\ Bytes(<<k, t>>) = 9
  /\ \A i \in Inputs : \/ \E t \in Texts : i = <<t>>
                       \/ \E k, t \in Texts : i = <<k, t>>
  /\ \A t, u \in Texts : <<t>> = <<u>> => t = u
  /\ \A k, t, u \in Texts : <<k, t>> # <<u>>
BY DEF Inputs, Bytes

\* The answers there can be to inputs.
Answers == UNION {[D -> ViewVerdicts] : D \in SUBSET Inputs}

\* What an answered input is answered with.
LEMMA AnswersFacts ==
  ASSUME NEW f \in Answers
  PROVE  /\ DOMAIN f \subseteq Inputs
         /\ \A i \in DOMAIN f : f[i] \in ViewVerdicts
BY DEF Answers

\* Setting one answer keeps the others.
LEMMA SetFacts ==
  ASSUME NEW f \in Answers, NEW i \in Inputs, NEW v \in ViewVerdicts
  PROVE  /\ Set(f, i, v) \in Answers
         /\ DOMAIN Set(f, i, v) = DOMAIN f \cup {i}
         /\ Set(f, i, v)[i] = v
         /\ \A j \in DOMAIN f : j # i => Set(f, i, v)[j] = f[j]
<1>1. DOMAIN f \cup {i} \in SUBSET Inputs
  BY AnswersFacts
<1>2. Set(f, i, v) \in [DOMAIN f \cup {i} -> ViewVerdicts]
  BY AnswersFacts DEF Set
<1>3. Set(f, i, v) \in Answers
  BY <1>1, <1>2 DEF Answers
<1> QED
  BY <1>3 DEF Set

\* Appending keeps a sequence's type and its earlier elements.
LEMMA AppendFacts ==
  ASSUME NEW S, NEW s \in Seq(S), NEW e \in S
  PROVE  /\ Append(s, e) \in Seq(S)
         /\ Len(Append(s, e)) = Len(s) + 1 /\ Len(s) \in Nat
         /\ DOMAIN s = 1 .. Len(s)
         /\ DOMAIN Append(s, e) = 1 .. Len(s) + 1
         /\ \A i \in 1 .. Len(s) : Append(s, e)[i] = s[i] /\ s[i] \in S
         /\ Append(s, e)[Len(s) + 1] = e
OBVIOUS

\* The host is told of one occurrence, or of none.
LEMMA OccurrencesFacts ==
  ASSUME NEW at \in Occurrence, NEW v, NEW s \in Seq(Occurrence)
  PROVE  /\ v = "clean" => s \o Occurrences(at, v) = s
         /\ v # "clean" => s \o Occurrences(at, v) = Append(s, at)
         /\ s \o Occurrences(at, v) \in Seq(Occurrence)
         /\ Len(s \o Occurrences(at, v)) = Len(s) + Charges(v)
         /\ Charges(v) = IF v = "clean" THEN 0 ELSE 1
BY DEF Occurrences, Charges, Reports

-----------------------------------------------------------------------------
(* Selecting positions of a sequence.                                      *)

\* A chosen position's rank counts those chosen up to it, from 1.
LEMMA Ranks ==
  ASSUME NEW n \in Nat, NEW chosen \in SUBSET (1 .. n)
  PROVE  /\ IsFiniteSet(chosen) /\ Cardinality(chosen) \in Nat
         /\ \A i \in chosen : Cardinality({j \in chosen : j <= i}) \in 1 .. Cardinality(chosen)
<1>1. IsFiniteSet(1 .. n)
  BY FS_Interval
<1>2. IsFiniteSet(chosen) /\ Cardinality(chosen) \in Nat
  BY <1>1, FS_Subset, FS_CardinalityType
<1>3. ASSUME NEW i \in chosen
      PROVE  Cardinality({j \in chosen : j <= i}) \in 1 .. Cardinality(chosen)
  <2> DEFINE upTo == {j \in chosen : j <= i}
  <2>1. upTo \in SUBSET chosen /\ i \in upTo
    BY <1>3
  <2> HIDE DEF upTo
  <2>2. IsFiniteSet(upTo) /\ Cardinality(upTo) <= Cardinality(chosen)
    BY <1>2, <2>1, FS_Subset
  <2>3. Cardinality(upTo) \in Nat /\ Cardinality(upTo) # 0
    BY <2>1, <2>2, FS_CardinalityType, FS_EmptySet
  <2>4. Cardinality(upTo) \in 1 .. Cardinality(chosen)
    BY <1>2, <2>2, <2>3
  <2> QED
    BY <2>4 DEF upTo
<1> QED
  BY <1>2, <1>3

\* A position that is not chosen selects nothing more.
LEMMA SelectsNoMore ==
  ASSUME NEW list, NEW all, NEW longer, NEW n \in Nat, NEW chosen \in SUBSET (1 .. n),
         Selects(list, all, chosen), \A i \in 1 .. n : longer[i] = all[i]
  PROVE  Selects(list, longer, chosen)
BY DEF Selects

\* The next position, chosen, selects what stands there.
LEMMA SelectsNext ==
  ASSUME NEW S, NEW list \in Seq(S), NEW all, NEW longer, NEW n \in Nat,
         NEW chosen \in SUBSET (1 .. n), Selects(list, all, chosen),
         \A i \in 1 .. n : longer[i] = all[i], NEW e \in S, longer[n + 1] = e
  PROVE  Selects(Append(list, e), longer, chosen \cup {n + 1})
<1> DEFINE more == chosen \cup {n + 1}
<1> DEFINE longerList == Append(list, e)
<1>a. n + 1 \notin chosen /\ \A i \in chosen : i \in Nat /\ i <= n
  OBVIOUS
<1>1. IsFiniteSet(chosen) /\ Cardinality(chosen) \in Nat
  BY Ranks
<1>2. Cardinality(more) = Cardinality(chosen) + 1
  BY <1>a, <1>1, FS_AddElement
<1>3. Len(list) = Cardinality(chosen)
  BY DEF Selects
<1>4. Len(longerList) = Cardinality(more)
  BY <1>2, <1>3, AppendFacts
<1>b. \A k \in 1 .. Len(list) : longerList[k] = list[k]
  BY AppendFacts
<1>c. longerList[Len(list) + 1] = e
  BY AppendFacts
<1>5. ASSUME NEW i \in chosen
      PROVE  longerList[Cardinality({j \in more : j <= i})] = longer[i]
  <2>1. {j \in more : j <= i} = {j \in chosen : j <= i}
    <3>1. i <= n /\ i \in Nat /\ ~(n + 1 <= i)
      BY <1>a, <1>5
    <3> QED
      BY <3>1
  <2>2. Cardinality({j \in chosen : j <= i}) \in 1 .. Len(list)
    BY <1>3, <1>5, Ranks
  <2>3. list[Cardinality({j \in chosen : j <= i})] = all[i] /\ all[i] = longer[i]
    BY <1>5 DEF Selects
  <2> QED
    BY <1>b, <2>1, <2>2, <2>3
<1>6. longerList[Cardinality({j \in more : j <= n + 1})] = longer[n + 1]
  <2>1. {j \in more : j <= n + 1} = more
    <3>1. \A j \in more : j <= n + 1
      BY <1>a
    <3> HIDE DEF more
    <3> QED
      BY <3>1
  <2> HIDE DEF more
  <2>2. Cardinality({j \in more : j <= n + 1}) = Len(list) + 1
    BY <1>2, <1>3, <2>1
  <2> QED
    BY <1>c, <2>2
<1>7. \A i \in more : longerList[Cardinality({j \in more : j <= i})] = longer[i]
  BY <1>5, <1>6
<1> HIDE DEF longerList
<1>8. Selects(longerList, longer, more)
  BY <1>4, <1>7 DEF Selects
<1> QED
  BY <1>8 DEF longerList

-----------------------------------------------------------------------------
(* The calls of the core.                                                  *)

\* One call more of one input is one more call, of a view when it has two texts.
LEMMA CallsGain ==
  ASSUME called \in [Inputs -> Nat], NEW input \in Inputs, IsFiniteSet(Calls),
         called' = [called EXCEPT ![input] = @ + 1]
  PROVE  /\ IsFiniteSet(Calls') /\ Cardinality(Calls) \in Nat /\ Cardinality(ViewCalls) \in Nat
         /\ Cardinality(Calls') = Cardinality(Calls) + 1
         /\ Cardinality(ViewCalls') =
              Cardinality(ViewCalls) + IF Len(input) = 2 THEN 1 ELSE 0
<1> DEFINE call == <<input, called[input] + 1>>
<1>1. ASSUME NEW c PROVE c \in Calls <=> \E i \in Inputs, n \in Nat : c = <<i, n>> /\ 1 <= n /\ n <= called[i]
  BY DEF Calls
<1>2. ASSUME NEW c PROVE c \in Calls' <=> \E i \in Inputs, n \in Nat : c = <<i, n>> /\ 1 <= n /\ n <= called'[i]
  BY DEF Calls
<1>3. \A i \in Inputs : called[i] \in Nat /\ called'[i] = IF i = input THEN called[i] + 1 ELSE called[i]
  OBVIOUS
<1>4. call \notin Calls
  <2> SUFFICES ASSUME call \in Calls PROVE FALSE
    OBVIOUS
  <2>1. PICK i \in Inputs, n \in Nat : call = <<i, n>> /\ 1 <= n /\ n <= called[i]
    BY <1>1
  <2>2. i = input /\ n = called[input] + 1
    BY <2>1
  <2> QED
    BY <1>3, <2>1, <2>2
<1>5. Calls' = Calls \cup {call}
  <2>1. ASSUME NEW c \in Calls PROVE c \in Calls'
    <3>1. PICK i \in Inputs, n \in Nat : c = <<i, n>> /\ 1 <= n /\ n <= called[i]
      BY <1>1, <2>1
    <3>2. n <= called'[i]
      BY <1>3, <3>1
    <3> QED
      BY <1>2, <3>1, <3>2
  <2>2. call \in Calls'
    <3>1. called[input] + 1 \in Nat /\ 1 <= called[input] + 1 /\ called[input] + 1 <= called'[input]
      BY <1>3
    <3> QED
      BY <1>2, <3>1
  <2>3. ASSUME NEW c \in Calls', c # call PROVE c \in Calls
    <3>1. PICK i \in Inputs, n \in Nat : c = <<i, n>> /\ 1 <= n /\ n <= called'[i]
      BY <1>2, <2>3
    <3>2. n <= called[i]
      BY <1>3, <2>3, <3>1
    <3> QED
      BY <1>1, <3>1, <3>2
  <2> QED
    BY <2>1, <2>2, <2>3
<1>6. Cardinality(Calls) \in Nat /\ IsFiniteSet(Calls') /\ Cardinality(Calls') = Cardinality(Calls) + 1
  BY <1>4, <1>5, FS_AddElement, FS_CardinalityType
<1>7. call[1] = input
  OBVIOUS
<1> HIDE DEF call
<1>8. ViewCalls' = IF Len(input) = 2 THEN ViewCalls \cup {call} ELSE ViewCalls
  BY <1>5, <1>7 DEF ViewCalls
<1>9. ViewCalls \in SUBSET Calls /\ call \notin ViewCalls
  BY <1>4 DEF ViewCalls
<1>10. IsFiniteSet(ViewCalls) /\ Cardinality(ViewCalls) \in Nat
  BY <1>9, FS_Subset, FS_CardinalityType
<1>11. Cardinality(ViewCalls \cup {call}) = Cardinality(ViewCalls) + 1
  BY <1>9, <1>10, FS_AddElement
<1> QED
  BY <1>6, <1>8, <1>10, <1>11

-----------------------------------------------------------------------------
(* What each operator makes of an operation.                               *)

\* A new operation is one.
LEMMA NewOperationType ==
  ASSUME NEW kind \in {"text", "value", "context"}
  PROVE  NewOperation(kind) \in Operation
<1>1. FreshBudget \in Budget
  BY DEF FreshBudget, Budget
<1>2. EmptyMemo \in UNION {[D -> ViewVerdicts] : D \in SUBSET Inputs}
  BY DEF EmptyMemo
<1> HIDE DEF EmptyMemo, FreshBudget
<1> QED
  BY <1>1, <1>2 DEF NewOperation, Operation, Places, Keys, Verdicts

\* An operation that is not past a scan's budget is charged for it, and what the
\* core answered is remembered while there is room.
LEMMA AfterScanFields ==
  ASSUME op \in Operation, NEW input \in Inputs, NEW v \in ViewVerdicts, NEW o,
         o = AfterScan(input, v), ~Remembered(input)
  PROVE  /\ o \in Operation
         /\ o.kind = op.kind /\ o.at = op.at /\ o.part = op.part /\ o.isText = op.isText
         /\ o.nodes = op.nodes /\ o.open = op.open /\ o.key = op.key /\ o.text = op.text
         /\ o.alone = op.alone /\ o.leaves = op.leaves /\ o.keys = op.keys
         /\ o.findings = op.findings /\ o.staged = op.staged
         /\ o.budget = ChargedScan(op.budget, Bytes(input))
         /\ o.memo = IF MayRemember(input) THEN Set(op.memo, input, v) ELSE op.memo
<1> DEFINE memo == IF MayRemember(input) THEN Set(op.memo, input, v) ELSE op.memo
           budget == ChargedScan(op.budget, Bytes(input))
<1>1. Bytes(input) \in Nat
  BY DEF Bytes
<1>2. op.memo \in Answers /\ op.budget \in Budget
  BY DEF Operation, Answers
<1>3. memo \in UNION {[D -> ViewVerdicts] : D \in SUBSET Inputs} /\ budget \in Budget
  BY <1>1, <1>2, SetFacts, ChargedScanMeters DEF Answers
<1>4. o = [op EXCEPT !.budget = budget, !.memo = memo]
  BY DEF AfterScan
<1> HIDE DEF memo, budget
<1>5. o \in Operation
  BY <1>3, <1>4 DEF Operation
<1>6. /\ o.kind = op.kind /\ o.at = op.at /\ o.part = op.part /\ o.isText = op.isText
      /\ o.nodes = op.nodes /\ o.open = op.open /\ o.key = op.key /\ o.text = op.text
      /\ o.alone = op.alone /\ o.leaves = op.leaves /\ o.keys = op.keys
      /\ o.findings = op.findings /\ o.staged = op.staged
      /\ o.budget = budget /\ o.memo = memo
  BY <1>4 DEF Operation
<1> QED
  BY <1>5, <1>6 DEF memo, budget

\* A visit is a node of the walk and of the budget.
LEMMA VisitedFields ==
  ASSUME op \in Operation, NEW isLeaf \in BOOLEAN, NEW o, o = Visited(isLeaf), NodeFits
  PROVE  /\ o \in Operation
         /\ o.kind = op.kind /\ o.at = op.at /\ o.isText = op.isText
         /\ o.open = op.open /\ o.key = op.key /\ o.text = op.text
         /\ o.memo = op.memo
         /\ o.findings = op.findings /\ o.staged = op.staged
         /\ o.budget = Charged(op.budget, "nodes", 1)
<1> DEFINE budget == Charged(op.budget, "nodes", 1)
           nodes == op.nodes + 1
<1>a. op.budget \in Budget /\ op.nodes \in Nat
  BY DEF Operation
<1>b. budget \in Budget
  BY <1>a, ChargedMeter DEF Meters
<1>1. budget \in Budget /\ nodes \in Nat
  BY <1>a, <1>b
<1>2. o = [op EXCEPT !.nodes = nodes, !.budget = budget]
  BY DEF Visited
<1> HIDE DEF budget, nodes
<1>3. o \in Operation
  BY <1>1, <1>2 DEF Operation
<1>4. /\ o.kind = op.kind /\ o.at = op.at /\ o.isText = op.isText
      /\ o.open = op.open /\ o.key = op.key /\ o.text = op.text /\ o.memo = op.memo
      /\ o.findings = op.findings /\ o.staged = op.staged /\ o.budget = budget
  BY <1>2 DEF Operation
<1> QED
  BY <1>3, <1>4 DEF budget

\* Going on with the walk moves only the place.
LEMMA ResumedFields ==
  ASSUME NEW o \in Operation, NEW r, r = Resumed(o)
  PROVE  /\ r \in Operation
         /\ r.at \in {"part end", "walking"}
         /\ o.isText => r.at # "walking"
         /\ r.kind = o.kind /\ r.isText = o.isText /\ r.key = o.key
         /\ r.memo = o.memo /\ r.budget = o.budget
         /\ r.findings = o.findings /\ r.staged = o.staged
         /\ r.leaves = o.leaves /\ r.keys = o.keys
<1> DEFINE at == IF o.isText \/ o.open = <<>> THEN "part end" ELSE "walking"
<1>1. r = [o EXCEPT !.at = at] /\ at \in {"part end", "walking"}
      /\ (o.isText => at # "walking")
  BY DEF Resumed
<1> HIDE DEF at
<1>2. r.at = at
  BY <1>1 DEF Operation
<1>3. /\ r \in Operation
      /\ r.kind = o.kind /\ r.isText = o.isText /\ r.key = o.key
      /\ r.memo = o.memo /\ r.budget = o.budget
      /\ r.findings = o.findings /\ r.staged = o.staged
      /\ r.leaves = o.leaves /\ r.keys = o.keys
  BY <1>1 DEF Operation, Places
<1> QED
  BY <1>1, <1>2, <1>3

\* A new part starts the walk anew and keeps what all parts share.
LEMMA ForPartFields ==
  ASSUME NEW o \in Operation, NEW r, r = ForPart(o)
  PROVE  /\ r \in Operation
         /\ r.kind = o.kind /\ r.key = o.key /\ r.memo = o.memo /\ r.budget = o.budget
         /\ r.findings = o.findings /\ r.staged = o.staged
<1> DEFINE open == <<>>
           zero == 0
<1>1. r = [o EXCEPT !.nodes = zero, !.open = open, !.leaves = zero, !.keys = zero]
  BY DEF ForPart
<1>2. open \in Seq(Container) /\ zero \in Nat
  OBVIOUS
<1> HIDE DEF open, zero
<1>3. r \in Operation
  BY <1>1, <1>2 DEF Operation
<1> QED
  BY <1>1, <1>3 DEF Operation

-----------------------------------------------------------------------------
(* Steps that end the operation, and steps that go on.                     *)

\* How a step goes on: it refuses, it delivers, or it stages at most one leaf.
Progress ==
  \/ \E reason \in Outcomes \ {"none", "ok"} : Refuse(reason)
  \/ Deliver /\ ~aborted
  \/ outcome' = outcome /\ (op'.staged = op.staged \/ Len(op'.staged) = Len(op.staged) + 1)

Kept == OperationTypeOK' /\ OperationInv' /\ Progress

\* What an outcome is made of.
LEMMA OutcomeFields ==
  ASSUME NEW o \in Outcome
  PROVE  /\ o.is \in Outcomes
         /\ o.findings \in Seq(Occurrence) /\ o.leaves \in Seq(Leaf)
BY DEF Outcome

\* An operation that is over accounts for nothing but what it delivered.
LEMMA Over ==
  ASSUME op' = NewOperation("text"), outcome' \in Outcome, outcome'.is # "none",
         outcome'.is # "ok" => outcome'.leaves = <<>> /\ outcome'.findings = <<>>,
         outcome'.is = "ok" => (AllScanned(outcome.leaves) /\ Listed(outcome.findings, outcome.leaves))',
         known' \in Answers, AnswersAlone', called' \in [Inputs -> Nat],
         emitted' \in Seq(Occurrence), aborted' \in BOOLEAN
  PROVE  OperationTypeOK' /\ OperationInv'
<1>1. op' \in Operation
  BY NewOperationType
<1>2. OperationTypeOK'
  BY <1>1 DEF OperationTypeOK, Answers
<1>3. ~Working'
  BY DEF Working, NewOperation
<1>4. Ended'
  BY <1>3 DEF Ended
<1> QED
  BY <1>2, <1>3, <1>4 DEF OperationInv

\* A refusal delivers nothing and ends the operation.
LEMMA Refusing ==
  ASSUME NEW reason \in Outcomes \ {"none", "ok"}, Refuse(reason),
         known' \in Answers, AnswersAlone', called' \in [Inputs -> Nat],
         emitted' \in Seq(Occurrence), aborted' \in BOOLEAN
  PROVE  Kept
<1> DEFINE none == <<>>
<1>1. none \in Seq(Occurrence) /\ none \in Seq(Leaf)
  OBVIOUS
<1>2. outcome' = [is |-> reason, findings |-> none, leaves |-> none] /\ op' = NewOperation("text")
  BY DEF Refuse
<1> HIDE DEF none
<1>3. outcome' \in Outcome /\ outcome'.is = reason /\ outcome'.leaves = none /\ outcome'.findings = none
  BY <1>1, <1>2 DEF Outcome
<1> QED
  BY <1>2, <1>3, Over DEF none, Kept, Progress

\* A delivery hands out what was staged, none of it after a cancellation was seen.
LEMMA Delivering ==
  ASSUME OperationTypeOK, OperationInv, Working, Deliver, ~Cancelled,
         UNCHANGED <<known, called, emitted, aborted>>
  PROVE  Kept
<1>1. /\ outcome' = [is |-> "ok", findings |-> op.findings, leaves |-> op.staged]
      /\ op' = NewOperation("text")
  BY DEF Deliver
<1>2. op.findings \in Seq(Occurrence) /\ op.staged \in Seq(Leaf)
  BY DEF OperationTypeOK, Operation
<1>3. outcome' \in Outcome /\ outcome'.is = "ok" /\ outcome'.leaves = op.staged
      /\ outcome'.findings = op.findings
  BY <1>1, <1>2 DEF Outcome, Outcomes
<1>4. AllScanned(op.staged) /\ Listed(op.findings, op.staged)
  BY DEF OperationInv, Accounted
<1>5. (AllScanned(outcome.leaves) /\ Listed(outcome.findings, outcome.leaves))'
  BY <1>3, <1>4 DEF AllScanned, AsScanned, Afresh, Listed
<1>6. known' \in Answers /\ AnswersAlone' /\ called' \in [Inputs -> Nat]
      /\ emitted' \in Seq(Occurrence) /\ aborted' \in BOOLEAN
  BY DEF OperationTypeOK, OperationInv, AnswersAlone, Answers
<1> QED
  BY <1>1, <1>3, <1>5, <1>6, Over DEF Kept, Progress, Cancelled

\* A step that goes on from `o` changes neither what is staged nor what is paid.
LEMMA Going ==
  ASSUME NEW o \in Operation, Accounted(o)', op' \in Operation, op'.at # "idle",
         op'.kind = o.kind, op'.memo = o.memo,
         op'.staged = o.staged, op'.findings = o.findings,
         op'.budget.spent["scans"] = o.budget.spent["scans"],
         op'.budget.spent["bytes"] = o.budget.spent["bytes"],
         op'.budget.spent["findings"] = o.budget.spent["findings"],
         WithinLimits(op'.budget), ~op'.budget.exhausted,
         Placed(op)', Numbered(op)',
         outcome' \in Outcome, outcome'.is = "none",
         outcome'.leaves = <<>>, outcome'.findings = <<>>,
         known' \in Answers, AnswersAlone', called' \in [Inputs -> Nat],
         emitted' \in Seq(Occurrence), aborted' \in BOOLEAN,
         o.staged = op.staged, outcome' = outcome
  PROVE  Kept
<1>1. OperationTypeOK'
  BY DEF OperationTypeOK, Answers
<1>2. Ended' /\ Working'
  BY DEF Ended, Working
<1>3. AllScanned(op.staged)' /\ Listed(op.findings, op.staged)' /\ Remembers(op)'
  BY DEF Accounted, Remembers, Listed, AllScanned
<1>4. Paid(op.budget)'
  BY DEF Accounted, Paid
<1>5. Accounted(op)'
  BY <1>3, <1>4 DEF Accounted
<1> QED
  BY <1>1, <1>2, <1>5 DEF OperationInv, Kept, Progress

\* What is accounted for stays so while neither the core nor the host is called.
LEMMA AccountedStays ==
  ASSUME NEW o, Accounted(o), UNCHANGED <<known, called, emitted>>
  PROVE  Accounted(o)'
BY DEF Accounted, AllScanned, AsScanned, Afresh, Listed, Paid, Calls, ViewCalls, Remembers

\* Charging another meter leaves those of the scans and findings alone.
LEMMA ChargedElsewhere ==
  ASSUME NEW b \in Budget, NEW meter \in {"nodes", "keys", "leaves"},
         WithinLimits(b), Fits(b, meter, 1)
  PROVE  /\ Charged(b, meter, 1) \in Budget
         /\ Charged(b, meter, 1).spent["scans"] = b.spent["scans"]
         /\ Charged(b, meter, 1).spent["bytes"] = b.spent["bytes"]
         /\ Charged(b, meter, 1).spent["findings"] = b.spent["findings"]
         /\ Charged(b, meter, 1).spent["leaves"] =
              b.spent["leaves"] + IF meter = "leaves" THEN 1 ELSE 0
         /\ WithinLimits(Charged(b, meter, 1))
         /\ ~Charged(b, meter, 1).exhausted
<1>1. meter \in Meters /\ {"scans", "bytes", "findings", "leaves"} \subseteq Meters
  BY DEF Meters
<1>2. ~Charged(b, meter, 1).exhausted
  BY DEF Charged, Fits, Budget
<1>3. b.spent["leaves"] \in Nat
  BY <1>1 DEF Budget
<1>4. /\ Charged(b, meter, 1) \in Budget
      /\ \A m \in Meters : Charged(b, meter, 1).spent[m] = IF m = meter THEN b.spent[m] + 1 ELSE b.spent[m]
  BY <1>1, ChargedMeter
<1>5. WithinLimits(Charged(b, meter, 1))
  BY <1>1, ChargesStayWithinLimits
<1>6. /\ Charged(b, meter, 1).spent["scans"] = b.spent["scans"]
      /\ Charged(b, meter, 1).spent["bytes"] = b.spent["bytes"]
      /\ Charged(b, meter, 1).spent["findings"] = b.spent["findings"]
  BY <1>1, <1>4
<1>7. Charged(b, meter, 1).spent["leaves"] = b.spent["leaves"] + IF meter = "leaves" THEN 1 ELSE 0
  BY <1>1, <1>3, <1>4
<1> QED
  BY <1>2, <1>4, <1>5, <1>6, <1>7

-----------------------------------------------------------------------------
(* A scan.                                                                 *)

\* What a scan of `input` that was answered `v` leaves, `o` being the operation
\* after it: the answer is known, paid for and, with room, remembered.
Scanned(o, input, v) ==
  /\ o \in Operation
  /\ o.kind = op.kind /\ o.at = op.at /\ o.part = op.part /\ o.isText = op.isText
  /\ o.key = op.key /\ o.text = op.text /\ o.alone = op.alone
  /\ o.leaves = op.leaves /\ o.keys = op.keys
  /\ o.findings = op.findings /\ o.staged = op.staged
  /\ o.budget.spent["findings"] = op.budget.spent["findings"]
  /\ o.budget.spent["leaves"] = op.budget.spent["leaves"]
  /\ o.budget.spent["scans"] = Cardinality(Calls')
  /\ o.budget.spent["bytes"] = Cardinality(Calls') + 8 * Cardinality(ViewCalls')
  /\ IsFiniteSet(Calls')
  /\ WithinLimits(o.budget) /\ ~o.budget.exhausted
  /\ Remembers(o)'
  /\ AllScanned(o.staged)'
  /\ known' \in Answers /\ AnswersAlone' /\ called' \in [Inputs -> Nat]
  /\ \A i \in DOMAIN known : i \in DOMAIN known' /\ known'[i] = known[i]
  /\ input \in DOMAIN known' /\ known'[input] = v

\* A text alone is never answered as if it were a view.
LEMMA AnswersFit ==
  ASSUME OperationTypeOK, OperationInv, Working, NEW input \in Inputs, NEW v \in AnswersTo(input)
  PROVE  /\ v \in ViewVerdicts
         /\ Len(input) = 1 => v \in Verdicts
         /\ input \in DOMAIN known => known[input] = v
         /\ Remembered(input) => input \in DOMAIN known
         /\ ~Remembered(input) => MayScan(input)
<1>1. known \in Answers /\ Verdicts \subseteq ViewVerdicts
  BY DEF OperationTypeOK, Answers, ViewVerdicts
<1>2. \A i \in DOMAIN known : known[i] \in ViewVerdicts
  BY <1>1, AnswersFacts
<1>3. \A i \in DOMAIN op.memo : i \in DOMAIN known /\ op.memo[i] = known[i]
  BY DEF OperationInv, Accounted, Remembers
<1>4. Len(input) = 1 /\ input \in DOMAIN known => known[input] \in Verdicts
  BY InputKinds DEF OperationInv, AnswersAlone
<1>5. CASE Remembered(input)
  BY <1>2, <1>3, <1>4, <1>5 DEF AnswersTo, Remembered
<1>6. CASE ~Remembered(input)
  BY <1>1, <1>2, <1>4, <1>6 DEF AnswersTo
<1> QED
  BY <1>5, <1>6

\* What was scanned once stays as the core has it.
LEMMA AsScannedStays ==
  ASSUME NEW leaf, AsScanned(leaf),
         \A i \in DOMAIN known : i \in DOMAIN known' /\ known'[i] = known[i]
  PROVE  AsScanned(leaf)'
<1>1. <<leaf.text>> \in DOMAIN known' /\ known'[<<leaf.text>>] = known[<<leaf.text>>]
  BY DEF AsScanned
<1>2. CASE leaf.key = NoKey \/ RedactsOrBlocks(known[<<leaf.text>>])
  BY <1>1, <1>2 DEF AsScanned, Afresh
<1>3. CASE leaf.key # NoKey /\ ~RedactsOrBlocks(known[<<leaf.text>>])
  <2>1. /\ <<leaf.key, leaf.text>> \in DOMAIN known'
        /\ known'[<<leaf.key, leaf.text>>] = known[<<leaf.key, leaf.text>>]
    BY <1>3 DEF AsScanned
  <2> QED
    BY <1>1, <1>3, <2>1 DEF AsScanned, Afresh
<1> QED
  BY <1>2, <1>3

\* A scan that is made is paid for: one more call, of its own size.
LEMMA FreshScanBudget ==
  ASSUME NEW b \in Budget, NEW bytes \in Nat, FitsScan(b, bytes), WithinLimits(b)
  PROVE  /\ ChargedScan(b, bytes).spent["scans"] = b.spent["scans"] + 1
         /\ ChargedScan(b, bytes).spent["bytes"] = b.spent["bytes"] + bytes
         /\ ChargedScan(b, bytes).spent["findings"] = b.spent["findings"]
         /\ ChargedScan(b, bytes).spent["leaves"] = b.spent["leaves"]
         /\ WithinLimits(ChargedScan(b, bytes)) /\ ~ChargedScan(b, bytes).exhausted
         /\ \A m \in Meters : b.spent[m] \in Nat
<1>1. \A m \in Meters : b.spent[m] \in Nat
  BY DEF Budget
<1>2. ~ChargedScan(b, bytes).exhausted
  BY DEF ChargedScan, FitsScan, Fits, Budget
<1>3. /\ ChargedScan(b, bytes).spent["scans"] = b.spent["scans"] + 1
      /\ ChargedScan(b, bytes).spent["bytes"] = b.spent["bytes"] + bytes
      /\ \A m \in Meters \ {"scans", "bytes"} : ChargedScan(b, bytes).spent[m] = b.spent[m]
  BY ChargedScanMeters
<1>4. WithinLimits(ChargedScan(b, bytes))
  BY ChargesStayWithinLimits DEF Meters
<1>5. "findings" \in Meters \ {"scans", "bytes"} /\ "leaves" \in Meters \ {"scans", "bytes"}
  BY DEF Meters
<1> QED
  BY <1>1, <1>2, <1>3, <1>4, <1>5

\* While the memo has room, nothing it may hold is scanned twice.
LEMMA FreshScanRemembers ==
  ASSUME OperationTypeOK, OperationInv, Working, NEW input \in Inputs, NEW v \in ViewVerdicts,
         NEW o, o.kind = op.kind, ~Remembered(input),
         o.memo = IF MayRemember(input) THEN Set(op.memo, input, v) ELSE op.memo,
         called' = [called EXCEPT ![input] = @ + 1],
         \A i \in DOMAIN known : i \in DOMAIN known' /\ known'[i] = known[i],
         input \in DOMAIN known', known'[input] = v
  PROVE  Remembers(o)'
<1>1. op.memo \in Answers /\ MaxMemo \in Nat
  BY OperationAssumption DEF OperationTypeOK, Operation, Answers
<1>2. input \notin DOMAIN op.memo
  BY DEF Remembered
<1>3. Remembers(op) /\ IsFiniteSet(DOMAIN op.memo)
  BY DEF OperationInv, Accounted, Remembers
<1>4. Cardinality(DOMAIN op.memo) \in Nat
  BY <1>3, FS_CardinalityType
<1>5. \A i \in Inputs : called[i] \in Nat /\ called'[i] = IF i = input THEN called[i] + 1 ELSE called[i]
  BY DEF OperationTypeOK
<1>6. CASE MayRemember(input)
  <2>1. /\ DOMAIN o.memo = DOMAIN op.memo \cup {input} /\ o.memo[input] = v
        /\ \A j \in DOMAIN op.memo : o.memo[j] = op.memo[j]
    BY <1>1, <1>2, <1>6, SetFacts
  <2>2. IsFiniteSet(DOMAIN o.memo) /\ Cardinality(DOMAIN o.memo) = Cardinality(DOMAIN op.memo) + 1
    BY <1>2, <1>3, <2>1, FS_AddElement
  <2>3. Cardinality(DOMAIN o.memo) <= MaxMemo /\ Short(input) /\ op.kind # "text"
        /\ Cardinality(DOMAIN op.memo) < MaxMemo
    BY <1>1, <1>4, <1>6, <2>2 DEF MayRemember
  <2>4. \A i \in DOMAIN o.memo : Short(i) /\ i \in DOMAIN known' /\ o.memo[i] = known'[i]
    BY <1>3, <2>1, <2>3 DEF Remembers
  <2>5. ASSUME NEW i \in Inputs, Short(i)
        PROVE  called'[i] <= 1 /\ (called'[i] = 1 => i \in DOMAIN o.memo)
    <3>1. called[i] <= 1 /\ (called[i] = 1 => i \in DOMAIN op.memo)
      BY <1>3, <2>3, <2>5 DEF Remembers
    <3> QED
      BY <1>2, <1>5, <2>1, <3>1
  <2> QED
    BY <2>2, <2>3, <2>4, <2>5 DEF Remembers
<1>7. CASE ~MayRemember(input)
  <2>1. o.memo = op.memo
    BY <1>7
  <2>2. \A i \in DOMAIN o.memo : Short(i) /\ i \in DOMAIN known' /\ o.memo[i] = known'[i]
    BY <1>3, <2>1 DEF Remembers
  <2>3. ASSUME o.kind # "text", Cardinality(DOMAIN o.memo) < MaxMemo, NEW i \in Inputs, Short(i)
        PROVE  called'[i] <= 1 /\ (called'[i] = 1 => i \in DOMAIN o.memo)
    <3>1. i # input
      BY <1>7, <2>1, <2>3 DEF MayRemember
    <3> QED
      BY <1>3, <1>5, <2>1, <2>3, <3>1 DEF Remembers
  <2> QED
    BY <1>3, <2>1, <2>2, <2>3 DEF Remembers
<1> QED
  BY <1>6, <1>7

\* A scan is charged and counted once, and changes no earlier answer.
LEMMA ScanFacts ==
  ASSUME OperationTypeOK, OperationInv, Working, NEW input \in Inputs,
         NEW v \in AnswersTo(input), CoreSees(input, v), NEW o, o = AfterScan(input, v)
  PROVE  Scanned(o, input, v)
<1>1. op \in Operation /\ known \in Answers /\ called \in [Inputs -> Nat] /\ op.budget \in Budget
  BY DEF OperationTypeOK, Answers, Operation
<1>2. /\ v \in ViewVerdicts
      /\ Len(input) = 1 => v \in Verdicts
      /\ input \in DOMAIN known => known[input] = v
      /\ Remembered(input) => input \in DOMAIN known
      /\ ~Remembered(input) => MayScan(input)
  BY AnswersFit
<1>3. AllScanned(op.staged) /\ Paid(op.budget) /\ Remembers(op) /\ AnswersAlone
  BY DEF OperationInv, Accounted
<1>4. CASE Remembered(input)
  <2>1. o = op /\ UNCHANGED <<known, called>>
    BY <1>4 DEF AfterScan, CoreSees
  <2>2. AnswersAlone'
    BY <1>3, <2>1 DEF AnswersAlone
  <2>3. Remembers(o)'
    BY <1>3, <2>1 DEF Remembers
  <2>4. AllScanned(o.staged)'
    BY <1>3, <2>1 DEF AllScanned, AsScanned, Afresh
  <2>5. IsFiniteSet(Calls') /\ Calls' = Calls /\ ViewCalls' = ViewCalls
    BY <1>3, <2>1 DEF Calls, ViewCalls, Paid
  <2> QED
    BY <1>1, <1>2, <1>3, <1>4, <2>1, <2>2, <2>3, <2>4, <2>5 DEF Scanned, Paid
<1>5. CASE ~Remembered(input)
  <2>1. known' = Set(known, input, v) /\ called' = [called EXCEPT ![input] = @ + 1]
    BY <1>5 DEF CoreSees
  <2>2. /\ known' \in Answers
        /\ \A i \in DOMAIN known : i \in DOMAIN known' /\ known'[i] = known[i]
        /\ input \in DOMAIN known' /\ known'[input] = v
    <3>1. /\ Set(known, input, v) \in Answers
          /\ DOMAIN Set(known, input, v) = DOMAIN known \cup {input}
          /\ Set(known, input, v)[input] = v
          /\ \A j \in DOMAIN known : j # input => Set(known, input, v)[j] = known[j]
      BY <1>1, <1>2, SetFacts
    <3> QED
      BY <1>2, <2>1, <3>1
  <2>a. DOMAIN known' = DOMAIN known \cup {input}
    BY <1>1, <1>2, <2>1, SetFacts
  <2>3. AnswersAlone'
    <3> SUFFICES ASSUME NEW t \in Texts, <<t>> \in DOMAIN known' PROVE known'[<<t>>] \in Verdicts
      BY DEF AnswersAlone
    <3>1. CASE <<t>> = input
      BY <1>2, <2>2, <3>1, InputKinds
    <3>2. CASE <<t>> # input
      <4>1. <<t>> \in DOMAIN known
        BY <2>a, <3>2
      <4> QED
        BY <1>3, <2>2, <4>1 DEF AnswersAlone
    <3> QED
      BY <3>1, <3>2
  <2>4. called' \in [Inputs -> Nat]
    BY <1>1, <2>1
  <2>5. /\ o \in Operation
        /\ o.kind = op.kind /\ o.at = op.at /\ o.part = op.part /\ o.isText = op.isText
        /\ o.key = op.key /\ o.text = op.text /\ o.alone = op.alone
        /\ o.leaves = op.leaves /\ o.keys = op.keys
        /\ o.findings = op.findings /\ o.staged = op.staged
        /\ o.budget = ChargedScan(op.budget, Bytes(input))
        /\ o.memo = IF MayRemember(input) THEN Set(op.memo, input, v) ELSE op.memo
    BY <1>1, <1>2, <1>5, AfterScanFields
  <2>6. Remembers(o)'
    BY <1>2, <1>5, <2>1, <2>2, <2>5, FreshScanRemembers
  <2>7. AllScanned(o.staged)'
    BY <1>3, <2>2, <2>5, AsScannedStays DEF AllScanned
  <2>8. FitsScan(op.budget, Bytes(input)) /\ Bytes(input) \in Nat /\ WithinLimits(op.budget)
    BY <1>2, <1>3, <1>5 DEF MayScan, Bytes, Paid
  <2>9. /\ o.budget.spent["scans"] = op.budget.spent["scans"] + 1
        /\ o.budget.spent["bytes"] = op.budget.spent["bytes"] + Bytes(input)
        /\ o.budget.spent["findings"] = op.budget.spent["findings"]
        /\ o.budget.spent["leaves"] = op.budget.spent["leaves"]
        /\ WithinLimits(o.budget) /\ ~o.budget.exhausted
    BY <1>1, <2>5, <2>8, FreshScanBudget
  <2>10. /\ IsFiniteSet(Calls') /\ Cardinality(Calls) \in Nat /\ Cardinality(ViewCalls) \in Nat
         /\ Cardinality(Calls') = Cardinality(Calls) + 1
         /\ Cardinality(ViewCalls') = Cardinality(ViewCalls) + IF Len(input) = 2 THEN 1 ELSE 0
    BY <1>1, <1>3, <2>1, CallsGain DEF Paid
  <2>11. Bytes(input) = 1 + 8 * (IF Len(input) = 2 THEN 1 ELSE 0)
    BY InputKinds DEF Bytes
  <2>12. /\ op.budget.spent["scans"] = Cardinality(Calls)
         /\ op.budget.spent["bytes"] = Cardinality(Calls) + 8 * Cardinality(ViewCalls)
    BY <1>3 DEF Paid
  <2>13. /\ o.budget.spent["scans"] = Cardinality(Calls')
         /\ o.budget.spent["bytes"] = Cardinality(Calls') + 8 * Cardinality(ViewCalls')
    BY <2>9, <2>10, <2>11, <2>12
  <2> QED
    BY <2>2, <2>3, <2>4, <2>5, <2>6, <2>7, <2>9, <2>10, <2>13 DEF Scanned
<1> QED
  BY <1>4, <1>5

-----------------------------------------------------------------------------
(* The findings of a leaf or of a key.                                     *)

\* A leaf that reports is listed once, and one that does not is not.
LEMMA ListedLeaf ==
  ASSUME NEW findings \in Seq(Occurrence), NEW leaves \in Seq(Leaf), emitted \in Seq(Occurrence),
         Listed(findings, leaves),
         NEW leaf \in Leaf, leaf.at.scope # "key",
         emitted' = emitted \o Occurrences(leaf.at, leaf.verdict)
  PROVE  Listed(findings \o Occurrences(leaf.at, leaf.verdict), Append(leaves, leaf))'
<1> DEFINE n == Len(leaves)
           m == Len(emitted)
           longer == Append(leaves, leaf)
<1>1. leaf.at \in Occurrence
  BY DEF Leaf
<1>2. /\ n \in Nat /\ m \in Nat /\ DOMAIN leaves = 1 .. n /\ DOMAIN longer = 1 .. n + 1
      /\ \A i \in 1 .. n : longer[i] = leaves[i]
      /\ longer[n + 1] = leaf
  BY AppendFacts
<1>3. DOMAIN emitted = 1 .. m
  OBVIOUS
<1> HIDE DEF n, m, longer
<1>4. /\ \A i \in 1 .. n : Spots(longer)[i] = Spots(leaves)[i]
      /\ Spots(longer)[n + 1] = leaf.at
  BY <1>2 DEF Spots
<1>5. Reported(leaves) \in SUBSET (1 .. n) /\ NotOfKeys(emitted) \in SUBSET (1 .. m)
  BY <1>2, <1>3 DEF Reported, NotOfKeys
<1>6. /\ Selects(findings, Spots(leaves), Reported(leaves))
      /\ Selects(findings, emitted, NotOfKeys(emitted))
  BY DEF Listed
<1>7. CASE leaf.verdict = "clean"
  <2>1. /\ emitted' = emitted
        /\ findings \o Occurrences(leaf.at, leaf.verdict) = findings
    BY <1>1, <1>7, OccurrencesFacts
  <2>2. Reported(longer) = Reported(leaves)
    BY <1>2, <1>7 DEF Reported
  <2>3. Selects(findings, Spots(longer), Reported(longer))
    BY <1>2, <1>4, <1>5, <1>6, <2>2, SelectsNoMore
  <2> QED
    BY <1>6, <2>1, <2>3 DEF Listed, longer
<1>8. CASE leaf.verdict # "clean"
  <2> DEFINE told == Append(emitted, leaf.at)
  <2>1. /\ emitted' = told
        /\ findings \o Occurrences(leaf.at, leaf.verdict) = Append(findings, leaf.at)
    BY <1>1, <1>8, OccurrencesFacts
  <2>2. Reported(longer) = Reported(leaves) \cup {n + 1}
    BY <1>2, <1>8 DEF Reported
  <2>3. Selects(Append(findings, leaf.at), Spots(longer), Reported(longer))
    <3>1. Selects(Append(findings, leaf.at), Spots(longer), Reported(leaves) \cup {n + 1})
      BY <1>1, <1>2, <1>4, <1>5, <1>6, SelectsNext, Zenon
    <3> QED
      BY <2>2, <3>1
  <2>4. /\ DOMAIN told = 1 .. m + 1 /\ told[m + 1] = leaf.at
        /\ \A i \in 1 .. m : told[i] = emitted[i]
    BY <1>1, AppendFacts DEF m
  <2> HIDE DEF told
  <2>5. NotOfKeys(told) = NotOfKeys(emitted) \cup {m + 1}
    BY <1>2, <1>3, <2>4 DEF NotOfKeys
  <2>6. Selects(Append(findings, leaf.at), told, NotOfKeys(told))
    <3>1. Selects(Append(findings, leaf.at), told, NotOfKeys(emitted) \cup {m + 1})
      BY <1>1, <1>2, <1>5, <1>6, <2>4, SelectsNext, Zenon
    <3> QED
      BY <2>5, <3>1
  <2> QED
    BY <2>1, <2>3, <2>6 DEF Listed, longer
<1> QED
  BY <1>7, <1>8

\* What a key reports is told and not listed.
LEMMA ListedKey ==
  ASSUME NEW findings, NEW leaves, emitted \in Seq(Occurrence), Listed(findings, leaves),
         NEW at \in Occurrence, at.scope = "key", NEW v,
         emitted' = emitted \o Occurrences(at, v)
  PROVE  Listed(findings, leaves)'
<1>1. CASE v = "clean"
  BY <1>1, OccurrencesFacts DEF Listed
<1>2. CASE v # "clean"
  <2> DEFINE m == Len(emitted)
             told == Append(emitted, at)
  <2>1. emitted' = told
    BY <1>2, OccurrencesFacts
  <2>2. /\ m \in Nat /\ DOMAIN emitted = 1 .. m /\ DOMAIN told = 1 .. m + 1 /\ told[m + 1] = at
        /\ \A i \in 1 .. m : told[i] = emitted[i]
    BY AppendFacts
  <2> HIDE DEF m, told
  <2>3. NotOfKeys(told) = NotOfKeys(emitted) /\ NotOfKeys(emitted) \in SUBSET (1 .. m)
    BY <2>2 DEF NotOfKeys
  <2>4. Selects(findings, emitted, NotOfKeys(emitted))
    BY DEF Listed
  <2>5. Selects(findings, told, NotOfKeys(told))
    BY <2>2, <2>3, <2>4, SelectsNoMore
  <2> QED
    BY <2>1, <2>5 DEF Listed
<1> QED
  BY <1>1, <1>2

\* A charge of findings that is not refused is spent.
LEMMA FindingsCharged ==
  ASSUME NEW b \in Budget, WithinLimits(b), NEW n \in Nat, NEW c, c = Charged(b, "findings", n)
  PROVE  /\ c \in Budget
         /\ ~c.exhausted =>
              /\ c.spent["findings"] = b.spent["findings"] + n
              /\ c.spent["scans"] = b.spent["scans"]
              /\ c.spent["bytes"] = b.spent["bytes"]
              /\ c.spent["leaves"] = b.spent["leaves"]
              /\ WithinLimits(c)
<1>1. "findings" \in Meters /\ "scans" \in Meters /\ "bytes" \in Meters /\ "leaves" \in Meters
  BY DEF Meters
<1>2. /\ c \in Budget
      /\ \A m \in Meters :
           c.spent[m] = IF m = "findings" /\ Fits(b, "findings", n) THEN b.spent[m] + n ELSE b.spent[m]
  BY <1>1, ChargedMeter
<1>3. WithinLimits(c)
  BY <1>1, ChargesStayWithinLimits
<1>4. ~c.exhausted => Fits(b, "findings", n)
  <2> SUFFICES ASSUME ~Fits(b, "findings", n) PROVE c.exhausted = TRUE
    OBVIOUS
  <2>1. c = [b EXCEPT !.exhausted = TRUE]
    BY DEF Charged, Refused
  <2> QED
    BY <2>1 DEF Budget
<1> QED
  BY <1>1, <1>2, <1>3, <1>4

-----------------------------------------------------------------------------
(* The scan actions.                                                       *)

\* The leaf in hand, as it is staged.
LeafOf(o, v) ==
  [visit |-> o.budget.spent["leaves"], at |-> LeafOccurrence(o),
   text |-> o.text, key |-> o.key, verdict |-> v]

\* The leaf in hand is one.
LEMMA LeafOfType ==
  ASSUME NEW o \in Operation, NEW v \in Verdicts, o.text \in Texts, ~o.isText => o.leaves > 0
  PROVE  /\ LeafOf(o, v) \in Leaf
         /\ LeafOf(o, v).visit = o.budget.spent["leaves"]
         /\ LeafOf(o, v).at.scope # "key"
         /\ LeafOf(o, v).text = o.text /\ LeafOf(o, v).key = o.key
         /\ LeafOf(o, v).verdict = v
         /\ LeafOf(o, v).at = LeafOccurrence(o)
<1>1. o.part \in Nat /\ o.isText \in BOOLEAN /\ o.leaves \in Nat /\ o.key \in Keys
      /\ o.budget.spent["leaves"] \in Nat
  BY DEF Operation, Budget, Meters
<1>2. CASE o.isText
  <2>1. LeafOccurrence(o) = [part |-> o.part, scope |-> "text", ordinal |-> 0]
    BY <1>2 DEF LeafOccurrence
  <2>2. LeafOccurrence(o) \in Occurrence /\ LeafOccurrence(o).scope # "key"
    BY <1>1, <2>1 DEF Occurrence
  <2> QED
    BY <1>1, <2>2 DEF LeafOf, Leaf
<1>3. CASE ~o.isText
  <2> DEFINE ordinal == o.leaves - 1
  <2>1. LeafOccurrence(o) = [part |-> o.part, scope |-> "leaf", ordinal |-> ordinal]
    BY <1>3 DEF LeafOccurrence
  <2>2. ordinal \in Nat
    BY <1>1, <1>3
  <2> HIDE DEF ordinal
  <2>3. LeafOccurrence(o) \in Occurrence /\ LeafOccurrence(o).scope # "key"
    BY <1>1, <2>1, <2>2 DEF Occurrence
  <2> QED
    BY <1>1, <2>3 DEF LeafOf, Leaf
<1> QED
  BY <1>2, <1>3

\* Where a walk is after a node.
WalkEnds == {"part end", "walking"}

\* The operation after a leaf was staged.
AfterLeaf(o, budget, findings, leaf) ==
  Resumed([[o EXCEPT !.budget = budget] EXCEPT
    !.findings = findings, !.staged = Append(@, leaf),
    !.text = NoKey, !.key = NoKey, !.alone = "clean"])

\* What staging a leaf does to the operation.
LEMMA StagedFields ==
  ASSUME NEW o \in Operation, NEW budget \in Budget, NEW findings \in Seq(Occurrence),
         NEW leaf \in Leaf
  PROVE  LET s == AfterLeaf(o, budget, findings, leaf)
         IN  /\ s \in Operation
             /\ s.at \in WalkEnds /\ (s.isText => s.at # "walking")
             /\ s.kind = o.kind /\ s.isText = o.isText /\ s.key = NoKey
             /\ s.memo = o.memo /\ s.budget = budget
             /\ s.findings = findings
             /\ s.staged = Append(o.staged, leaf)
<1> DEFINE staged == Append(o.staged, leaf)
           clean == "clean"
           base == [[o EXCEPT !.budget = budget] EXCEPT
                      !.findings = findings, !.staged = staged,
                      !.text = NoKey, !.key = NoKey, !.alone = clean]
<1>2. o.staged \in Seq(Leaf)
  BY DEF Operation
<1>3. staged \in Seq(Leaf) /\ clean \in Verdicts /\ NoKey \in Keys
  BY <1>2, AppendFacts DEF Verdicts, Keys
<1>4. AfterLeaf(o, budget, findings, leaf) = Resumed(base)
  BY DEF AfterLeaf, Operation
<1> HIDE DEF staged, clean
<1>5. base \in Operation
  BY <1>3 DEF Operation
<1>6. /\ base.kind = o.kind /\ base.isText = o.isText /\ base.key = NoKey
      /\ base.memo = o.memo /\ base.budget = budget
      /\ base.findings = findings /\ base.staged = staged
  BY DEF Operation
<1> HIDE DEF base
<1> QED
  BY <1>4, <1>5, <1>6, ResumedFields DEF staged, WalkEnds

\* A leaf's verdict ends the operation, or the leaf is staged as the core would have it.
LEMMA Settling ==
  ASSUME OperationTypeOK, OperationInv, op.at \in {"leaf", "view"},
         NEW input, NEW v, NEW o, Scanned(o, input, v),
         NEW verdict \in Verdicts, Settle(o, verdict),
         verdict # "block" => AsScanned(LeafOf(o, verdict))',
         UNCHANGED aborted
  PROVE  Kept
<1>0. PICK leaf, budget, reported :
        /\ leaf = LeafOf(o, verdict)
        /\ budget = Charged(o.budget, "findings", Charges(verdict))
        /\ reported = Occurrences(LeafOccurrence(o), verdict)
  OBVIOUS
<1>1. /\ o \in Operation /\ o.at = op.at /\ o.text = op.text /\ o.key = op.key
      /\ o.isText = op.isText /\ o.leaves = op.leaves
      /\ o.findings = op.findings /\ o.staged = op.staged /\ o.kind = op.kind
      /\ known' \in Answers /\ AnswersAlone' /\ called' \in [Inputs -> Nat]
      /\ WithinLimits(o.budget) /\ ~o.budget.exhausted
  BY DEF Scanned
<1>2. /\ Working /\ op.text \in Texts /\ (~op.isText => op.leaves > 0)
      /\ Accounted(op) /\ Numbered(op)
  BY DEF Working, OperationInv, Placed
<1>3. /\ leaf \in Leaf /\ leaf.visit = o.budget.spent["leaves"] /\ leaf.at.scope # "key"
      /\ leaf.at = LeafOccurrence(o) /\ leaf.verdict = verdict
  BY <1>0, <1>1, <1>2, LeafOfType
<1>4. /\ emitted \in Seq(Occurrence) /\ aborted' \in BOOLEAN
      /\ outcome \in Outcome
      /\ o.findings \in Seq(Occurrence) /\ o.staged \in Seq(Leaf) /\ o.budget \in Budget
  BY <1>1 DEF OperationTypeOK, Operation
<1>5. leaf.at \in Occurrence /\ Charges(verdict) \in Nat
  BY <1>3 DEF Leaf, Charges, Reports
<1>6. /\ budget \in Budget
      /\ ~budget.exhausted =>
           /\ budget.spent["findings"] = o.budget.spent["findings"] + Charges(verdict)
           /\ budget.spent["scans"] = o.budget.spent["scans"]
           /\ budget.spent["bytes"] = o.budget.spent["bytes"]
           /\ budget.spent["leaves"] = o.budget.spent["leaves"]
           /\ WithinLimits(budget)
  BY <1>0, <1>1, <1>4, <1>5, FindingsCharged
<1>7. [o EXCEPT !.budget = Charged(@, "findings", Charges(verdict))] = [o EXCEPT !.budget = budget]
      /\ [o EXCEPT !.budget = budget].budget = budget
  BY <1>0, <1>1 DEF Operation
<1>8. CASE budget.exhausted
  <2>1. Refuse("limit_exceeded") /\ emitted' = emitted
    BY <1>7, <1>8 DEF Settle
  <2> QED
    BY <1>1, <1>4, <2>1, Refusing DEF Outcomes, CoreFailures
<1>9. CASE ~budget.exhausted
  <2>1. /\ emitted' = emitted \o reported
        /\ verdict = "block" => Refuse("policy")
        /\ verdict # "block" => op' = AfterLeaf(o, budget, o.findings \o reported, leaf) /\ outcome' = outcome
    BY <1>0, <1>7, <1>9 DEF Settle, AfterLeaf, LeafOf
  <2>2. emitted' \in Seq(Occurrence) /\ Len(emitted') = Len(emitted) + Charges(verdict)
        /\ o.findings \o reported \in Seq(Occurrence)
    BY <1>0, <1>3, <1>4, <1>5, <2>1, OccurrencesFacts
  <2>3. CASE verdict = "block"
    BY <1>1, <1>4, <2>1, <2>2, <2>3, Refusing DEF Outcomes
  <2>4. CASE verdict # "block"
    <3>1. /\ op' \in Operation /\ op'.at \in WalkEnds /\ (op'.isText => op'.at # "walking")
          /\ op'.kind = o.kind /\ op'.key = NoKey
          /\ op'.memo = o.memo /\ op'.budget = budget
          /\ op'.findings = o.findings \o reported
          /\ op'.staged = Append(o.staged, leaf)
      <4>1. op' = AfterLeaf(o, budget, o.findings \o reported, leaf)
        BY <2>1, <2>4
      <4>2. o \in Operation /\ leaf \in Leaf /\ budget \in Budget
            /\ o.findings \o reported \in Seq(Occurrence)
        BY <1>1, <1>3, <1>6, <2>2
      <4>3. PICK findings : findings = o.findings \o reported
        OBVIOUS
      <4>4. findings \in Seq(Occurrence) /\ op' = AfterLeaf(o, budget, findings, leaf)
        BY <4>1, <4>2, <4>3
      <4>5. /\ op' \in Operation /\ op'.at \in WalkEnds /\ (op'.isText => op'.at # "walking")
            /\ op'.kind = o.kind /\ op'.key = NoKey
            /\ op'.memo = o.memo /\ op'.budget = budget
            /\ op'.findings = findings /\ op'.staged = Append(o.staged, leaf)
        BY <1>1, <1>3, <1>6, <4>4, StagedFields
      <4> QED
        BY <4>3, <4>5
    <3>a. op'.budget = budget /\ op'.staged = Append(o.staged, leaf)
      BY <3>1
    <3>2. Listed(op.findings, op.staged)'
      <4>1. Listed(o.findings, o.staged)
        BY <1>1, <1>2 DEF Accounted
      <4>2. reported = Occurrences(leaf.at, leaf.verdict)
        BY <1>0, <1>3
      <4>3. Listed(o.findings \o reported, Append(o.staged, leaf))'
        BY <1>3, <1>4, <2>1, <4>1, <4>2, ListedLeaf
      <4> QED
        BY <3>1, <4>3 DEF Listed
    <3>3. AllScanned(op.staged)'
      <4>1. AllScanned(o.staged)' /\ AsScanned(leaf)'
        BY <1>0, <2>4 DEF Scanned
      <4>2. \A i \in DOMAIN op'.staged : op'.staged[i] = leaf \/ \E j \in DOMAIN o.staged : op'.staged[i] = o.staged[j]
        <5>1. /\ DOMAIN Append(o.staged, leaf) = 1 .. Len(o.staged) + 1
              /\ DOMAIN o.staged = 1 .. Len(o.staged) /\ Len(o.staged) \in Nat
              /\ \A i \in 1 .. Len(o.staged) : Append(o.staged, leaf)[i] = o.staged[i]
              /\ Append(o.staged, leaf)[Len(o.staged) + 1] = leaf
          BY <1>3, <1>4, AppendFacts
        <5> QED
          BY <3>a, <5>1
      <4> QED
        BY <4>1, <4>2 DEF AllScanned
    <3>4. Remembers(op)'
      BY <3>1 DEF Scanned, Remembers
    <3>5. Paid(op.budget)'
      <4>1. op.budget.spent["findings"] = Len(emitted)
        BY <1>2 DEF Accounted, Paid
      <4> QED
        BY <1>6, <1>9, <2>2, <3>1, <4>1 DEF Scanned, Paid
    <3>6. Numbered(op)'
      <4>1. /\ \A i \in DOMAIN op.staged : op.staged[i].visit = i
            /\ op.budget.spent["leaves"] = Len(op.staged) + 1
        BY <1>2 DEF Numbered
      <4>2. leaf.visit = Len(o.staged) + 1 /\ budget.spent["leaves"] = Len(o.staged) + 1
        BY <1>1, <1>3, <1>6, <1>9, <4>1 DEF Scanned
      <4>3. /\ Len(op'.staged) = Len(o.staged) + 1
            /\ DOMAIN op'.staged = 1 .. Len(o.staged) + 1 /\ DOMAIN o.staged = 1 .. Len(o.staged)
            /\ \A i \in 1 .. Len(o.staged) : op'.staged[i] = o.staged[i]
            /\ op'.staged[Len(o.staged) + 1] = leaf /\ Len(o.staged) \in Nat
        <5>1. /\ DOMAIN Append(o.staged, leaf) = 1 .. Len(o.staged) + 1
              /\ Len(Append(o.staged, leaf)) = Len(o.staged) + 1
              /\ DOMAIN o.staged = 1 .. Len(o.staged) /\ Len(o.staged) \in Nat
              /\ \A i \in 1 .. Len(o.staged) : Append(o.staged, leaf)[i] = o.staged[i]
              /\ Append(o.staged, leaf)[Len(o.staged) + 1] = leaf
          BY <1>3, <1>4, AppendFacts
        <5> QED
          BY <3>a, <5>1
      <4>4. \A i \in DOMAIN op'.staged : op'.staged[i].visit = i
        BY <1>1, <4>1, <4>2, <4>3
      <4>5. op'.budget.spent["leaves"] = Len(op'.staged) + 0
        <5>1. op'.budget.spent["leaves"] = Len(op'.staged) /\ Len(op'.staged) \in Nat
          BY <3>a, <4>2, <4>3
        <5> QED
          BY <5>1
      <4> QED
        BY <3>1, <4>4, <4>5 DEF Numbered, WalkEnds
    <3>7. Placed(op)'
      BY <3>1 DEF Placed, WalkEnds
    <3>8. Accounted(op)'
      BY <3>2, <3>3, <3>4, <3>5 DEF Accounted
    <3>9. outcome'.is = "none" /\ outcome'.leaves = <<>> /\ outcome'.findings = <<>> /\ outcome' \in Outcome
      BY <1>2, <1>4, <2>1, <2>4 DEF OperationInv, Ended
    <3>10. Working' /\ Ended'
      BY <3>1, <3>9 DEF Working, Ended, WalkEnds
    <3>11. OperationTypeOK'
      BY <1>1, <1>4, <2>2, <3>1, <3>9 DEF OperationTypeOK, Answers
    <3>12. Len(op'.staged) = Len(op.staged) + 1 /\ outcome' = outcome
      BY <1>1, <1>3, <1>4, <2>1, <2>4, <3>a, AppendFacts
    <3> QED
      BY <1>1, <3>6, <3>7, <3>8, <3>9, <3>10, <3>11, <3>12 DEF OperationInv, Kept, Progress
  <2> QED
    BY <2>3, <2>4
<1> QED
  BY <1>8, <1>9

\* What was accounted for before a scan is after it, while the host is not told
\* of anything.
LEMMA ScannedAccounted ==
  ASSUME OperationTypeOK, OperationInv, Working,
         NEW input, NEW v, NEW o, Scanned(o, input, v), UNCHANGED emitted
  PROVE  Accounted(o)'
<1>1. Accounted(op)
  BY DEF OperationInv
<1>2. Listed(o.findings, o.staged)'
  BY <1>1 DEF Scanned, Accounted, Listed
<1>3. Paid(o.budget)'
  BY <1>1 DEF Scanned, Accounted, Paid
<1> QED
  BY <1>2, <1>3 DEF Scanned, Accounted

\* The scan of a leaf alone.
LEMMA ScanAloneKeeps ==
  ASSUME OperationTypeOK, OperationInv, ScanAlone
  PROVE  Kept
<1>1. op.at = "leaf" /\ Working /\ UNCHANGED aborted
  BY DEF ScanAlone, Working
<1>2. Placed(op) /\ op.text \in Texts /\ Numbered(op) /\ op \in Operation
  BY <1>1 DEF OperationInv, Placed, OperationTypeOK
<1>3. PICK input, o, v :
        /\ input = <<op.text>> /\ v \in AnswersTo(input) /\ o = AfterScan(input, v)
        /\ CoreSees(input, v)
        /\ IF NeedsView(v)
           THEN op' = [o EXCEPT !.at = "view", !.alone = v] /\ UNCHANGED <<outcome, emitted>>
           ELSE Settle(o, v)
  BY DEF ScanAlone
<1>4. input \in Inputs /\ Len(input) = 1
  BY <1>2, <1>3, InputKinds
<1>5. Scanned(o, input, v) /\ v \in Verdicts
  BY <1>1, <1>3, <1>4, ScanFacts, AnswersFit
<1>6. /\ o \in Operation /\ o.text = op.text /\ o.key = op.key /\ o.isText = op.isText
      /\ o.leaves = op.leaves /\ o.staged = op.staged
      /\ o.budget.spent["leaves"] = op.budget.spent["leaves"]
      /\ WithinLimits(o.budget) /\ ~o.budget.exhausted
      /\ known' \in Answers /\ AnswersAlone' /\ called' \in [Inputs -> Nat]
      /\ \A i \in DOMAIN known : i \in DOMAIN known' /\ known'[i] = known[i]
      /\ <<op.text>> \in DOMAIN known' /\ known'[<<op.text>>] = v
  BY <1>3, <1>5 DEF Scanned
<1>7. op.key # NoKey => <<op.key>> \in DOMAIN known' /\ known'[<<op.key>>] \in {"clean", "warn"}
  BY <1>2, <1>6 DEF Placed
<1>8. CASE NeedsView(v)
  <2>1. op' = [o EXCEPT !.at = "view", !.alone = v] /\ UNCHANGED <<outcome, emitted>>
    BY <1>3, <1>8
  <2> DEFINE view == "view"
  <2>2. view \in Places
    BY DEF Places
  <2>3. op' = [o EXCEPT !.at = view, !.alone = v]
    BY <2>1
  <2> HIDE DEF view
  <2>4. op' \in Operation
    BY <1>5, <1>6, <2>2, <2>3 DEF Operation
  <2>5. /\ op'.at = view /\ op'.alone = v /\ op'.kind = o.kind /\ op'.memo = o.memo
        /\ op'.staged = o.staged /\ op'.findings = o.findings /\ op'.budget = o.budget
        /\ op'.text = o.text /\ op'.key = o.key /\ op'.isText = o.isText
        /\ op'.leaves = o.leaves
    BY <1>6, <2>3 DEF Operation
  <2>6. Accounted(o)'
    BY <1>1, <1>5, <2>1, ScannedAccounted
  <2>7. Placed(op)'
    BY <1>1, <1>2, <1>6, <1>7, <1>8, <2>5 DEF Placed, NeedsView, view
  <2>8. Numbered(op)'
    BY <1>1, <1>2, <1>6, <2>5 DEF Numbered, view
  <2>9. /\ outcome' \in Outcome /\ outcome'.is = "none" /\ outcome' = outcome
        /\ outcome'.leaves = <<>> /\ outcome'.findings = <<>>
        /\ emitted' \in Seq(Occurrence) /\ aborted' \in BOOLEAN
    BY <1>1, <2>1 DEF OperationTypeOK, OperationInv, Ended
  <2> QED
    BY <1>6, <2>4, <2>5, <2>6, <2>7, <2>8, <2>9, Going DEF view
<1>9. CASE ~NeedsView(v)
  <2>1. Settle(o, v)
    BY <1>3, <1>9
  <2>2. op.key = NoKey \/ RedactsOrBlocks(v)
    BY <1>9 DEF NeedsView
  <2>3. v # "block" => AsScanned(LeafOf(o, v))'
    <3>1. LeafOf(o, v).text = op.text /\ LeafOf(o, v).key = op.key /\ LeafOf(o, v).verdict = v
      BY <1>6 DEF LeafOf
    <3>2. v # "outside"
      BY <1>5 DEF Verdicts
    <3> HIDE DEF LeafOf
    <3> QED
      BY <1>6, <1>7, <2>2, <3>1, <3>2 DEF AsScanned, Afresh
  <2> QED
    BY <1>1, <1>5, <2>1, <2>3, Settling
<1> QED
  BY <1>8, <1>9

\* The scan of a leaf in its view.
LEMMA ScanViewKeeps ==
  ASSUME OperationTypeOK, OperationInv, ScanView
  PROVE  Kept
<1>1. op.at = "view" /\ Working /\ UNCHANGED aborted
  BY DEF ScanView, Working
<1>2. /\ Placed(op) /\ op.text \in Texts /\ op \in Operation
      /\ op.key # NoKey /\ <<op.text>> \in DOMAIN known
      /\ op.alone = known[<<op.text>>] /\ ~RedactsOrBlocks(op.alone)
      /\ <<op.key>> \in DOMAIN known /\ known[<<op.key>>] \in {"clean", "warn"}
  BY <1>1 DEF OperationInv, Placed, OperationTypeOK
<1>3. op.key \in Texts /\ op.alone \in Verdicts
  BY <1>2 DEF Operation, Keys
<1>4. PICK input, o, v :
        /\ input = <<op.key, op.text>> /\ v \in AnswersTo(input) /\ o = AfterScan(input, v)
        /\ CoreSees(input, v)
        /\ IF v = "outside"
           THEN Refuse("policy") /\ UNCHANGED emitted
           ELSE Settle(o, LeafVerdict(op.alone, v))
  BY <1>1 DEF ScanView, ToScan
<1>5. input \in Inputs
  BY <1>2, <1>3, <1>4, InputKinds
<1>6. Scanned(o, input, v) /\ v \in ViewVerdicts
  BY <1>1, <1>4, <1>5, ScanFacts, AnswersFit
<1>7. /\ o \in Operation /\ o.text = op.text /\ o.key = op.key
      /\ known' \in Answers /\ AnswersAlone' /\ called' \in [Inputs -> Nat]
      /\ \A i \in DOMAIN known : i \in DOMAIN known' /\ known'[i] = known[i]
      /\ <<op.key, op.text>> \in DOMAIN known' /\ known'[<<op.key, op.text>>] = v
  BY <1>4, <1>6 DEF Scanned
<1>8. CASE v = "outside"
  <2>1. Refuse("policy") /\ emitted' \in Seq(Occurrence) /\ aborted' \in BOOLEAN
    BY <1>1, <1>4, <1>8 DEF OperationTypeOK
  <2> QED
    BY <1>7, <2>1, Refusing DEF Outcomes
<1>9. CASE v # "outside"
  <2>1. PICK verdict : verdict = LeafVerdict(op.alone, v)
    OBVIOUS
  <2>2. verdict \in Verdicts /\ (v = "block" => verdict = "block")
    BY <1>3, <1>6, <1>9, <2>1 DEF LeafVerdict, ViewVerdicts, RedactsOrBlocks
  <2>3. verdict # "block" => AsScanned(LeafOf(o, verdict))'
    <3>1. /\ LeafOf(o, verdict).text = op.text /\ LeafOf(o, verdict).key = op.key
          /\ LeafOf(o, verdict).verdict = verdict
      BY <1>7 DEF LeafOf
    <3>2. verdict # "outside"
      BY <2>2 DEF Verdicts
    <3>3. /\ <<op.text>> \in DOMAIN known' /\ known'[<<op.text>>] = op.alone
          /\ <<op.key>> \in DOMAIN known' /\ known'[<<op.key>>] \in {"clean", "warn"}
      BY <1>2, <1>7
    <3> QED
      BY <1>2, <1>7, <1>9, <2>1, <2>2, <3>1, <3>2, <3>3 DEF AsScanned, Afresh
  <2>4. Settle(o, verdict)
    BY <1>4, <1>9, <2>1
  <2> QED
    BY <1>1, <1>6, <2>2, <2>3, <2>4, Settling
<1> QED
  BY <1>8, <1>9

\* The scan of a key.
LEMMA ScanKeyKeeps ==
  ASSUME OperationTypeOK, OperationInv, ScanKey
  PROVE  Kept
<1>1. op.at = "key" /\ Working /\ UNCHANGED aborted
  BY DEF ScanKey, Working
<1>2. /\ Placed(op) /\ op.text \in Texts /\ Numbered(op) /\ op \in Operation
      /\ op.keys > 0 /\ ~op.isText /\ Accounted(op)
  BY <1>1 DEF OperationInv, Placed, OperationTypeOK
<1>3. PICK input, o, v, budget, at :
        /\ input = <<op.text>> /\ v \in AnswersTo(input) /\ o = AfterScan(input, v)
        /\ budget = Charged(o.budget, "findings", Charges(v)) /\ at = KeyOccurrence(o)
        /\ CoreSees(input, v)
        /\ LET charged == [o EXCEPT !.budget = Charged(@, "findings", Charges(v))]
           IN  IF charged.budget.exhausted
               THEN Refuse("limit_exceeded") /\ UNCHANGED emitted
               ELSE /\ emitted' = emitted \o Occurrences(at, v)
                    /\ IF KeyMustGo(v) THEN Refuse("policy")
                       ELSE op' = [charged EXCEPT !.at = "walking", !.key = op.text, !.text = NoKey]
                            /\ UNCHANGED outcome
  BY DEF ScanKey
<1>4. input \in Inputs /\ Len(input) = 1
  BY <1>2, <1>3, InputKinds
<1>5. Scanned(o, input, v) /\ v \in Verdicts
  BY <1>1, <1>3, <1>4, ScanFacts, AnswersFit
<1>6. /\ o \in Operation /\ o.part = op.part /\ o.keys = op.keys /\ o.isText = op.isText
      /\ o.findings = op.findings /\ o.staged = op.staged
      /\ o.budget.spent["findings"] = op.budget.spent["findings"]
      /\ o.budget.spent["leaves"] = op.budget.spent["leaves"]
      /\ WithinLimits(o.budget) /\ ~o.budget.exhausted
      /\ known' \in Answers /\ AnswersAlone' /\ called' \in [Inputs -> Nat]
      /\ <<op.text>> \in DOMAIN known' /\ known'[<<op.text>>] = v
  BY <1>3, <1>5 DEF Scanned
<1>7. emitted \in Seq(Occurrence) /\ aborted' \in BOOLEAN /\ outcome \in Outcome /\ o.budget \in Budget
  BY <1>1, <1>6 DEF OperationTypeOK, Operation
<1>8. at \in Occurrence /\ at.scope = "key" /\ Charges(v) \in Nat
  <2> DEFINE ordinal == o.keys - 1
  <2>1. ordinal \in Nat /\ o.part \in Nat
    BY <1>2, <1>6 DEF Operation
  <2>2. at = [part |-> o.part, scope |-> "key", ordinal |-> ordinal]
    BY <1>3 DEF KeyOccurrence
  <2> HIDE DEF ordinal
  <2> QED
    BY <2>1, <2>2 DEF Occurrence, Charges, Reports
<1>9. /\ budget \in Budget
      /\ ~budget.exhausted =>
           /\ budget.spent["findings"] = o.budget.spent["findings"] + Charges(v)
           /\ budget.spent["scans"] = o.budget.spent["scans"]
           /\ budget.spent["bytes"] = o.budget.spent["bytes"]
           /\ budget.spent["leaves"] = o.budget.spent["leaves"]
           /\ WithinLimits(budget)
  BY <1>3, <1>6, <1>7, <1>8, FindingsCharged
<1>10. PICK charged : charged = [o EXCEPT !.budget = budget]
  OBVIOUS
<1>11. /\ charged \in Operation /\ charged.budget = budget
       /\ charged.kind = o.kind /\ charged.memo = o.memo /\ charged.isText = o.isText
       /\ charged.findings = o.findings /\ charged.staged = o.staged
  BY <1>6, <1>9, <1>10 DEF Operation
<1>12. charged = [o EXCEPT !.budget = Charged(@, "findings", Charges(v))]
  BY <1>3, <1>6, <1>10 DEF Operation
<1>13. CASE budget.exhausted
  <2>1. Refuse("limit_exceeded") /\ emitted' = emitted
    BY <1>3, <1>11, <1>12, <1>13
  <2> QED
    BY <1>6, <1>7, <2>1, Refusing DEF Outcomes, CoreFailures
<1>14. CASE ~budget.exhausted
  <2>1. /\ emitted' = emitted \o Occurrences(at, v)
        /\ KeyMustGo(v) => Refuse("policy")
        /\ ~KeyMustGo(v) =>
             op' = [charged EXCEPT !.at = "walking", !.key = op.text, !.text = NoKey] /\ outcome' = outcome
    BY <1>3, <1>11, <1>12, <1>14
  <2>2. emitted' \in Seq(Occurrence) /\ Len(emitted') = Len(emitted) + Charges(v)
    BY <1>7, <1>8, <2>1, OccurrencesFacts
  <2>3. CASE KeyMustGo(v)
    BY <1>6, <1>7, <2>1, <2>2, <2>3, Refusing DEF Outcomes
  <2>4. CASE ~KeyMustGo(v)
    <3> DEFINE walking == "walking"
    <3>1. op' = [charged EXCEPT !.at = walking, !.key = op.text, !.text = NoKey]
          /\ outcome' = outcome
      BY <2>1, <2>4
    <3>2. walking \in Places /\ op.text \in Keys /\ NoKey \in Keys
      BY <1>2 DEF Places, Keys
    <3> HIDE DEF walking
    <3>3. op' \in Operation
      BY <1>11, <3>1, <3>2 DEF Operation
    <3>4. /\ op'.at = walking /\ op'.kind = charged.kind /\ op'.memo = charged.memo
          /\ op'.staged = charged.staged /\ op'.findings = charged.findings
          /\ op'.budget = charged.budget /\ op'.key = op.text /\ op'.isText = charged.isText
      BY <1>11, <3>1 DEF Operation
    <3>5. Accounted(charged)'
      <4>1. Listed(charged.findings, charged.staged)'
        BY <1>2, <1>6, <1>7, <1>8, <1>11, <2>1, ListedKey DEF Accounted
      <4>2. Paid(charged.budget)'
        <5>1. op.budget.spent["findings"] = Len(emitted)
          BY <1>2 DEF Accounted, Paid
        <5> QED
          BY <1>5, <1>6, <1>9, <1>11, <1>14, <2>2, <5>1 DEF Scanned, Paid
      <4>3. Remembers(charged)' /\ AllScanned(charged.staged)'
        BY <1>5, <1>11 DEF Scanned, Remembers, AllScanned
      <4> QED
        BY <4>1, <4>2, <4>3 DEF Accounted
    <3>6. Placed(op)'
      <4>1. v \in {"clean", "warn"}
        BY <1>5, <2>4 DEF KeyMustGo, RedactsOrBlocks, Verdicts
      <4> QED
        BY <1>2, <1>6, <1>11, <3>4, <4>1 DEF Placed, walking
    <3>7. Numbered(op)'
      BY <1>1, <1>2, <1>6, <1>9, <1>11, <1>14, <3>4 DEF Numbered, walking
    <3>8. /\ outcome' \in Outcome /\ outcome'.is = "none" /\ outcome' = outcome
          /\ outcome'.leaves = <<>> /\ outcome'.findings = <<>>
      BY <1>1, <1>7, <3>1 DEF OperationInv, Ended
    <3>9. op'.at # "idle"
      BY <3>4 DEF walking
    <3> QED
      BY <1>6, <1>7, <1>9, <1>11, <1>14, <2>2, <3>3, <3>4, <3>5, <3>6, <3>7, <3>8, <3>9, Going
  <2> QED
    BY <2>3, <2>4
<1> QED
  BY <1>13, <1>14

\* Without room for the scan, or without an answer of the core, nothing is left.
LEMMA ScanFailsKeeps ==
  ASSUME OperationTypeOK, OperationInv, ScanRefused \/ CoreFails
  PROVE  Kept
<1>1. PICK reason \in CoreFailures : Refuse(reason)
  BY DEF ScanRefused, CoreFails, CoreFailures
<1>2. UNCHANGED <<known, emitted, aborted>>
  BY DEF ScanRefused, CoreFails
<1>3. known' \in Answers /\ AnswersAlone' /\ emitted' \in Seq(Occurrence) /\ aborted' \in BOOLEAN
  BY <1>2 DEF OperationTypeOK, OperationInv, AnswersAlone, Answers
<1>4. called' \in [Inputs -> Nat]
  BY DEF ScanRefused, CoreFails, OperationTypeOK
<1>5. reason \in Outcomes \ {"none", "ok"}
  BY DEF Outcomes, CoreFailures
<1> QED
  BY <1>1, <1>3, <1>4, <1>5, Refusing

-----------------------------------------------------------------------------
(* The steps of the walk.                                                  *)

\* A step that calls neither the core nor the host, and what it may rest on.
LEMMA Apart ==
  ASSUME OperationTypeOK, OperationInv, UNCHANGED <<known, called, emitted, aborted>>
  PROVE  /\ known' \in Answers /\ AnswersAlone' /\ called' \in [Inputs -> Nat]
         /\ emitted' \in Seq(Occurrence) /\ aborted' \in BOOLEAN
BY DEF OperationTypeOK, OperationInv, AnswersAlone, Answers

\* Such a step, when it refuses.
LEMMA RefusingApart ==
  ASSUME OperationTypeOK, OperationInv, UNCHANGED <<known, called, emitted, aborted>>,
         \E reason \in {"limit_exceeded", "unsupported_value", "aborted"} : Refuse(reason)
  PROVE  Kept
<1>1. PICK reason \in {"limit_exceeded", "unsupported_value", "aborted"} : Refuse(reason)
  OBVIOUS
<1>2. reason \in Outcomes \ {"none", "ok"}
  BY DEF Outcomes, CoreFailures
<1> QED
  BY <1>1, <1>2, Apart, Refusing

\* Such a step, when it goes on.
LEMMA GoingApart ==
  ASSUME OperationTypeOK, OperationInv, UNCHANGED <<known, called, emitted, aborted, outcome>>,
         NEW o \in Operation, Accounted(o), outcome.is = "none", o.staged = op.staged,
         op' \in Operation, op'.at # "idle",
         op'.kind = o.kind, op'.memo = o.memo,
         op'.staged = o.staged, op'.findings = o.findings,
         op'.budget.spent["scans"] = o.budget.spent["scans"],
         op'.budget.spent["bytes"] = o.budget.spent["bytes"],
         op'.budget.spent["findings"] = o.budget.spent["findings"],
         WithinLimits(op'.budget), ~op'.budget.exhausted,
         Placed(op)', Numbered(op)'
  PROVE  Kept
<1>1. Accounted(o)'
  BY AccountedStays
<1>2. /\ outcome' \in Outcome /\ outcome'.is = "none"
      /\ outcome'.leaves = <<>> /\ outcome'.findings = <<>>
  BY DEF OperationTypeOK, OperationInv, Ended
<1> QED
  BY <1>1, <1>2, Apart, Going

\* What the walk has in hand.
LEMMA WalkingFacts ==
  ASSUME OperationTypeOK, OperationInv, op.at = "walking"
  PROVE  /\ op \in Operation /\ Working /\ outcome.is = "none"
         /\ op.budget \in Budget /\ WithinLimits(op.budget)
         /\ ~op.budget.exhausted /\ Accounted(op)
         /\ op.isText = FALSE
         /\ op.key # NoKey => <<op.key>> \in DOMAIN known /\ known[<<op.key>>] \in {"clean", "warn"}
         /\ \A i \in DOMAIN op.staged : op.staged[i].visit = i
         /\ op.budget.spent["leaves"] = Len(op.staged)
         /\ Len(op.staged) \in Nat
<1>1. op \in Operation /\ Working
  BY DEF OperationTypeOK, Working
<1>2. op.budget \in Budget /\ op.staged \in Seq(Leaf) /\ op.isText \in BOOLEAN
  BY <1>1 DEF Operation
<1>3. Placed(op) /\ Accounted(op) /\ Numbered(op) /\ outcome.is = "none"
  BY <1>1 DEF OperationInv, Ended
<1>4. op.budget.spent["leaves"] = Len(op.staged) + 0 /\ Len(op.staged) \in Nat
  BY <1>2, <1>3 DEF Numbered
<1> QED
  BY <1>1, <1>2, <1>3, <1>4 DEF Placed, Accounted, Paid, Numbered

\* A node that cannot be visited.
LEMMA VisitFailsKeeps ==
  ASSUME OperationTypeOK, OperationInv, VisitFails
  PROVE  Kept
BY RefusingApart DEF VisitFails

\* A string: the leaf in hand is the next visit.
LEMMA VisitStringKeeps ==
  ASSUME OperationTypeOK, OperationInv, NEW text \in Texts, VisitString(text)
  PROVE  Kept
<1>1. op.at = "walking" /\ NodeFits /\ UNCHANGED <<known, called, emitted, aborted>>
  BY DEF VisitString, ReadsValue
<1>2. PICK o, b : o = Visited(TRUE) /\ b = Charged(o.budget, "leaves", 1)
  OBVIOUS
<1>3. /\ op.budget \in Budget /\ WithinLimits(op.budget) /\ Accounted(op) /\ op.isText = FALSE
      /\ op.key # NoKey => <<op.key>> \in DOMAIN known /\ known[<<op.key>>] \in {"clean", "warn"}
      /\ \A i \in DOMAIN op.staged : op.staged[i].visit = i
      /\ op.budget.spent["leaves"] = Len(op.staged) /\ Len(op.staged) \in Nat
      /\ op \in Operation /\ outcome.is = "none"
  BY <1>1, WalkingFacts
<1>4. /\ o \in Operation /\ o.kind = op.kind /\ o.isText = op.isText /\ o.key = op.key
      /\ o.memo = op.memo /\ o.findings = op.findings /\ o.staged = op.staged
      /\ o.budget = Charged(op.budget, "nodes", 1)
  BY <1>1, <1>2, <1>3, VisitedFields
<1>5. /\ o.budget \in Budget
      /\ o.budget.spent["scans"] = op.budget.spent["scans"]
      /\ o.budget.spent["bytes"] = op.budget.spent["bytes"]
      /\ o.budget.spent["findings"] = op.budget.spent["findings"]
      /\ o.budget.spent["leaves"] = op.budget.spent["leaves"] + 0
      /\ WithinLimits(o.budget) /\ ~o.budget.exhausted
  BY <1>1, <1>3, <1>4, ChargedElsewhere DEF NodeFits
<1>6. CASE Fits(o.budget, "leaves", 1)
  <2>1. /\ b \in Budget
        /\ b.spent["scans"] = o.budget.spent["scans"]
        /\ b.spent["bytes"] = o.budget.spent["bytes"]
        /\ b.spent["findings"] = o.budget.spent["findings"]
        /\ b.spent["leaves"] = o.budget.spent["leaves"] + 1
        /\ WithinLimits(b) /\ ~b.exhausted
    BY <1>2, <1>5, <1>6, ChargedElsewhere
  <2> DEFINE leaf == "leaf"
             leaves == o.leaves + 1
  <2>2. /\ op' = [o EXCEPT !.budget = b, !.leaves = leaves, !.at = leaf, !.text = text]
        /\ outcome' = outcome
    BY <1>2, <1>4, <1>6 DEF VisitString, Operation
  <2>3. leaf \in Places /\ leaves \in Nat /\ leaves > 0 /\ text \in Keys
    <3>1. o.leaves \in Nat
      BY <1>4 DEF Operation
    <3> QED
      BY <3>1 DEF Places, Keys
  <2> HIDE DEF leaf, leaves
  <2>4. op' \in Operation
    BY <1>4, <2>1, <2>2, <2>3 DEF Operation
  <2>5. /\ op'.at = leaf /\ op'.kind = o.kind /\ op'.memo = o.memo
        /\ op'.staged = o.staged /\ op'.findings = o.findings /\ op'.budget = b
        /\ op'.text = text /\ op'.key = o.key /\ op'.isText = o.isText /\ op'.leaves = leaves
    BY <1>4, <2>2 DEF Operation
  <2>6. Placed(op)'
    BY <1>1, <1>3, <1>4, <2>3, <2>5 DEF Placed, leaf
  <2>7. Numbered(op)'
    BY <1>3, <1>4, <1>5, <2>1, <2>5 DEF Numbered, leaf
  <2>8. op'.at # "idle"
    BY <2>5 DEF leaf
  <2> QED
    BY <1>1, <1>3, <1>4, <1>5, <2>1, <2>2, <2>4, <2>5, <2>6, <2>7, <2>8, GoingApart
<1>7. CASE ~Fits(o.budget, "leaves", 1)
  <2>1. Refuse("limit_exceeded")
    BY <1>2, <1>7 DEF VisitString
  <2> QED
    BY <1>1, <2>1, RefusingApart
<1> QED
  BY <1>6, <1>7

\* A scalar, which is not scanned.
LEMMA VisitScalarKeeps ==
  ASSUME OperationTypeOK, OperationInv, VisitScalar
  PROVE  Kept
<1>1. op.at = "walking" /\ NodeFits /\ UNCHANGED <<known, called, emitted, aborted, outcome>>
  BY DEF VisitScalar, ReadsValue
<1>2. PICK o, s : o = Visited(TRUE) /\ s = [o EXCEPT !.key = NoKey]
  OBVIOUS
<1>3. /\ op.budget \in Budget /\ WithinLimits(op.budget) /\ Accounted(op) /\ op.isText = FALSE
      /\ \A i \in DOMAIN op.staged : op.staged[i].visit = i
      /\ op.budget.spent["leaves"] = Len(op.staged) /\ Len(op.staged) \in Nat
      /\ op \in Operation /\ outcome.is = "none"
  BY <1>1, WalkingFacts
<1>4. /\ o \in Operation /\ o.kind = op.kind /\ o.isText = op.isText
      /\ o.memo = op.memo /\ o.findings = op.findings /\ o.staged = op.staged
      /\ o.budget = Charged(op.budget, "nodes", 1)
  BY <1>1, <1>2, <1>3, VisitedFields
<1>5. /\ s \in Operation /\ s.kind = o.kind /\ s.isText = o.isText /\ s.key = NoKey
      /\ s.memo = o.memo /\ s.findings = o.findings /\ s.staged = o.staged /\ s.budget = o.budget
  BY <1>2, <1>4 DEF Operation, Keys
<1>6. op' = Resumed(s)
  BY <1>2 DEF VisitScalar
<1>7. /\ op' \in Operation /\ op'.at \in {"part end", "walking"}
      /\ op'.kind = s.kind /\ op'.isText = s.isText /\ op'.key = s.key
      /\ op'.memo = s.memo /\ op'.budget = s.budget
      /\ op'.findings = s.findings /\ op'.staged = s.staged
  BY <1>5, <1>6, ResumedFields
<1>8. /\ op'.budget \in Budget
      /\ op'.budget.spent["scans"] = op.budget.spent["scans"]
      /\ op'.budget.spent["bytes"] = op.budget.spent["bytes"]
      /\ op'.budget.spent["findings"] = op.budget.spent["findings"]
      /\ op'.budget.spent["leaves"] = op.budget.spent["leaves"] + 0
      /\ WithinLimits(op'.budget) /\ ~op'.budget.exhausted
  <2>1. op'.budget = Charged(op.budget, "nodes", 1)
    BY <1>4, <1>5, <1>7
  <2> QED
    BY <1>1, <1>3, <2>1, ChargedElsewhere DEF NodeFits
<1>9. Placed(op)'
  BY <1>3, <1>4, <1>5, <1>7 DEF Placed
<1>10. Numbered(op)'
  BY <1>3, <1>4, <1>5, <1>7, <1>8 DEF Numbered
<1> QED
  BY <1>1, <1>3, <1>4, <1>5, <1>7, <1>8, <1>9, <1>10, GoingApart

\* A container is entered.
LEMMA EnterContainerKeeps ==
  ASSUME OperationTypeOK, OperationInv, NEW isArray \in BOOLEAN, EnterContainer(isArray)
  PROVE  Kept
<1>1. op.at = "walking" /\ NodeFits /\ UNCHANGED <<known, called, emitted, aborted, outcome>>
  BY DEF EnterContainer, ReadsValue
<1>2. PICK o, open : o = Visited(FALSE) /\ open = <<[isArray |-> isArray, keys |-> {}]>> \o o.open
  OBVIOUS
<1>3. /\ op.budget \in Budget /\ WithinLimits(op.budget) /\ Accounted(op) /\ op.isText = FALSE
      /\ \A i \in DOMAIN op.staged : op.staged[i].visit = i
      /\ op.budget.spent["leaves"] = Len(op.staged) /\ Len(op.staged) \in Nat
      /\ op \in Operation /\ outcome.is = "none"
  BY <1>1, WalkingFacts
<1>4. /\ o \in Operation /\ o.kind = op.kind /\ o.isText = op.isText /\ o.at = op.at
      /\ o.memo = op.memo /\ o.findings = op.findings /\ o.staged = op.staged
      /\ o.budget = Charged(op.budget, "nodes", 1)
  BY <1>1, <1>2, <1>3, VisitedFields
<1>5. open \in Seq(Container)
  <2> DEFINE container == [isArray |-> isArray, keys |-> {}]
  <2>1. container \in Container
    BY DEF Container
  <2>2. o.open \in Seq(Container) /\ open = <<container>> \o o.open
    BY <1>2, <1>4 DEF Operation
  <2> HIDE DEF container
  <2> QED
    BY <2>1, <2>2
<1>6. op' = [o EXCEPT !.open = open, !.key = NoKey]
  BY <1>2, <1>4 DEF EnterContainer, Operation
<1>7. op' \in Operation
  BY <1>4, <1>5, <1>6 DEF Operation, Keys
<1>8. /\ op'.at = o.at /\ op'.kind = o.kind /\ op'.isText = o.isText /\ op'.key = NoKey
      /\ op'.memo = o.memo /\ op'.budget = o.budget
      /\ op'.findings = o.findings /\ op'.staged = o.staged
  BY <1>4, <1>6 DEF Operation
<1>9. /\ op'.budget.spent["scans"] = op.budget.spent["scans"]
      /\ op'.budget.spent["bytes"] = op.budget.spent["bytes"]
      /\ op'.budget.spent["findings"] = op.budget.spent["findings"]
      /\ op'.budget.spent["leaves"] = op.budget.spent["leaves"] + 0
      /\ WithinLimits(op'.budget) /\ ~op'.budget.exhausted
  BY <1>1, <1>3, <1>4, <1>8, ChargedElsewhere DEF NodeFits
<1>10. Placed(op)'
  BY <1>1, <1>3, <1>4, <1>8 DEF Placed
<1>11. Numbered(op)'
  BY <1>1, <1>3, <1>4, <1>8, <1>9 DEF Numbered
<1> QED
  BY <1>1, <1>3, <1>4, <1>7, <1>8, <1>9, <1>10, <1>11, GoingApart

\* A key is read.
LEMMA ReadKeyKeeps ==
  ASSUME OperationTypeOK, OperationInv, NEW key \in Texts, ReadKey(key)
  PROVE  Kept
<1>1. /\ op.at = "walking" /\ op.key = NoKey /\ op.open # <<>>
      /\ UNCHANGED <<known, called, emitted, aborted>>
  BY DEF ReadKey, BetweenMembers
<1>2. /\ op.budget \in Budget /\ WithinLimits(op.budget) /\ Accounted(op) /\ op.isText = FALSE
      /\ \A i \in DOMAIN op.staged : op.staged[i].visit = i
      /\ op.budget.spent["leaves"] = Len(op.staged) /\ Len(op.staged) \in Nat
      /\ op \in Operation /\ outcome.is = "none"
  BY <1>1, WalkingFacts
<1>3. CASE Fits(op.budget, "keys", 1)
  <2>1. PICK b, open : /\ b = Charged(op.budget, "keys", 1)
                       /\ open = [op.open EXCEPT ![1].keys = @ \cup {key}]
    OBVIOUS
  <2>2. /\ b \in Budget
        /\ b.spent["scans"] = op.budget.spent["scans"]
        /\ b.spent["bytes"] = op.budget.spent["bytes"]
        /\ b.spent["findings"] = op.budget.spent["findings"]
        /\ b.spent["leaves"] = op.budget.spent["leaves"] + 0
        /\ WithinLimits(b) /\ ~b.exhausted
    BY <1>2, <1>3, <2>1, ChargedElsewhere
  <2>3. open \in Seq(Container)
    <3>1. op.open \in Seq(Container) /\ 1 \in DOMAIN op.open
      BY <1>1, <1>2 DEF Operation
    <3>2. op.open[1] \in Container
      BY <3>1
    <3>3. PICK first : first = [op.open[1] EXCEPT !.keys = @ \cup {key}]
      OBVIOUS
    <3>4. first \in Container
      BY <3>2, <3>3 DEF Container
    <3>5. open = [op.open EXCEPT ![1] = first]
      BY <2>1, <3>1, <3>3
    <3> QED
      BY <3>1, <3>4, <3>5
  <2> DEFINE at == "key"
             keys == op.keys + 1
  <2>4. /\ op' = [op EXCEPT !.budget = b, !.keys = keys, !.at = at, !.text = key, !.open = open]
        /\ outcome' = outcome
    BY <1>2, <1>3, <2>1 DEF ReadKey, Operation
  <2>5. at \in Places /\ keys \in Nat /\ keys > 0 /\ key \in Keys
    <3>1. op.keys \in Nat
      BY <1>2 DEF Operation
    <3> QED
      BY <3>1 DEF Places, Keys
  <2> HIDE DEF at, keys
  <2>6. op' \in Operation
    BY <1>2, <2>2, <2>3, <2>4, <2>5 DEF Operation
  <2>7. /\ op'.at = at /\ op'.kind = op.kind /\ op'.memo = op.memo
        /\ op'.staged = op.staged /\ op'.findings = op.findings /\ op'.budget = b
        /\ op'.text = key /\ op'.key = op.key /\ op'.isText = op.isText /\ op'.keys = keys
    BY <1>2, <2>4 DEF Operation
  <2>8. Placed(op)'
    BY <1>1, <1>2, <2>5, <2>7 DEF Placed, at
  <2>9. Numbered(op)'
    BY <1>2, <2>2, <2>7 DEF Numbered, at
  <2>10. op'.at # "idle"
    BY <2>7 DEF at
  <2> QED
    BY <1>1, <1>2, <2>2, <2>4, <2>6, <2>7, <2>8, <2>9, <2>10, GoingApart
<1>4. CASE ~Fits(op.budget, "keys", 1)
  <2>1. Refuse("limit_exceeded")
    BY <1>4 DEF ReadKey
  <2> QED
    BY <1>1, <2>1, RefusingApart
<1> QED
  BY <1>3, <1>4

\* A container is left.
LEMMA LeaveContainerKeeps ==
  ASSUME OperationTypeOK, OperationInv, LeaveContainer
  PROVE  Kept
<1>1. /\ op.at = "walking" /\ op.key = NoKey /\ op.open # <<>>
      /\ UNCHANGED <<known, called, emitted, aborted, outcome>>
  BY DEF LeaveContainer, BetweenMembers
<1>2. /\ op.budget \in Budget /\ WithinLimits(op.budget) /\ Accounted(op) /\ op.isText = FALSE
      /\ \A i \in DOMAIN op.staged : op.staged[i].visit = i
      /\ op.budget.spent["leaves"] = Len(op.staged) /\ Len(op.staged) \in Nat
      /\ op \in Operation /\ outcome.is = "none" /\ ~op.budget.exhausted
  BY <1>1, WalkingFacts
<1>3. PICK open, o : open = Tail(op.open) /\ o = [op EXCEPT !.open = open]
  OBVIOUS
<1>4. open \in Seq(Container)
  <2>1. op.open \in Seq(Container)
    BY <1>2 DEF Operation
  <2> QED
    BY <1>1, <1>3, <2>1
<1>5. /\ o \in Operation /\ o.kind = op.kind /\ o.isText = op.isText /\ o.key = op.key
      /\ o.memo = op.memo /\ o.findings = op.findings /\ o.staged = op.staged
      /\ o.budget = op.budget
  BY <1>2, <1>3, <1>4 DEF Operation
<1>6. op' = Resumed(o)
  BY <1>2, <1>3 DEF LeaveContainer, Operation
<1>7. /\ op' \in Operation /\ op'.at \in {"part end", "walking"}
      /\ op'.kind = o.kind /\ op'.isText = o.isText /\ op'.key = o.key
      /\ op'.memo = o.memo /\ op'.budget = o.budget
      /\ op'.findings = o.findings /\ op'.staged = o.staged
  BY <1>5, <1>6, ResumedFields
<1>8. Placed(op)'
  BY <1>1, <1>2, <1>5, <1>7 DEF Placed
<1>9. Numbered(op)'
  <2>1. /\ op'.staged = op.staged /\ op'.budget = op.budget
        /\ op'.at # "leaf" /\ op'.at # "view"
    BY <1>5, <1>7
  <2>2. op.budget.spent["leaves"] = Len(op.staged) + 0
    BY <1>2
  <2> QED
    BY <1>2, <2>1, <2>2 DEF Numbered
<1> QED
  BY <1>1, <1>2, <1>5, <1>7, <1>8, <1>9, GoingApart

-----------------------------------------------------------------------------
(* The steps of the operations.                                            *)

\* An operation that has no leaf and no key in hand.
Ready(o) ==
  /\ o \in Operation /\ Accounted(o) /\ o.key = NoKey
  /\ \A i \in DOMAIN o.staged : o.staged[i].visit = i
  /\ o.budget.spent["leaves"] = Len(o.staged) /\ Len(o.staged) \in Nat

\* Whose visits are numbered once no leaf is in hand.
LEMMA NumberedUp ==
  ASSUME NEW o \in Operation, o.at \notin {"leaf", "view"}, Numbered(o)
  PROVE  o.budget.spent["leaves"] = Len(o.staged) /\ Len(o.staged) \in Nat
<1>1. o.staged \in Seq(Leaf)
  BY DEF Operation
<1>2. Len(o.staged) \in Nat
  BY <1>1
<1>3. PICK inHand : inHand = (o.at \in {"leaf", "view"})
  OBVIOUS
<1>4. ~inHand
  BY <1>3
<1>5. o.budget.spent["leaves"] = Len(o.staged) + IF inHand THEN 1 ELSE 0
  BY <1>3 DEF Numbered
<1>6. o.budget.spent["leaves"] = Len(o.staged) + 0
  BY <1>4, <1>5
<1> QED
  BY <1>2, <1>6

\* Between two parts an operation is ready for the next.
LEMMA ReadyBetweenParts ==
  ASSUME OperationTypeOK, OperationInv, op.at \in {"parts", "part end"}
  PROVE  Ready(op) /\ Working /\ outcome.is = "none"
<1>1. op \in Operation /\ Working
  BY DEF OperationTypeOK, Working
<1>2. Placed(op) /\ Accounted(op) /\ Numbered(op) /\ outcome.is = "none"
  BY <1>1 DEF OperationInv, Ended
<1>3. op.at \notin {"leaf", "view"}
  OBVIOUS
<1>5. op.budget.spent["leaves"] = Len(op.staged) /\ Len(op.staged) \in Nat
  BY <1>1, <1>2, <1>3, NumberedUp, Zenon
<1>6. op.key = NoKey /\ \A i \in DOMAIN op.staged : op.staged[i].visit = i
  BY <1>2 DEF Placed, Numbered
<1> QED
  BY <1>1, <1>2, <1>5, <1>6 DEF Ready

\* So is one that starts: it has done, and owes, nothing.
LEMMA ReadyNew ==
  ASSUME OperationTypeOK, OperationInv, MayStart, NEW kind \in {"text", "value", "context"}
  PROVE  /\ Ready(NewOperation(kind)) /\ outcome.is = "none" /\ ~Working
         /\ NewOperation(kind).staged = op.staged
<1>1. outcome.is = "none" /\ ~Working /\ emitted = <<>> /\ called = [i \in Inputs |-> 0]
  BY DEF MayStart, OperationInv, Ended, Working
<1>2. PICK o : o = NewOperation(kind)
  OBVIOUS
<1>3. /\ o \in Operation /\ o.key = NoKey /\ o.staged = <<>> /\ o.findings = <<>>
      /\ o.budget = FreshBudget /\ o.memo = EmptyMemo
  BY <1>2, NewOperationType DEF NewOperation
<1>4. IsFiniteSet({}) /\ Cardinality({}) = 0
  BY FS_EmptySet
<1>5. Listed(<<>>, <<>>)
  <2>1. Reported(<<>>) = {} /\ NotOfKeys(<<>>) = {}
    BY DEF Reported, NotOfKeys
  <2>2. \A all : Selects(<<>>, all, {})
    BY <1>4 DEF Selects
  <2> QED
    BY <1>1, <2>1, <2>2 DEF Listed
<1>6. AllScanned(<<>>)
  BY DEF AllScanned
<1>7. Calls = {} /\ ViewCalls = {}
  <2>1. \A i \in Inputs : 1 .. called[i] = {}
    BY <1>1
  <2>2. Calls = {}
    BY <2>1 DEF Calls
  <2> QED
    BY <2>2 DEF ViewCalls
<1>8. FreshBudget.spent = [m \in Meters |-> 0] /\ ~FreshBudget.exhausted
  BY DEF FreshBudget
<1>9. WithinLimits(FreshBudget)
  <2> SUFFICES ASSUME NEW m \in Meters PROVE FreshBudget.spent[m] <= Limits[m]
    BY DEF WithinLimits
  <2>1. Limits[m] \in Nat /\ FreshBudget.spent[m] = 0
    BY <1>8, LimitsAssumption
  <2> QED
    BY <2>1
<1>10. Paid(FreshBudget)
  BY <1>1, <1>4, <1>7, <1>8, <1>9 DEF Paid, Meters
<1>11. Remembers(o)
  <2>1. DOMAIN o.memo = {}
    BY <1>3 DEF EmptyMemo
  <2> QED
    BY <1>1, <1>4, <2>1, OperationAssumption DEF Remembers
<1>12. Len(o.staged) = 0 /\ DOMAIN o.staged = {} /\ o.budget.spent["leaves"] = 0
  BY <1>3, <1>8 DEF Meters
<1>13. Ready(o)
  BY <1>3, <1>5, <1>6, <1>10, <1>11, <1>12 DEF Ready, Accounted
<1>14. op.staged = <<>>
  BY <1>1 DEF OperationInv, Ended, NewOperation
<1> QED
  BY <1>1, <1>2, <1>3, <1>13, <1>14

\* A part that is a text.
LEMMA EnterTextKeeps ==
  ASSUME OperationTypeOK, OperationInv, NEW o, Ready(o), outcome.is = "none", o.staged = op.staged,
         NEW text, EnterText(o, text), UNCHANGED <<known, called, emitted, aborted>>
  PROVE  Kept
<1>1. PICK p, n, b : p = ForPart(o) /\ n = Charged(o.budget, "nodes", 1) /\ b = Charged(n, "leaves", 1)
  OBVIOUS
<1>2. o \in Operation /\ Accounted(o) /\ o.budget \in Budget /\ WithinLimits(o.budget) /\ ~o.budget.exhausted
  BY DEF Ready, Accounted, Paid, Operation
<1>3. /\ p \in Operation /\ p.kind = o.kind /\ p.key = o.key /\ p.memo = o.memo
      /\ p.budget = o.budget /\ p.findings = o.findings /\ p.staged = o.staged
  BY <1>1, <1>2, ForPartFields
<1>4. CASE Cancelled
  BY <1>4, RefusingApart DEF EnterText
<1>5. CASE ~Cancelled /\ b.exhausted
  <2>1. Refuse("limit_exceeded")
    BY <1>1, <1>5 DEF EnterText
  <2> QED
    BY <2>1, RefusingApart
<1>6. CASE ~Cancelled /\ ~b.exhausted /\ text \notin Texts
  <2>1. Refuse("unsupported_value")
    BY <1>1, <1>6 DEF EnterText
  <2> QED
    BY <2>1, RefusingApart
<1>7. CASE ~Cancelled /\ ~b.exhausted /\ text \in Texts
  <2>1. n \in Budget
    BY <1>1, <1>2, ChargedMeter DEF Meters
  <2>2. Fits(n, "leaves", 1)
    <3> SUFFICES ASSUME ~Fits(n, "leaves", 1) PROVE b.exhausted = TRUE
      BY <1>7
    <3>1. b = [n EXCEPT !.exhausted = TRUE]
      BY <1>1 DEF Charged, Refused
    <3> QED
      BY <2>1, <3>1 DEF Budget
  <2>3. Fits(o.budget, "nodes", 1)
    <3> SUFFICES ASSUME ~Fits(o.budget, "nodes", 1) PROVE n.exhausted = TRUE
      BY <2>2 DEF Fits
    <3>1. n = [o.budget EXCEPT !.exhausted = TRUE]
      BY <1>1 DEF Charged, Refused
    <3> QED
      BY <1>2, <3>1 DEF Budget
  <2>4. /\ n.spent["scans"] = o.budget.spent["scans"]
        /\ n.spent["bytes"] = o.budget.spent["bytes"]
        /\ n.spent["findings"] = o.budget.spent["findings"]
        /\ n.spent["leaves"] = o.budget.spent["leaves"] + 0
        /\ WithinLimits(n)
    BY <1>1, <1>2, <2>3, ChargedElsewhere
  <2>5. /\ b \in Budget
        /\ b.spent["scans"] = n.spent["scans"]
        /\ b.spent["bytes"] = n.spent["bytes"]
        /\ b.spent["findings"] = n.spent["findings"]
        /\ b.spent["leaves"] = n.spent["leaves"] + 1
        /\ WithinLimits(b) /\ ~b.exhausted
    BY <1>1, <2>1, <2>2, <2>4, ChargedElsewhere
  <2> DEFINE leaf == "leaf"
             true == TRUE
  <2>6. /\ op' = [p EXCEPT !.budget = b, !.isText = true, !.at = leaf, !.text = text]
        /\ outcome' = outcome
    BY <1>1, <1>3, <1>7 DEF EnterText, Operation
  <2>7. leaf \in Places /\ true \in BOOLEAN /\ text \in Keys
    BY <1>7 DEF Places, Keys
  <2> HIDE DEF leaf, true
  <2>8. op' \in Operation
    BY <1>3, <2>5, <2>6, <2>7 DEF Operation
  <2>9. /\ op'.at = leaf /\ op'.kind = p.kind /\ op'.memo = p.memo
        /\ op'.staged = p.staged /\ op'.findings = p.findings /\ op'.budget = b
        /\ op'.text = text /\ op'.key = p.key /\ op'.isText = true
    BY <1>3, <2>6 DEF Operation
  <2>10. Placed(op)'
    BY <1>3, <1>7, <2>9 DEF Placed, Ready, leaf, true
  <2>11. Numbered(op)'
    BY <1>3, <2>4, <2>5, <2>9 DEF Numbered, Ready, leaf
  <2>12. op'.at # "idle"
    BY <2>9 DEF leaf
  <2> QED
    BY <1>2, <1>3, <2>4, <2>5, <2>6, <2>8, <2>9, <2>10, <2>11, <2>12, GoingApart
<1> QED
  BY <1>4, <1>5, <1>6, <1>7

\* A part that is a value, and the next place of a context.
LEMMA EnterPlaceKeeps ==
  ASSUME OperationTypeOK, OperationInv, NEW o, Ready(o), outcome.is = "none", o.staged = op.staged,
         NEW p \in Operation, p.kind = o.kind, p.key = o.key, p.memo = o.memo,
         p.budget = o.budget, p.findings = o.findings, p.staged = o.staged,
         NEW at \in {"walking", "parts"}, NEW isText \in BOOLEAN, NEW part \in Nat,
         at = "walking" => ~isText,
         op' = [p EXCEPT !.isText = isText, !.at = at, !.part = part],
         UNCHANGED <<known, called, emitted, aborted, outcome>>
  PROVE  Kept
<1>1. at \in Places
  BY DEF Places
<1>2. op' \in Operation
  BY <1>1 DEF Operation
<1>3. /\ op'.at = at /\ op'.kind = p.kind /\ op'.memo = p.memo
      /\ op'.staged = p.staged /\ op'.findings = p.findings /\ op'.budget = p.budget
      /\ op'.key = p.key /\ op'.isText = isText
  BY DEF Operation
<1>4. Placed(op)'
  BY <1>3 DEF Placed, Ready
<1>5. Numbered(op)'
  <2>1. /\ op'.staged = o.staged /\ op'.budget = o.budget
        /\ op'.at # "leaf" /\ op'.at # "view"
    BY <1>3
  <2>2. o.budget.spent["leaves"] = Len(o.staged) + 0
    BY DEF Ready
  <2> QED
    BY <2>1, <2>2 DEF Numbered, Ready
<1>6. op'.at # "idle"
  BY <1>3
<1>7. o \in Operation /\ Accounted(o) /\ WithinLimits(o.budget) /\ ~o.budget.exhausted
  BY DEF Ready, Accounted, Paid
<1> QED
  BY <1>2, <1>3, <1>4, <1>5, <1>6, <1>7, GoingApart

\* A value is entered.
LEMMA EnterValueKeeps ==
  ASSUME OperationTypeOK, OperationInv, NEW o, Ready(o), outcome.is = "none", o.staged = op.staged,
         EnterValue(o), UNCHANGED <<known, called, emitted, aborted>>
  PROVE  Kept
<1>1. CASE Cancelled
  BY <1>1, RefusingApart DEF EnterValue
<1>2. CASE ~Cancelled
  <2>1. PICK p : p = ForPart(o)
    OBVIOUS
  <2>2. o \in Operation
    BY DEF Ready
  <2>3. /\ p \in Operation /\ p.kind = o.kind /\ p.key = o.key /\ p.memo = o.memo
        /\ p.budget = o.budget /\ p.findings = o.findings /\ p.staged = o.staged
    BY <2>1, <2>2, ForPartFields
  <2> DEFINE walking == "walking"
             false == FALSE
  <2>4. op' = [p EXCEPT !.isText = false, !.at = walking] /\ outcome' = outcome
    BY <1>2, <2>1 DEF EnterValue
  <2>5. walking \in {"walking", "parts"} /\ false \in BOOLEAN /\ (walking = "walking" => ~false)
    OBVIOUS
  <2> HIDE DEF walking, false
  <2>6. PICK part : part = p.part
    OBVIOUS
  <2>7. part \in Nat /\ op' = [p EXCEPT !.isText = false, !.at = walking, !.part = part]
    BY <2>3, <2>4, <2>6 DEF Operation
  <2>8. UNCHANGED <<known, called, emitted, aborted, outcome>>
    BY <2>4
  <2> QED
    BY <2>3, <2>5, <2>7, <2>8, EnterPlaceKeeps
<1> QED
  BY <1>1, <1>2

\* An operation starts.
LEMMA StartKeeps ==
  ASSUME OperationTypeOK, OperationInv, Start
  PROVE  Kept
<1>1. MayStart /\ UNCHANGED <<known, called, emitted, aborted>>
  BY DEF Start, StartText, StartValue, StartContext
<1>2. \A kind \in {"text", "value", "context"} :
        Ready(NewOperation(kind)) /\ outcome.is = "none" /\ NewOperation(kind).staged = op.staged
  BY <1>1, ReadyNew
<1>3. ASSUME NEW text, StartText(text) PROVE Kept
  <2>1. PICK o : o = NewOperation("text")
    OBVIOUS
  <2>2. Ready(o) /\ o.staged = op.staged /\ EnterText(o, text)
    BY <1>2, <1>3, <2>1 DEF StartText
  <2> QED
    BY <1>1, <1>2, <2>2, EnterTextKeeps
<1>4. CASE StartValue
  <2>1. PICK o : o = NewOperation("value")
    OBVIOUS
  <2>2. Ready(o) /\ o.staged = op.staged /\ EnterValue(o)
    BY <1>2, <1>4, <2>1 DEF StartValue
  <2> QED
    BY <1>1, <1>2, <2>2, EnterValueKeeps
<1>5. CASE StartContext
  <2>1. CASE \E reason \in {"limit_exceeded", "unsupported_value", "aborted"} : Refuse(reason)
    BY <1>1, <2>1, RefusingApart
  <2>2. CASE op' = [NewOperation("context") EXCEPT !.at = "parts"] /\ outcome' = outcome
    <3>1. PICK o : o = NewOperation("context")
      OBVIOUS
    <3>2. o \in Operation /\ Ready(o) /\ o.staged = op.staged
      BY <1>2, <3>1 DEF Ready
    <3> DEFINE parts == "parts"
    <3>3. parts \in {"walking", "parts"} /\ parts # "walking"
      OBVIOUS
    <3>4. op' = [o EXCEPT !.at = parts]
      BY <2>2, <3>1
    <3> HIDE DEF parts
    <3>5. /\ o.part \in Nat /\ o.isText \in BOOLEAN
          /\ op' = [o EXCEPT !.isText = o.isText, !.at = parts, !.part = o.part]
      BY <3>2, <3>4 DEF Operation
    <3> QED
      BY <1>1, <1>2, <2>2, <3>2, <3>3, <3>5, EnterPlaceKeeps, ZenonT(30)
  <2> QED
    BY <1>5, <2>1, <2>2 DEF StartContext
<1> QED
  BY <1>3, <1>4, <1>5 DEF Start

\* The next part of a context.
LEMMA NextPartKeeps ==
  ASSUME OperationTypeOK, OperationInv, NextPart
  PROVE  Kept
<1>1. op.at = "parts" /\ UNCHANGED <<known, called, emitted, aborted>>
  BY DEF NextPart
<1>2. PICK o : o = op
  OBVIOUS
<1>3. Ready(o) /\ outcome.is = "none"
  BY <1>1, <1>2, ReadyBetweenParts
<1>4. CASE Refuse("unsupported_value")
  BY <1>1, <1>4, RefusingApart
<1>5. ASSUME NEW text, EnterText(op, text) PROVE Kept
  BY <1>1, <1>2, <1>3, <1>5, EnterTextKeeps
<1>6. CASE EnterValue(op)
  BY <1>1, <1>2, <1>3, <1>6, EnterValueKeeps
<1> QED
  BY <1>4, <1>5, <1>6 DEF NextPart

\* A part is over.
LEMMA EndPartKeeps ==
  ASSUME OperationTypeOK, OperationInv, EndPart
  PROVE  Kept
<1>1. op.at = "part end" /\ UNCHANGED <<known, called, emitted, aborted>>
  BY DEF EndPart
<1>2. Ready(op) /\ outcome.is = "none" /\ Working
  BY <1>1, ReadyBetweenParts
<1>3. CASE Refuse("aborted")
  BY <1>1, <1>3, RefusingApart
<1>4. CASE Deliver /\ ~Cancelled
  BY <1>1, <1>2, <1>4, Delivering
<1>5. CASE op' = [op EXCEPT !.at = "parts", !.part = @ + 1] /\ outcome' = outcome
  <2>1. PICK o : o = op
    OBVIOUS
  <2>2. o \in Operation /\ Ready(o) /\ o.staged = op.staged
    BY <1>2, <2>1 DEF Ready
  <2> DEFINE parts == "parts"
             part == o.part + 1
  <2>3. parts \in {"walking", "parts"} /\ parts # "walking"
    OBVIOUS
  <2>4. op' = [o EXCEPT !.at = parts, !.part = part]
    BY <1>5, <2>1
  <2>5. o.part \in Nat
    BY <2>2 DEF Operation
  <2>6. part \in Nat
    BY <2>5
  <2> HIDE DEF parts, part
  <2>7. /\ o.isText \in BOOLEAN
        /\ op' = [o EXCEPT !.isText = o.isText, !.at = parts, !.part = part]
    BY <2>2, <2>4 DEF Operation
  <2> QED
    BY <1>1, <1>2, <1>5, <2>2, <2>3, <2>6, <2>7, EnterPlaceKeeps
<1> QED
  BY <1>3, <1>4, <1>5 DEF EndPart

\* The last part was.
LEMMA EndContextKeeps ==
  ASSUME OperationTypeOK, OperationInv, EndContext
  PROVE  Kept
<1>1. op.at = "parts" /\ UNCHANGED <<known, called, emitted, aborted>>
  BY DEF EndContext
<1>2. Working
  BY <1>1 DEF Working
<1>3. CASE Refuse("aborted")
  BY <1>1, <1>3, RefusingApart
<1>4. CASE Deliver /\ ~Cancelled
  BY <1>1, <1>2, <1>4, Delivering
<1> QED
  BY <1>3, <1>4 DEF EndContext

-----------------------------------------------------------------------------
(* The theorems.                                                           *)

\* Nothing has happened at first.
LEMMA InitHolds == Init => OperationTypeOK /\ OperationInv
<1> SUFFICES ASSUME Init PROVE OperationTypeOK /\ OperationInv
  OBVIOUS
<1>1. /\ op = NewOperation("text") /\ known = EmptyMemo /\ called = [i \in Inputs |-> 0]
      /\ emitted = <<>> /\ aborted = FALSE
      /\ outcome = [is |-> "none", findings |-> <<>>, leaves |-> <<>>]
  BY DEF Init
<1>2. op \in Operation
  BY <1>1, NewOperationType
<1>3. DOMAIN known = {} /\ known \in Answers
  BY <1>1, ZenonT(30) DEF EmptyMemo, Answers
<1>4. outcome \in Outcome /\ outcome.is = "none" /\ outcome.findings = <<>> /\ outcome.leaves = <<>>
  <2> DEFINE none == <<>>
  <2>1. outcome = [is |-> "none", findings |-> none, leaves |-> none]
    BY <1>1
  <2>2. none \in Seq(Occurrence) /\ none \in Seq(Leaf)
    OBVIOUS
  <2> HIDE DEF none
  <2>3. outcome \in Outcome /\ outcome.is = "none" /\ outcome.findings = none /\ outcome.leaves = none
    BY <2>1, <2>2 DEF Outcome, Outcomes
  <2> QED
    BY <2>3 DEF none
<1>5. OperationTypeOK
  <2>1. called \in [Inputs -> Nat]
    BY <1>1
  <2>2. emitted \in Seq(Occurrence)
    BY <1>1
  <2>3. aborted \in BOOLEAN
    BY <1>1
  <2>4. known \in UNION {[D -> ViewVerdicts] : D \in SUBSET Inputs}
    BY <1>3 DEF Answers
  <2> QED
    BY <1>2, <1>4, <2>1, <2>2, <2>3, <2>4 DEF OperationTypeOK
<1>6. ~Working
  BY <1>1 DEF Working, NewOperation
<1>7. AnswersAlone
  BY <1>3 DEF AnswersAlone
<1> QED
  BY <1>1, <1>4, <1>5, <1>6, <1>7 DEF OperationInv, Ended

\* The host cancels, or does nothing.
LEMMA CancelOrStutterKeeps ==
  ASSUME OperationTypeOK, OperationInv, Cancel \/ UNCHANGED operationVars
  PROVE  Kept
<1>1. UNCHANGED <<op, known, called, emitted, outcome>> /\ aborted' \in BOOLEAN
  BY DEF Cancel, operationVars, OperationTypeOK
<1>2. OperationTypeOK'
  BY <1>1 DEF OperationTypeOK
<1>3. OperationInv'
  <2>1. Ended' /\ AnswersAlone' /\ Working' = Working
    BY <1>1 DEF OperationInv, Ended, AnswersAlone, Working
  <2>2. Working => Placed(op)' /\ Numbered(op)'
    BY <1>1 DEF OperationInv, Placed, Numbered
  <2>3. Accounted(op)' = Accounted(op)
    BY <1>1 DEF Accounted, AllScanned, AsScanned, Afresh, Listed, Paid, Calls, ViewCalls, Remembers
  <2>4. outcome'.is = "ok" => (AllScanned(outcome.leaves) /\ Listed(outcome.findings, outcome.leaves))'
    BY <1>1 DEF OperationInv, AllScanned, AsScanned, Afresh, Listed
  <2> QED
    BY <2>1, <2>2, <2>3, <2>4 DEF OperationInv
<1> QED
  BY <1>1, <1>2, <1>3 DEF Kept, Progress

\* Every step keeps the invariant and goes on in one of three ways.
LEMMA StepKeeps ==
  ASSUME OperationTypeOK, OperationInv, [Next]_operationVars
  PROVE  Kept
<1>1. CASE ScanStep
  BY <1>1, ScanFailsKeeps, ScanAloneKeeps, ScanViewKeeps, ScanKeyKeeps DEF ScanStep
<1>2. CASE WalkStep
  BY <1>2, VisitFailsKeeps, VisitScalarKeeps, LeaveContainerKeeps, VisitStringKeeps, ReadKeyKeeps,
    EnterContainerKeeps DEF WalkStep
<1>3. CASE PartStep
  BY <1>3, NextPartKeeps, EndPartKeeps, EndContextKeeps DEF PartStep
<1> QED
  BY <1>1, <1>2, <1>3, StartKeeps, CancelOrStutterKeeps DEF Next, OperationStep

\* Every variable stays in its type, whatever the host does.
THEOREM OperationTypes == Spec => []OperationTypeOK
<1>1. OperationTypeOK /\ OperationInv /\ [Next]_operationVars => (OperationTypeOK /\ OperationInv)'
  BY StepKeeps DEF Kept
<1> QED
  BY <1>1, InitHolds, PTL DEF Spec

\* The inductive invariant holds of every state of the operation.
THEOREM Inductive == Spec => [](OperationTypeOK /\ OperationInv)
<1>1. OperationTypeOK /\ OperationInv /\ [Next]_operationVars => (OperationTypeOK /\ OperationInv)'
  BY StepKeeps DEF Kept
<1> QED
  BY <1>1, InitHolds, PTL DEF Spec

\* No leaf leaves an operation but as the core would have it scanned, alone and
\* under its key, and no key or leaf that the core would have rewritten or blocked.
THEOREM DeliveredAsTheCoreHasIt == Spec => []DeliveredAsScanned
<1>1. OperationTypeOK /\ OperationInv => DeliveredAsScanned
  <2> SUFFICES ASSUME OperationTypeOK, OperationInv PROVE DeliveredAsScanned
    OBVIOUS
  <2>1. CASE outcome.is = "ok"
    BY <2>1 DEF OperationInv, AllScanned, AsScanned, DeliveredAsScanned
  <2>2. CASE outcome.is # "ok"
    BY <2>2 DEF OperationInv, Ended, DeliveredAsScanned
  <2> QED
    BY <2>1, <2>2
<1> QED
  BY <1>1, Inductive, PTL

\* What an ok outcome lists is what its leaves report, once per visit, and what
\* the host was told of them, in that order.
THEOREM EveryOccurrenceIsListed == Spec => []FindingsPerOccurrence
<1>1. OperationInv => FindingsPerOccurrence
  BY DEF OperationInv, Listed, FindingsPerOccurrence
<1> QED
  BY <1>1, Inductive, PTL

\* Over all its parts an operation pays for each call of the core and for each
\* finding the host is told of, once, and never past a limit; and it calls the
\* core with no short text twice while its memo has room.
THEOREM OneBudgetPaysForAll == Spec => []OneBudget
<1>1. OperationTypeOK /\ OperationInv => OneBudget
  <2> SUFFICES ASSUME OperationTypeOK, OperationInv PROVE OneBudget
    OBVIOUS
  <2>1. CASE Working
    <3>1. Paid(op.budget) /\ Remembers(op)
      BY <2>1 DEF OperationInv, Accounted
    <3>2. MemoIsBounded /\ ScannedOnce
      BY <3>1 DEF Remembers, MemoIsBounded, ScannedOnce
    <3> QED
      BY <3>1, <3>2 DEF OneBudget, MemoIsSound, Paid
  <2>2. CASE ~Working
    <3>1. op = NewOperation("text")
      BY <2>2 DEF OperationInv, Ended
    <3>2. DOMAIN op.memo = {} /\ op.at = "idle"
      BY <3>1 DEF NewOperation, EmptyMemo
    <3>3. MemoIsBounded /\ ScannedOnce
      BY <3>2, FS_EmptySet, OperationAssumption DEF MemoIsBounded, ScannedOnce
    <3> QED
      BY <3>2, <3>3 DEF OneBudget, MemoIsSound
  <2> QED
    BY <2>1, <2>2
<1> QED
  BY <1>1, Inductive, PTL

-----------------------------------------------------------------------------
(* The refinement.                                                         *)

\* The same, of the states of a behaviour.
LEMMA ProgressOfSteps ==
  ASSUME OperationTypeOK, OperationInv, [Next]_operationVars
  PROVE  Progress /\ (OperationTypeOK /\ OperationInv)'
BY StepKeeps DEF Kept

\* Nothing is delivered after a poll could have seen the cancellation.
LEMMA OkSteps ==
  ASSUME Progress, outcome'.is = "ok"
  PROVE  outcome.is = "ok" \/ ~aborted
<1>1. CASE \E reason \in Outcomes \ {"none", "ok"} : Refuse(reason)
  BY <1>1 DEF Refuse
<1> QED
  BY <1>1 DEF Progress

\* Leaves numbered by their places are visited in their order.
LEMMA VisitsAreCounted ==
  ASSUME NEW leaves \in Seq(Leaf), \A i \in DOMAIN leaves : leaves[i].visit = i
  PROVE  Len(leaves) \in Nat /\ Visits(leaves) = [i \in 1 .. Len(leaves) |-> i]
<1>1. DOMAIN leaves = 1 .. Len(leaves) /\ Len(leaves) \in Nat
  OBVIOUS
<1> QED
  BY <1>1 DEF Visits

\* What is staged is numbered so, in every state.
LEMMA StagedInOrder ==
  ASSUME OperationTypeOK, OperationInv
  PROVE  op.staged \in Seq(Leaf) /\ \A i \in DOMAIN op.staged : op.staged[i].visit = i
<1>1. op.staged \in Seq(Leaf)
  BY DEF OperationTypeOK, Operation
<1>2. CASE Working
  BY <1>1, <1>2 DEF OperationInv, Numbered
<1>3. CASE ~Working
  BY <1>1, <1>3 DEF OperationInv, Ended, NewOperation
<1> QED
  BY <1>2, <1>3

\* What an operation returned is its last word.
LEMMA ReturnsOnce ==
  ASSUME OperationInv, [Next]_operationVars, outcome.is # "none"
  PROVE  UNCHANGED <<op, outcome>>
<1>1. op.at = "idle"
  BY DEF OperationInv, Ended, Working
<1>2. ~Start
  BY DEF Start, StartText, StartValue, StartContext, MayStart
<1>3. ~ScanStep
  BY <1>1 DEF ScanStep, ScanRefused, CoreFails, ScanAlone, ScanView, ScanKey
<1>4. ~WalkStep
  BY <1>1 DEF WalkStep, VisitFails, VisitScalar, LeaveContainer, VisitString, ReadKey,
    EnterContainer, ReadsValue, BetweenMembers
<1>5. ~PartStep
  BY <1>1 DEF PartStep, NextPart, EndPart, EndContext
<1> QED
  BY <1>2, <1>3, <1>4, <1>5 DEF Next, OperationStep, Cancel, operationVars

\* Every step of an operation is a step of the promise, or none of it.
LEMMA PromiseStep ==
  ASSUME OperationTypeOK, OperationInv, (OperationTypeOK /\ OperationInv)', Progress,
         [Next]_operationVars
  PROVE  [Promise!StagedNext]_(Promise!stagedVars)
<1> DEFINE Mapped == [Promise!StagedNext]_(Promise!stagedVars)
<1>1. Visits(<<>>) = <<>>
  BY DEF Visits
<1>2. CASE outcome.is # "none"
  BY <1>2, ReturnsOnce DEF Promise!stagedVars, Visits
<1>3. CASE outcome.is = "none"
  <2>1. outcome.leaves = <<>>
    BY <1>3 DEF OperationInv, Ended
  <2>2. ASSUME NEW reason \in Outcomes \ {"none", "ok"}, Refuse(reason) PROVE Mapped
    <3>1. outcome'.is = reason /\ outcome'.leaves = <<>>
      BY <2>2 DEF Refuse
    <3>2. Visits(outcome'.leaves) = Visits(outcome.leaves)
      BY <2>1, <3>1
    <3> QED
      BY <1>3, <2>2, <3>1, <3>2 DEF Promise!StagedNext, Promise!Refuse, Visits
  <2>3. CASE Deliver
    <3>1. outcome'.is = "ok" /\ outcome'.leaves = op.staged
      BY <2>3 DEF Deliver
    <3> QED
      BY <1>3, <3>1 DEF Promise!StagedNext, Promise!Release, Visits
  <2>4. CASE outcome' = outcome /\ op'.staged = op.staged
    BY <2>4 DEF Promise!stagedVars, Visits
  <2>5. CASE outcome' = outcome /\ Len(op'.staged) = Len(op.staged) + 1
    <3>0. op'.staged \in Seq(Leaf) /\ \A i \in DOMAIN op'.staged : op'.staged[i].visit = i
      <4>1. op'.staged \in Seq(Leaf)
        BY DEF OperationTypeOK, Operation
      <4>2. CASE Working'
        <5>1. Numbered(op)'
          BY <4>2 DEF OperationInv
        <5> QED
          BY <4>1, <5>1, Zenon DEF Numbered
      <4>3. CASE ~Working'
        <5>1. op' = NewOperation("text")
          BY <4>3 DEF OperationInv, Ended
        <5>2. op'.staged = <<>>
          BY <5>1 DEF NewOperation
        <5> QED
          BY <4>1, <5>2
      <4> QED
        BY <4>1, <4>2, <4>3
    <3>1. /\ Len(op.staged) \in Nat /\ Visits(op.staged) = [i \in 1 .. Len(op.staged) |-> i]
          /\ Visits(op'.staged) = [i \in 1 .. Len(op'.staged) |-> i]
      BY <3>0, StagedInOrder, VisitsAreCounted
    <3>2. Visits(op'.staged) = Append(Visits(op.staged), Len(Visits(op.staged)) + 1)
      BY <2>5, <3>1
    <3> QED
      BY <1>3, <2>5, <3>2 DEF Promise!StagedNext, Promise!Take, Visits
  <2> QED
    BY <2>2, <2>3, <2>4, <2>5 DEF Progress
<1> QED
  BY <1>2, <1>3

\* An operation delivers every leaf it charged, in order and once, or nothing at
\* all, and nothing once a poll could have seen the caller cancel.
THEOREM DeliversAllOrNothing == Spec => WholeOrNothing
<1>1. Init => Promise!StagedInit
  BY DEF Init, Promise!StagedInit, NewOperation, Visits
<1>2. OperationTypeOK /\ OperationInv /\ [Next]_operationVars =>
        /\ [Promise!StagedNext]_(Promise!stagedVars)
        /\ [outcome'.is = "ok" => outcome.is = "ok" \/ ~aborted]_operationVars
  BY ProgressOfSteps, PromiseStep, OkSteps
<1> QED
  BY <1>1, <1>2, Inductive, PTL
  DEF Spec, WholeOrNothing, OkIsNotCancelled, KeepsPromise, Promise!StagedSpec
==============================================================================
