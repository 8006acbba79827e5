------------------------------ MODULE ValueWalk ------------------------------
(***************************************************************************)
(* The three walkers that mask a value tree: walkValue (JavaScript), _Walk *)
(* (Python), which copy the value and share the operation's budget, and    *)
(* RecordMasker of the OpenTelemetry log processor, which returns what did *)
(* not change as it is and has a budget of its own.  A string is a leaf,   *)
(* masked by itself or, directly under a key, in its key-context view.     *)
(*                                                                         *)
(* The host's value is chosen as it is read, so it may be as wide and as   *)
(* deep as it likes, hold itself, throw, or make a new object every time   *)
(* it is asked for its toJSON.                                             *)
(***************************************************************************)
EXTENDS OperationBudget, Sequences, FiniteSetsExt

CONSTANTS
  Objects,    \* the host's containers
  MaxDepth,   \* limits.maxDepth
  MaxWidth,   \* limits.maxArrayLength and limits.maxObjectKeys
  MaxNodes,   \* limits.maxNodes
  MaxLeaves   \* limits.maxTotalLeaves

ASSUME WalkAssumption == {MaxDepth, MaxWidth, MaxNodes, MaxLeaves} \subseteq Nat

VARIABLES
  walker,   \* which of the three this is
  path,     \* the containers the walk is in, innermost first, above the root
  nodes,    \* visits left
  leaves,   \* leaves left
  budget,   \* the operation's budget
  counter   \* the OutcomeCounter

walkVars == <<walker, path, nodes, leaves, budget, counter>>

Walkers == {"walkValue", "_Walk", "RecordMasker"}

\* walkValue and _Walk copy the value, and spend the budget of its operation.
Copies == walker # "RecordMasker"

\* What a value became, and is counted as; one that stays as it is is not counted.
Markers == {"redacted", "blocked", "limited", "failed"}

\* What stands in a container so far: `raw` is what should have been masked.
Nothing == [b \in Markers \cup {"raw"} |-> 0]

\* A container in progress: `texts` are the strings of an exception that are no
\* properties of its, `left` the children still to be read, `cause` the last of
\* them.  `out` is what the copy holds, `hidden` how much the original holds that
\* the copy does not, `changed` whether the copy is what will be returned.
Opened(kind, of) ==
  [kind |-> kind, of |-> of, keyed |-> FALSE, texts |-> 0, left |-> 1, cause |-> FALSE,
   changed |-> Copies, hidden |-> 0, out |-> Nothing]

-----------------------------------------------------------------------------
(* maskLeaf.                                                               *)

Answers == {"clean", "warn", "redact", "block", "error"}

\* A view may also redact or block outside of the leaf, or be rewritten there.
ViewAnswers == Answers \cup {"outside", "broken"}

RedactsOrBlocks(answer) == answer \in {"redact", "block", "outside"}

\* One scan: charged before the core is called, and its findings after.
Scan(b, answer) ==
  IF ~Copies THEN [is |-> answer, budget |-> b]
  ELSE LET scanned == ChargedScan(b, 1)
           charged == Charged(scanned, "findings", IF answer \in {"clean", "error", "broken"} THEN 0 ELSE 1)
       IN  IF scanned.exhausted THEN [is |-> "limit", budget |-> scanned]
           ELSE IF answer = "error" THEN [is |-> "error", budget |-> scanned]
           ELSE [is |-> IF charged.exhausted THEN "limit" ELSE answer, budget |-> charged]

\* Which of the two results stands.
Chosen(alone, view) ==
  IF view \in {"limit", "error"} \/ RedactsOrBlocks(view) THEN view
  ELSE IF alone # "clean" THEN alone
  ELSE IF view = "broken" THEN "error" ELSE view

AsksView(alone, keyed) == keyed /\ ~RedactsOrBlocks(alone) /\ alone \notin {"limit", "error"}

\* scanLeafInKeyContext
ScannedLeaf(b, keyed, alone, view) ==
  LET first  == Scan(b, alone)
      second == Scan(first.budget, view)
  IN  IF AsksView(first.is, keyed)
      THEN [is |-> Chosen(first.is, second.is), budget |-> second.budget]
      ELSE first

\* maskLeafOutcomeWith
BecomesOf(is) ==
  CASE is = "limit" -> "limited"
    [] is = "error" -> "failed"
    [] is \in {"block", "outside"} -> "blocked"
    [] is = "redact" -> "redacted"
    [] OTHER -> "unchanged"

\* What the leaf's owner must not deliver as it is.
IsSecret(keyed, alone, view) == RedactsOrBlocks(alone) \/ (keyed /\ RedactsOrBlocks(view))

-----------------------------------------------------------------------------
(* Values that were masked.                                                *)

In == Head(path)

\* The container with another value in it, which became `b`.
WithMarker(c, b) ==
  [c EXCEPT !.out[b] = @ + 1, !.changed = TRUE, !.hidden = @ + 1]

\* The container with a value in it that stays as it is.
WithSame(c, secret) ==
  IF secret THEN [c EXCEPT !.out["raw"] = @ + 1, !.hidden = @ + 1] ELSE c

\* BUG: only leaves are counted.
Counted_leavesOnly(b) == counter

\* countMarker: a marker for a whole value.
Counted(b) == [counter EXCEPT ![b] = @ + 1]

\* A whole value is a marker in the container c.
Mark(c, b) ==
  /\ counter' = Counted(b)
  /\ path' = <<WithMarker(c, b)>> \o Tail(path)

\* A leaf of the container c, as the core answers.
DeliverLeaf(c, b, secret) ==
  IF b = "unchanged"
  THEN path' = <<WithSame(c, secret)>> \o Tail(path) /\ UNCHANGED counter
  ELSE path' = <<WithMarker(c, b)>> \o Tail(path) /\ counter' = [counter EXCEPT ![b] = @ + 1]

NoLeaf(charged) == leaves = 0 \/ charged.exhausted

\* maskString: past the leaves a marker, too long a marker, and otherwise what the
\* core says of it.  b is the budget the leaf is charged to.
MaskString(c, b, keyed) ==
  LET charged == IF Copies /\ leaves > 0 THEN Charged(b, "leaves", 1) ELSE b
  IN  IF NoLeaf(charged)
      THEN Mark(c, "limited") /\ budget' = charged /\ UNCHANGED leaves
      ELSE /\ leaves' = leaves - 1
           /\ \/ Mark(c, "limited") /\ budget' = charged
              \/ \E alone \in Answers : \E view \in IF keyed THEN ViewAnswers ELSE {"clean"} :
                   LET leaf == ScannedLeaf(charged, keyed, alone, view)
                   IN  /\ budget' = leaf.budget
                       /\ DeliverLeaf(c, BecomesOf(leaf.is), IsSecret(keyed, alone, view))

\* A string of an exception, which has no key and is no visit; in Python it may
\* not be had at all.
ExceptionText ==
  /\ In.texts > 0
  /\ LET c == [In EXCEPT !.texts = @ - 1]
     IN  \/ MaskString(c, budget, FALSE)
         \/ walker = "_Walk" /\ Mark(c, "failed") /\ UNCHANGED <<leaves, budget>>
  /\ UNCHANGED <<walker, nodes>>

-----------------------------------------------------------------------------
(* The next child of the innermost container.                              *)

Reads == In.texts = 0 /\ (In.left > 0 \/ In.cause)

\* The container without the child that is read.
Rest == IF In.left > 0 THEN [In EXCEPT !.left = @ - 1] ELSE [In EXCEPT !.cause = FALSE]

\* Whether the child has a key: a property, what toJSON returned if the object
\* had one, the root if its host knows one, an element if pino lifted it.
Keyed ==
  CASE In.kind = "json" -> {In.keyed}
    [] In.kind = "root" -> {FALSE, walker = "_Walk"}
    [] In.kind = "array" -> {FALSE, walker = "walkValue" /\ Len(path) = 2}
    [] OTHER -> IF In.left = 0 \/ ~Copies THEN {FALSE} ELSE {TRUE, walker # "_Walk"}

\* A property, but not a cause, costs a key.
CostsKey == Copies /\ In.left > 0 /\ In.kind \in {"object", "error"}

KeyPaid == IF CostsKey THEN Charged(budget, "keys", 1) ELSE budget

Cut(c) == [c EXCEPT !.left = 0]

\* No key is left: the rest of the properties is dropped.
CutKeys ==
  /\ Reads /\ CostsKey /\ KeyPaid.exhausted
  /\ counter' = Counted("limited")
  /\ path' = <<Cut(In)>> \o Tail(path)
  /\ budget' = KeyPaid
  /\ UNCHANGED <<walker, nodes, leaves>>

Proceeds == Reads /\ (CostsKey => ~KeyPaid.exhausted)

\* Reading the child throws.  A copied array is read as it is entered.
ReadThrows ==
  /\ Proceeds /\ In.kind \in {"object", "error"} /\ In.left > 0
  /\ Mark(Rest, "failed")
  /\ budget' = KeyPaid
  /\ UNCHANGED <<walker, nodes, leaves>>

\* An element of a RecordMasker's array, or what maskError reads of an exception,
\* throws: the whole container is one marker, whatever was masked in it.
ContainerThrows ==
  /\ \/ In.kind = "array" /\ ~Copies /\ Reads
     \/ In.kind = "error" /\ walker = "walkValue" /\ (In.texts > 0 \/ In.left = 0)
  /\ counter' = Counted("failed")
  /\ path' = <<WithMarker(path[2], "failed")>> \o SubSeq(path, 3, Len(path))
  /\ UNCHANGED <<walker, nodes, leaves, budget>>

NodePaid == IF Copies /\ nodes > 0 THEN Charged(KeyPaid, "nodes", 1) ELSE KeyPaid

NoNode == nodes = 0 \/ NodePaid.exhausted

VisitRefused ==
  /\ Proceeds /\ NoNode
  /\ Mark(Rest, "limited")
  /\ budget' = NodePaid
  /\ UNCHANGED <<walker, nodes, leaves>>

Visits ==
  /\ Proceeds /\ ~NoNode
  /\ nodes' = nodes - 1
  /\ UNCHANGED walker

VisitString ==
  /\ Visits
  /\ \E keyed \in Keyed : MaskString(Rest, NodePaid, keyed)

\* A number, a boolean, null: there is no text in it.
VisitScalar ==
  /\ Visits
  /\ path' = <<Rest>> \o Tail(path)
  /\ budget' = NodePaid
  /\ UNCHANGED <<leaves, counter>>

Depth == Len(path) - 1

OnPath(object) == \E i \in DOMAIN path : path[i].of = object

\* A value that cannot be read, or seen into, or is on the path already; bytes
\* that are too long; a container past maxDepth.
VisitMarker ==
  /\ Visits
  /\ \/ Depth >= MaxDepth /\ Mark(Rest, "limited")
     \/ (Depth < MaxDepth \/ walker # "walkValue") /\ Mark(Rest, "failed")
     \/ ~Copies /\ Mark(Rest, "limited")
  /\ budget' = NodePaid
  /\ UNCHANGED leaves

\* BUG: children past the bound are dropped from a copy that is not returned.
Bounded_unnoticed(c, wanted) ==
  LET kept == Min({wanted, MaxWidth})
  IN  [c EXCEPT !.left = kept, !.hidden = wanted - kept]

\* Children past the bound are dropped.
Bounded(c, wanted) ==
  LET kept == Min({wanted, MaxWidth})
  IN  [c EXCEPT !.left = kept, !.hidden = wanted - kept, !.changed = @ \/ kept < wanted]

\* RecordMasker counts that.
Truncated(wanted) ==
  IF ~Copies /\ wanted > MaxWidth THEN [counter EXCEPT !["limited"] = @ + 1] ELSE counter

MayEnter(object) == Visits /\ Depth < MaxDepth /\ ~OnPath(object)

Entered(c) == <<c, Rest>> \o Tail(path)

EnterArray(object, wanted) ==
  /\ MayEnter(object)
  /\ path' = Entered(Bounded(Opened("array", object), wanted))
  /\ counter' = Truncated(wanted)
  /\ budget' = NodePaid
  /\ UNCHANGED leaves

\* Of an object that is not plain RecordMasker returns a plain copy.
EnterObject(object, wanted) ==
  /\ MayEnter(object)
  /\ \E plain \in BOOLEAN :
       path' = Entered(Bounded([Opened("object", object) EXCEPT !.changed = @ \/ ~plain], wanted))
  /\ counter' = Truncated(wanted)
  /\ budget' = NodePaid
  /\ UNCHANGED leaves

\* maskError and exception: the strings, the properties, the cause.  RecordMasker
\* makes properties of all of them.
EnterError(object, wanted) ==
  /\ MayEnter(object)
  /\ \E cause \in BOOLEAN :
       path' = Entered(Bounded([Opened("error", object) EXCEPT !.changed = TRUE, !.cause = Copies /\ cause,
                                                               !.texts = IF Copies THEN 2 ELSE 0], wanted))
  /\ counter' = Truncated(wanted)
  /\ budget' = NodePaid
  /\ UNCHANGED leaves

\* What toJSON returns is one level deeper, a visit of its own, and another value.
EnterJson(object) ==
  /\ MayEnter(object) /\ walker # "_Walk"
  /\ \E keyed \in Keyed : path' = Entered([Opened("json", object) EXCEPT !.keyed = keyed, !.changed = TRUE])
  /\ budget' = NodePaid
  /\ UNCHANGED <<leaves, counter>>

\* What the container's parent holds of it: the copy, or the original.
Absorbed(parent, c) ==
  [parent EXCEPT !.out = [b \in DOMAIN @ |-> @[b] + c.out[b] + (IF b = "raw" /\ ~c.changed THEN c.hidden ELSE 0)],
                 !.changed = @ \/ c.changed, !.hidden = @ + c.hidden]

Leave ==
  /\ Len(path) > 1 /\ In.texts = 0 /\ ~Reads
  /\ path' = <<Absorbed(path[2], In)>> \o SubSeq(path, 3, Len(path))
  /\ UNCHANGED <<walker, nodes, leaves, budget, counter>>

-----------------------------------------------------------------------------
\* The value given to maskSecretsWith, maskLogValueWith or maskKeyedLeavesWith, or
\* an attribute's, as the one child of a container of its own.
Root == Opened("root", "root")

WalkInit ==
  /\ walker \in Walkers
  /\ path = <<Root>>
  /\ nodes = MaxNodes /\ leaves = MaxLeaves
  /\ budget = FreshBudget
  /\ counter = [b \in Markers |-> 0]

WalkNext ==
  \/ ExceptionText \/ CutKeys \/ ReadThrows \/ ContainerThrows \/ VisitRefused \/ VisitString
  \/ VisitScalar \/ VisitMarker \/ Leave
  \/ \E object \in Objects :
       \/ EnterJson(object)
       \/ \E wanted \in 0..(MaxWidth + 1) :
            EnterArray(object, wanted) \/ EnterObject(object, wanted) \/ EnterError(object, wanted)

WalkSpec == WalkInit /\ [][WalkNext]_walkVars

-----------------------------------------------------------------------------
(* Properties.                                                             *)

Returned == Len(path) = 1 /\ In.left = 0

\* Nothing that the core redacts or blocks, alone or under its key, and nothing
\* past a limit is in what a walk returns, neither in the copy nor in an original
\* that is returned because nothing in it seemed to change.
NothingRawIsReturned == Returned => In.out["raw"] = 0

Delivered(b) ==
  LET total[i \in 0..Len(path)] == IF i = 0 THEN 0 ELSE total[i - 1] + path[Len(path) + 1 - i].out[b]
  IN  total[Len(path)]

\* No marker is in a walk's output that is not on its counter; what the counter
\* has beyond that was dropped with the rest of its container.
DeliveredIsCounted == \A b \in Markers : Delivered(b) <= counter[b]

\* The walk is never inside an object twice, never deeper than maxDepth, and hands
\* no more strings on than its own limit and its operation's.
WalkIsBounded ==
  /\ Len(path) <= MaxDepth + 1
  /\ \A i, j \in DOMAIN path : path[i].of = path[j].of => i = j
  /\ nodes \in 0..MaxNodes /\ leaves \in 0..MaxLeaves
  /\ WithinLimits(budget)
  /\ Copies => budget.spent["leaves"] <= MaxLeaves

\* Everything a walk puts out is counted, and within its limits.
CountedWithinLimits == DeliveredIsCounted /\ WalkIsBounded
==============================================================================
