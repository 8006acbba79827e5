--------------------------- MODULE PinoHooks_proofs ---------------------------
(***************************************************************************)
(* The pino hooks.  First the pair: however deep records are logged inside *)
(* one another, as long as the lines of a logger without the logMethod     *)
(* hook are not written while a record is in flight, the stack of records  *)
(* follows the calls, each record is reported once, and its counts are its *)
(* own and its caller's.  Then one call on its way through both of them:   *)
(* pino builds its line of masked arguments only, no line is written with  *)
(* a value in the clear, and a record with nothing to mask is untouched.   *)
(***************************************************************************)
EXTENDS PinoHooks, PinoRecord, SequenceTheorems, FiniteSetTheorems, WellFoundedInduction, TLAPS

-----------------------------------------------------------------------------
(* The invariant.                                                          *)

\* The hook in progress holds its record on the stack.
Holds(f) == f.hook # "streamWrite" /\ f.at # "reporting"

\* The calls, innermost first, are the records in the reverse order they were
\* opened; a record has one call, or two while its line is masked.
Nesting ==
  \A i \in DOMAIN frames :
    /\ frames[i].record \in DOMAIN records /\ frames[i].counter = frames[i].record
    /\ frames[i].hook # "logMethod" => frames[i].at \in {"masking", "reporting"}
    /\ frames[i].hook = "streamWrite" =>
         /\ i + 1 \in DOMAIN frames /\ frames[i + 1].record = frames[i].record
         /\ frames[i + 1].hook = "logMethod" /\ frames[i + 1].at = "written"
    /\ \A j \in DOMAIN frames : i < j =>
         \/ frames[j].record < frames[i].record
         \/ frames[j].record = frames[i].record /\ frames[i].hook = "streamWrite" /\ j = i + 1

\* The stack holds the records of these calls, in the order they were opened.
StackIs ==
  /\ \A i, j \in DOMAIN stack : i < j => stack[i] < stack[j]
  /\ \A i \in DOMAIN stack : \E k \in DOMAIN frames : Holds(frames[k]) /\ frames[k].record = stack[i]
  /\ \A k \in DOMAIN frames : Holds(frames[k]) => \E i \in DOMAIN stack : stack[i] = frames[k].record

\* One observer runs at a time, and a record is quiet that was opened inside it.
Observing ==
  /\ reporting <=> \E i \in DOMAIN frames : frames[i].at = "reporting"
  /\ \A i, j \in DOMAIN frames : frames[i].at = "reporting" /\ frames[j].at = "reporting" => i = j
  /\ \A i \in DOMAIN frames :
       records[frames[i].record].quiet <=> \E j \in DOMAIN frames : i < j /\ frames[j].at = "reporting"

\* What was reported is of records that were, once each.
Told ==
  /\ \A i \in DOMAIN outcomes :
       /\ outcomes[i].record \in DOMAIN records
       /\ records[outcomes[i].record].reported /\ ~records[outcomes[i].record].quiet
       /\ outcomes[i].values = records[outcomes[i].record].counts
  /\ \A i, j \in DOMAIN outcomes : outcomes[i].record = outcomes[j].record => i = j
  /\ \A r \in DOMAIN records :
       records[r].reported /\ ~records[r].quiet => \E i \in DOMAIN outcomes : outcomes[i].record = r

\* The observer of the record runs.
Observed(r) == \E i \in DOMAIN frames : frames[i].at = "reporting" /\ frames[i].record = r

\* A record is reported when its calls are over and not while it is masked, and
\* its counts are added to the caller's when it has been.
Counting ==
  /\ \A r \in DOMAIN records :
       /\ records[r].counts = records[r].masked
       /\ ~records[r].reported => \E i \in DOMAIN frames : Holds(frames[i]) /\ frames[i].record = r
       /\ records[r].collected = IF records[r].reported /\ ~Observed(r) THEN records[r].counts ELSE 0
  /\ \A i \in DOMAIN frames :
       /\ frames[i].at = "reporting" => records[frames[i].record].reported
       /\ frames[i].at \in {"masking", "building"} => ~records[frames[i].record].reported

PinoInv == PinoTypeOK /\ Nesting /\ StackIs /\ Observing /\ Told /\ Counting

-----------------------------------------------------------------------------
(* Calls: one is pushed, one returns, the innermost one goes on.           *)

LEMMA Pushed ==
  ASSUME NEW S, NEW s \in Seq(S), NEW f \in S, NEW t, t = <<f>> \o s
  PROVE  /\ t \in Seq(S) /\ Len(t) = Len(s) + 1 /\ DOMAIN t = 1 .. Len(s) + 1
         /\ t # <<>> /\ t[1] = f /\ \A i \in DOMAIN s : i + 1 \in DOMAIN t /\ t[i + 1] = s[i]
<1>1. <<f>> \in Seq(S) /\ Len(<<f>>) = 1 /\ <<f>>[1] = f /\ Len(s) \in Nat /\ DOMAIN s = 1 .. Len(s)
  OBVIOUS
<1>2. t \in Seq(S) /\ Len(t) = Len(s) + 1
  BY <1>1, ConcatProperties
<1>3. \A i \in 1 .. Len(s) + 1 : t[i] = IF i <= 1 THEN <<f>>[i] ELSE s[i - 1]
  BY <1>1, ConcatProperties
<1>4. DOMAIN t = 1 .. Len(s) + 1 /\ Len(t) # 0
  BY <1>1, <1>2
<1>5. t[1] = f
  BY <1>1, <1>3
<1>6. \A i \in 1 .. Len(s) : i + 1 \in 1 .. Len(s) + 1 /\ t[i + 1] = s[i]
  BY <1>1, <1>3
<1> QED
  BY <1>1, <1>2, <1>4, <1>5, <1>6

LEMMA Popped ==
  ASSUME NEW S, NEW s \in Seq(S), s # <<>>, NEW t, t = Tail(s)
  PROVE  /\ Head(s) = s[1] /\ Head(s) \in S /\ 1 \in DOMAIN s /\ Len(s) \in Nat \ {0}
         /\ t \in Seq(S) /\ DOMAIN s = 1 .. Len(s) /\ DOMAIN t = 1 .. Len(s) - 1
         /\ \A i \in DOMAIN t : i + 1 \in DOMAIN s /\ t[i] = s[i + 1]
<1>1. Len(s) \in Nat \ {0} /\ DOMAIN s = 1 .. Len(s)
  BY EmptySeq, LenProperties
<1>2. Head(s) \in S /\ t \in Seq(S) /\ Len(t) = Len(s) - 1 /\ \A i \in 1 .. Len(t) : t[i] = s[i + 1]
  BY HeadTailProperties
<1>3. DOMAIN t = 1 .. Len(t) /\ Head(s) = s[1]
  BY <1>1, <1>2
<1> QED
  BY <1>1, <1>2, <1>3

LEMMA Replaced ==
  ASSUME NEW S, NEW s \in Seq(S), s # <<>>, NEW f \in S, NEW t, t = <<f>> \o Tail(s)
  PROVE  /\ t \in Seq(S) /\ DOMAIN t = DOMAIN s /\ t[1] = f
         /\ \A i \in DOMAIN s \ {1} : t[i] = s[i]
<1>1. /\ Tail(s) \in Seq(S) /\ Len(s) \in Nat \ {0} /\ DOMAIN s = 1 .. Len(s) /\ DOMAIN Tail(s) = 1 .. Len(s) - 1
      /\ \A i \in DOMAIN Tail(s) : Tail(s)[i] = s[i + 1]
  BY Popped
<1>2. Len(Tail(s)) = Len(s) - 1
  BY <1>1, LenProperties
<1>3. /\ t \in Seq(S) /\ DOMAIN t = 1 .. Len(Tail(s)) + 1 /\ t[1] = f
      /\ \A i \in DOMAIN Tail(s) : t[i + 1] = Tail(s)[i]
  BY <1>1, Pushed
<1>4. DOMAIN t = DOMAIN s
  BY <1>1, <1>2, <1>3
<1>5. ASSUME NEW i \in DOMAIN s \ {1}
      PROVE  t[i] = s[i]
  <2>1. i - 1 \in DOMAIN Tail(s) /\ (i - 1) + 1 = i
    BY <1>1
  <2> QED
    BY <1>1, <1>3, <2>1
<1> QED
  BY <1>3, <1>4, <1>5

\* The stack without the newest record.
LEMMA LastRemoved ==
  ASSUME NEW S, NEW s \in Seq(S), s # <<>>
  PROVE  LET t == SubSeq(s, 1, Len(s) - 1)
         IN  /\ t \in Seq(S) /\ Len(t) = Len(s) - 1 /\ DOMAIN t = 1 .. Len(s) - 1
             /\ \A i \in 1 .. Len(s) - 1 : t[i] = s[i]
<1>1. Len(s) \in Nat \ {0} /\ DOMAIN s = 1 .. Len(s)
  BY EmptySeq, LenProperties
<1> DEFINE t == SubSeq(s, 1, Len(s) - 1)
<1>2. t \in Seq(S) /\ Len(t) = Len(s) - 1 /\ \A i \in 1 .. Len(s) - 1 : t[i] = s[i]
  BY <1>1, SubSeqProperties
<1>3. DOMAIN t = 1 .. Len(t)
  BY <1>2
<1> QED
  BY <1>2, <1>3

-----------------------------------------------------------------------------
(* The stack and the calls.                                                *)

\* What the types say of the elements.
LEMMA Elements ==
  ASSUME PinoTypeOK
  PROVE  /\ Len(records) \in Nat /\ DOMAIN records = 1 .. Len(records)
         /\ \A r \in DOMAIN records : records[r] \in Record
         /\ Len(stack) \in Nat /\ DOMAIN stack = 1 .. Len(stack)
         /\ \A i \in DOMAIN stack : stack[i] \in DOMAIN records
         /\ Len(frames) \in Nat /\ DOMAIN frames = 1 .. Len(frames)
         /\ \A i \in DOMAIN frames : frames[i] \in Frame
         /\ Len(outcomes) \in Nat /\ DOMAIN outcomes = 1 .. Len(outcomes)
         /\ \A i \in DOMAIN outcomes : outcomes[i] \in Outcome
<1>1. /\ stack \in Seq(DOMAIN records) /\ frames \in Seq(Frame)
      /\ records \in Seq(Record) /\ outcomes \in Seq(Outcome)
  BY DEF PinoTypeOK
<1>2. Len(records) \in Nat /\ DOMAIN records = 1 .. Len(records) /\ \A r \in DOMAIN records : records[r] \in Record
  BY <1>1
<1>3. Len(stack) \in Nat /\ DOMAIN stack = 1 .. Len(stack) /\ \A i \in DOMAIN stack : stack[i] \in DOMAIN records
  BY <1>1
<1>4. Len(frames) \in Nat /\ DOMAIN frames = 1 .. Len(frames) /\ \A i \in DOMAIN frames : frames[i] \in Frame
  BY <1>1
<1>5. Len(outcomes) \in Nat /\ DOMAIN outcomes = 1 .. Len(outcomes) /\ \A i \in DOMAIN outcomes : outcomes[i] \in Outcome
  BY <1>1
<1> QED
  BY <1>2, <1>3, <1>4, <1>5

\* The innermost call.
LEMMA Innermost ==
  ASSUME PinoInv, InFlight
  PROVE  /\ Head(frames) = frames[1] /\ 1 \in DOMAIN frames /\ Head(frames) \in Frame
         /\ Head(frames).record \in DOMAIN records /\ Head(frames).counter = Head(frames).record
         /\ frames # <<>>
<1>1. frames # <<>> /\ frames \in Seq(Frame)
  BY DEF InFlight, PinoInv, PinoTypeOK
<1>2. Head(frames) = frames[1] /\ 1 \in DOMAIN frames /\ Head(frames) \in Frame
  BY <1>1, Popped
<1> QED
  BY <1>1, <1>2 DEF PinoInv, Nesting

\* A hook in progress finds its own record on top of the stack.
LEMMA TopIs ==
  ASSUME PinoInv, InFlight, Head(frames).at # "reporting"
  PROVE  /\ stack # <<>> /\ Len(stack) \in DOMAIN stack
         /\ stack[Len(stack)] = Head(frames).record /\ Top(stack) = Head(frames).record
<1> DEFINE r == Head(frames).record
<1>0. /\ Head(frames) = frames[1] /\ 1 \in DOMAIN frames /\ r \in DOMAIN records
      /\ Len(records) \in Nat /\ DOMAIN records = 1 .. Len(records)
      /\ Len(stack) \in Nat /\ DOMAIN stack = 1 .. Len(stack)
      /\ \A i \in DOMAIN stack : stack[i] \in DOMAIN records
      /\ Len(frames) \in Nat /\ DOMAIN frames = 1 .. Len(frames)
  BY Innermost, Elements DEF PinoInv
<1>1. \A j \in DOMAIN frames : frames[j].record <= r /\ frames[j].record \in Nat
  <2> TAKE j \in DOMAIN frames
  <2>1. frames[j].record \in DOMAIN records
    BY DEF PinoInv, Nesting
  <2>2. j = 1 \/ 1 < j
    BY <1>0
  <2> QED
    BY <1>0, <2>1, <2>2 DEF PinoInv, Nesting
<1>2. \E k \in DOMAIN frames : Holds(frames[k]) /\ frames[k].record = r
  <2>1. CASE Holds(frames[1])
    BY <1>0, <2>1
  <2>2. CASE ~Holds(frames[1])
    <3>1. frames[1].hook = "streamWrite"
      BY <1>0, <2>2 DEF Holds
    <3>2. 2 \in DOMAIN frames /\ frames[2].record = r /\ frames[2].hook = "logMethod" /\ frames[2].at = "written"
      BY <1>0, <3>1 DEF PinoInv, Nesting
    <3> QED
      BY <3>2 DEF Holds
  <2> QED
    BY <2>1, <2>2
<1>3. PICK i \in DOMAIN stack : stack[i] = r
  BY <1>2 DEF PinoInv, StackIs
<1>4. Len(stack) \in DOMAIN stack /\ i <= Len(stack)
  BY <1>0, <1>3
<1>5. stack[Len(stack)] <= r
  <2>1. PICK k \in DOMAIN frames : frames[k].record = stack[Len(stack)]
    BY <1>4 DEF PinoInv, StackIs
  <2> QED
    BY <1>1, <2>1
<1>6. i < Len(stack) => r < stack[Len(stack)]
  BY <1>3, <1>4 DEF PinoInv, StackIs
<1>7. stack[Len(stack)] = r
  BY <1>0, <1>3, <1>4, <1>5, <1>6
<1>8. stack # <<>>
  BY <1>0, <1>4
<1> QED
  BY <1>4, <1>7, <1>8 DEF Top

\* A hook that returns takes its own record off, which is the newest.
LEMMA RemovesTheTop ==
  ASSUME PinoInv, InFlight, Holds(Head(frames))
  PROVE  Removed(stack, Head(frames).record) = SubSeq(stack, 1, Len(stack) - 1)
<1> DEFINE r == Head(frames).record
           places == {i \in DOMAIN stack : stack[i] = r}
<1>1. /\ Len(stack) \in DOMAIN stack /\ stack[Len(stack)] = r
      /\ Len(stack) \in Nat /\ DOMAIN stack = 1 .. Len(stack)
      /\ \A i \in DOMAIN stack : stack[i] \in Nat
      /\ stack \in Seq(Nat)
  <2>1. Head(frames).at # "reporting"
    BY DEF Holds
  <2>2. Len(records) \in Nat /\ DOMAIN records = 1 .. Len(records) /\ stack \in Seq(DOMAIN records)
    BY Elements DEF PinoInv, PinoTypeOK
  <2>3. stack \in Seq(Nat)
    BY <2>2
  <2> QED
    BY <2>1, <2>2, <2>3, TopIs, Elements DEF PinoInv
<1>2. places = {Len(stack)}
  <2>1. ASSUME NEW i \in DOMAIN stack, i # Len(stack)
        PROVE  stack[i] # r
    <3>1. i < Len(stack)
      BY <1>1, <2>1
    <3>2. stack[i] < stack[Len(stack)]
      BY <1>1, <3>1 DEF PinoInv, StackIs
    <3> QED
      BY <1>1, <3>2
  <2> QED
    BY <1>1, <2>1
<1>3. Max(places) = Len(stack)
  BY <1>1, <1>2 DEF Max
<1>4. Removed(stack, r) = SubSeq(stack, 1, Len(stack) - 1) \o SubSeq(stack, Len(stack) + 1, Len(stack))
  BY <1>2, <1>3 DEF Removed, RemoveAt
<1>5. SubSeq(stack, Len(stack) + 1, Len(stack)) = <<>>
  BY <1>1, SubSeqEmpty
<1>6. SubSeq(stack, 1, Len(stack) - 1) \in Seq(Nat)
  BY <1>1, SubSeqProperties
<1> HIDE DEF r, places
<1>7. SubSeq(stack, 1, Len(stack) - 1) \o <<>> = SubSeq(stack, 1, Len(stack) - 1)
  BY <1>6, ConcatEmptySeq
<1> QED
  BY <1>4, <1>5, <1>7 DEF r

-----------------------------------------------------------------------------
(* The steps.                                                              *)

\* A record is opened: by logMethod, or by a line of its own.
LEMMA OpensKeep ==
  ASSUME PinoInv, NEW hook \in {"logMethod", "orphanLine"}, NEW orphan \in BOOLEAN,
         records' = Append(records, NewRecord(orphan)),
         stack' = Append(stack, NewId),
         frames' = <<HookFrame(hook, "masking", NewId, Top(stack'))>> \o frames,
         UNCHANGED <<reporting, outcomes>>
  PROVE  PinoInv'
<1> DEFINE n == NewId
           f == HookFrame(hook, "masking", n, n)
           new == NewRecord(orphan)
<1>0. /\ Len(records) \in Nat /\ DOMAIN records = 1 .. Len(records) /\ n = Len(records) + 1 /\ n \in Nat \ {0}
      /\ Len(stack) \in Nat /\ DOMAIN stack = 1 .. Len(stack)
      /\ \A i \in DOMAIN stack : stack[i] \in DOMAIN records
      /\ DOMAIN frames = 1 .. Len(frames) /\ Len(frames) \in Nat
      /\ stack \in Seq(DOMAIN records) /\ frames \in Seq(Frame) /\ records \in Seq(Record)
      /\ outcomes \in Seq(Outcome) /\ reporting \in BOOLEAN
  BY Elements DEF PinoInv, PinoTypeOK, NewId
<1>1. new \in Record
  <2>1. <<"stream-write">> \in Seq(Stages) /\ <<>> \in Seq(Stages)
    BY DEF Stages
  <2> QED
    BY <1>0, <2>1 DEF NewRecord, Record
<1>2. /\ ~new.reported /\ new.counts = 0 /\ new.masked = 0 /\ new.collected = 0 /\ new.quiet = reporting
  BY DEF NewRecord
<1>3. /\ records' \in Seq(Record) /\ Len(records') = n /\ DOMAIN records' = 1 .. n
      /\ records'[n] = new /\ \A r \in DOMAIN records : r \in DOMAIN records' /\ records'[r] = records[r]
  BY <1>0, <1>1
<1>4. /\ DOMAIN stack' = 1 .. Len(stack) + 1 /\ Len(stack') = Len(stack) + 1 /\ stack'[Len(stack) + 1] = n
      /\ \A i \in DOMAIN stack : i \in DOMAIN stack' /\ stack'[i] = stack[i]
  BY <1>0
<1>a. stack' \in Seq(DOMAIN records')
  <2>1. stack \in Seq(DOMAIN records') /\ n \in DOMAIN records'
    BY <1>0, <1>3
  <2> QED
    BY <2>1
<1>5. Top(stack') = n
  <2>1. stack' # <<>>
    BY <1>0, <1>4
  <2> QED
    BY <1>4, <2>1 DEF Top
<1>6. /\ f \in Frame /\ f.hook = hook /\ f.at = "masking" /\ f.record = n /\ f.counter = n
  BY <1>0 DEF HookFrame, Frame
<1>7. frames' = <<f>> \o frames
  BY <1>5
<1> HIDE DEF f, n, new
<1>8. /\ frames' \in Seq(Frame) /\ DOMAIN frames' = 1 .. Len(frames) + 1 /\ frames'[1] = f
      /\ \A i \in DOMAIN frames : i + 1 \in DOMAIN frames' /\ frames'[i + 1] = frames[i]
  BY <1>0, <1>6, <1>7, Pushed
<1>9. \A i \in DOMAIN frames' : i = 1 \/ (i - 1 \in DOMAIN frames /\ frames'[i] = frames[i - 1])
  <2> TAKE i \in DOMAIN frames'
  <2>1. CASE i # 1
    <3>1. i - 1 \in DOMAIN frames /\ (i - 1) + 1 = i
      BY <1>0, <1>8, <2>1
    <3> QED
      BY <1>8, <3>1
  <2> QED
    BY <2>1
<1>10. PinoTypeOK'
  BY <1>0, <1>3, <1>a, <1>8 DEF PinoTypeOK
<1>11. \A i \in DOMAIN frames : frames[i].record \in DOMAIN records /\ frames[i].record < n
  BY <1>0 DEF PinoInv, Nesting
<1>12. Nesting'
  <2>1. ASSUME NEW i \in DOMAIN frames', i # 1
        PROVE  /\ i - 1 \in DOMAIN frames /\ frames'[i] = frames[i - 1]
               /\ i \in DOMAIN frames \/ i + 1 \notin DOMAIN frames'
               /\ i \in DOMAIN frames => frames'[i + 1] = frames[i] /\ i + 1 \in DOMAIN frames'
    BY <1>0, <1>8, <1>9, <2>1
  <2>2. ASSUME NEW i \in DOMAIN frames'
        PROVE  /\ frames'[i].record \in DOMAIN records' /\ frames'[i].counter = frames'[i].record
               /\ frames'[i].hook # "logMethod" => frames'[i].at \in {"masking", "reporting"}
               /\ frames'[i].hook = "streamWrite" =>
                    /\ i + 1 \in DOMAIN frames' /\ frames'[i + 1].record = frames'[i].record
                    /\ frames'[i + 1].hook = "logMethod" /\ frames'[i + 1].at = "written"
    <3>1. CASE i = 1
      BY <1>0, <1>3, <1>6, <1>8, <3>1
    <3>2. CASE i # 1
      <4>1. i - 1 \in DOMAIN frames /\ frames'[i] = frames[i - 1] /\ (i - 1) + 1 = i
        BY <1>0, <1>8, <2>1, <3>2
      <4>2. /\ frames[i - 1].record \in DOMAIN records' /\ frames[i - 1].counter = frames[i - 1].record
            /\ frames[i - 1].hook # "logMethod" => frames[i - 1].at \in {"masking", "reporting"}
            /\ frames[i - 1].hook = "streamWrite" =>
                 /\ i \in DOMAIN frames /\ frames[i].record = frames[i - 1].record
                 /\ frames[i].hook = "logMethod" /\ frames[i].at = "written"
        BY <1>3, <4>1 DEF PinoInv, Nesting
      <4> QED
        BY <2>1, <3>2, <4>1, <4>2
    <3> QED
      BY <3>1, <3>2
  <2>3. ASSUME NEW i \in DOMAIN frames', NEW j \in DOMAIN frames', i < j
        PROVE  \/ frames'[j].record < frames'[i].record
               \/ frames'[j].record = frames'[i].record /\ frames'[i].hook = "streamWrite" /\ j = i + 1
    <3>0. j # 1 /\ j - 1 \in DOMAIN frames /\ frames'[j] = frames[j - 1]
      BY <1>0, <1>8, <1>9, <2>3
    <3>1. CASE i = 1
      BY <1>6, <1>8, <1>11, <3>0, <3>1
    <3>2. CASE i # 1
      <4>1. i - 1 \in DOMAIN frames /\ frames'[i] = frames[i - 1] /\ i - 1 < j - 1
        BY <1>0, <1>8, <1>9, <2>3, <3>2
      <4>2. \/ frames[j - 1].record < frames[i - 1].record
            \/ frames[j - 1].record = frames[i - 1].record /\ frames[i - 1].hook = "streamWrite" /\ j - 1 = (i - 1) + 1
        BY <3>0, <4>1 DEF PinoInv, Nesting
      <4> QED
        BY <1>0, <1>8, <3>0, <4>1, <4>2
    <3> QED
      BY <3>1, <3>2
  <2> QED
    BY <2>2, <2>3 DEF Nesting
<1>13. StackIs'
  <2>1. \A i, j \in DOMAIN stack' : i < j => stack'[i] < stack'[j]
    <3> TAKE i, j \in DOMAIN stack'
    <3> HAVE i < j
    <3>1. i \in DOMAIN stack /\ stack'[i] = stack[i] /\ stack[i] \in DOMAIN records
      BY <1>0, <1>4
    <3>2. CASE j = Len(stack) + 1
      BY <1>0, <1>4, <3>1, <3>2
    <3>3. CASE j # Len(stack) + 1
      <4>1. j \in DOMAIN stack /\ stack'[j] = stack[j]
        BY <1>0, <1>4, <3>3
      <4> QED
        BY <3>1, <4>1 DEF PinoInv, StackIs
    <3> QED
      BY <3>2, <3>3
  <2>2. \A i \in DOMAIN stack' : \E k \in DOMAIN frames' : Holds(frames'[k]) /\ frames'[k].record = stack'[i]
    <3> TAKE i \in DOMAIN stack'
    <3>1. CASE i = Len(stack) + 1
      <4>1. 1 \in DOMAIN frames' /\ Holds(frames'[1]) /\ frames'[1].record = stack'[i]
        BY <1>0, <1>4, <1>6, <1>8, <3>1 DEF Holds
      <4> QED
        BY <4>1
    <3>2. CASE i # Len(stack) + 1
      <4>1. i \in DOMAIN stack /\ stack'[i] = stack[i]
        BY <1>0, <1>4, <3>2
      <4>2. PICK k \in DOMAIN frames : Holds(frames[k]) /\ frames[k].record = stack[i]
        BY <4>1 DEF PinoInv, StackIs
      <4>3. k + 1 \in DOMAIN frames' /\ Holds(frames'[k + 1]) /\ frames'[k + 1].record = stack'[i]
        BY <1>8, <4>1, <4>2
      <4> QED
        BY <4>3
    <3> QED
      BY <3>1, <3>2
  <2>3. \A k \in DOMAIN frames' : Holds(frames'[k]) => \E i \in DOMAIN stack' : stack'[i] = frames'[k].record
    <3> TAKE k \in DOMAIN frames'
    <3> HAVE Holds(frames'[k])
    <3>1. CASE k = 1
      <4>1. Len(stack) + 1 \in DOMAIN stack' /\ stack'[Len(stack) + 1] = frames'[k].record
        BY <1>0, <1>4, <1>6, <1>8, <3>1
      <4> QED
        BY <4>1
    <3>2. CASE k # 1
      <4>1. k - 1 \in DOMAIN frames /\ frames'[k] = frames[k - 1]
        BY <1>9, <3>2
      <4>2. PICK i \in DOMAIN stack : stack[i] = frames[k - 1].record
        BY <4>1 DEF PinoInv, StackIs
      <4> QED
        BY <1>4, <4>1, <4>2
    <3> QED
      BY <3>1, <3>2
  <2> QED
    BY <2>1, <2>2, <2>3 DEF StackIs
<1>14. Observing'
  <2>0. \A i \in DOMAIN frames' : frames'[i].at = "reporting" =>
          i # 1 /\ i - 1 \in DOMAIN frames /\ frames[i - 1].at = "reporting"
    BY <1>6, <1>8, <1>9
  <2>1. reporting' <=> \E i \in DOMAIN frames' : frames'[i].at = "reporting"
    <3>1. ASSUME reporting
          PROVE  \E i \in DOMAIN frames' : frames'[i].at = "reporting"
      <4>1. PICK i \in DOMAIN frames : frames[i].at = "reporting"
        BY <3>1 DEF PinoInv, Observing
      <4>2. i + 1 \in DOMAIN frames' /\ frames'[i + 1].at = "reporting"
        BY <1>8, <4>1
      <4> QED
        BY <4>2
    <3>2. ASSUME NEW i \in DOMAIN frames', frames'[i].at = "reporting"
          PROVE  reporting
      BY <2>0, <3>2 DEF PinoInv, Observing
    <3> QED
      BY <3>1, <3>2
  <2>2. \A i, j \in DOMAIN frames' : frames'[i].at = "reporting" /\ frames'[j].at = "reporting" => i = j
    <3> TAKE i, j \in DOMAIN frames'
    <3> HAVE frames'[i].at = "reporting" /\ frames'[j].at = "reporting"
    <3>1. i - 1 = j - 1
      BY <2>0 DEF PinoInv, Observing
    <3> QED
      BY <1>0, <1>8, <3>1
  <2>3. ASSUME NEW i \in DOMAIN frames'
        PROVE  records'[frames'[i].record].quiet <=> \E j \in DOMAIN frames' : i < j /\ frames'[j].at = "reporting"
    <3>1. CASE i = 1
      <4>1. records'[frames'[i].record].quiet <=> reporting
        BY <1>2, <1>3, <1>6, <1>8, <3>1
      <4>2. (\E j \in DOMAIN frames' : frames'[j].at = "reporting") <=> \E j \in DOMAIN frames' : 1 < j /\ frames'[j].at = "reporting"
        BY <1>0, <1>6, <1>8, <2>0
      <4> QED
        BY <2>1, <3>1, <4>1, <4>2
    <3>2. CASE i # 1
      <4>1. i - 1 \in DOMAIN frames /\ frames'[i] = frames[i - 1]
        BY <1>9, <3>2
      <4>2. records'[frames'[i].record].quiet <=> records[frames[i - 1].record].quiet
        BY <1>3, <1>11, <4>1
      <4>3. records[frames[i - 1].record].quiet <=> \E j \in DOMAIN frames : i - 1 < j /\ frames[j].at = "reporting"
        BY <4>1 DEF PinoInv, Observing
      <4>4. ASSUME NEW j \in DOMAIN frames, i - 1 < j, frames[j].at = "reporting"
            PROVE  \E l \in DOMAIN frames' : i < l /\ frames'[l].at = "reporting"
        <5>1. j + 1 \in DOMAIN frames' /\ i < j + 1 /\ frames'[j + 1].at = "reporting"
          BY <1>0, <1>8, <4>4
        <5> QED
          BY <5>1
      <4>5. ASSUME NEW j \in DOMAIN frames', i < j, frames'[j].at = "reporting"
            PROVE  \E l \in DOMAIN frames : i - 1 < l /\ frames[l].at = "reporting"
        <5>1. j - 1 \in DOMAIN frames /\ i - 1 < j - 1 /\ frames[j - 1].at = "reporting"
          BY <1>0, <1>8, <2>0, <4>5
        <5> QED
          BY <5>1
      <4> QED
        BY <4>2, <4>3, <4>4, <4>5
    <3> QED
      BY <3>1, <3>2
  <2> QED
    BY <2>1, <2>2, <2>3 DEF Observing
<1>15. Told'
  <2>1. \A r \in DOMAIN records' : r \in DOMAIN records \/ r = n
    BY <1>0, <1>3
  <2> QED
    BY <1>2, <1>3, <2>1 DEF PinoInv, Told
<1>16. \A r \in DOMAIN records : Observed(r)' <=> Observed(r)
  <2> TAKE r \in DOMAIN records
  <2>1. Observed(r) => Observed(r)'
    BY <1>8 DEF Observed
  <2>2. Observed(r)' => Observed(r)
    BY <1>6, <1>8, <1>9 DEF Observed
  <2> QED
    BY <2>1, <2>2
<1>17. Counting'
  <2>1. ASSUME NEW r \in DOMAIN records
        PROVE  /\ records'[r].counts = records'[r].masked
               /\ ~records'[r].reported => \E i \in DOMAIN frames' : Holds(frames'[i]) /\ frames'[i].record = r
               /\ records'[r].collected = IF records'[r].reported /\ ~Observed(r)' THEN records'[r].counts ELSE 0
    <3>1. /\ records[r].counts = records[r].masked
          /\ ~records[r].reported => \E i \in DOMAIN frames : Holds(frames[i]) /\ frames[i].record = r
          /\ records[r].collected = IF records[r].reported /\ ~Observed(r) THEN records[r].counts ELSE 0
      BY DEF PinoInv, Counting
    <3>2. records'[r] = records[r]
      BY <1>3
    <3> QED
      BY <1>8, <1>16, <3>1, <3>2
  <2>2. /\ records'[n].counts = records'[n].masked
        /\ \E i \in DOMAIN frames' : Holds(frames'[i]) /\ frames'[i].record = n
        /\ records'[n].collected = 0 /\ ~records'[n].reported
    <3>1. 1 \in DOMAIN frames' /\ Holds(frames'[1]) /\ frames'[1].record = n
      BY <1>0, <1>6, <1>8 DEF Holds
    <3> QED
      BY <1>2, <1>3, <3>1
  <2>3. \A r \in DOMAIN records' : r \in DOMAIN records \/ r = n
    BY <1>0, <1>3
  <2>4. ASSUME NEW i \in DOMAIN frames'
        PROVE  /\ frames'[i].at = "reporting" => records'[frames'[i].record].reported
               /\ frames'[i].at \in {"masking", "building"} => ~records'[frames'[i].record].reported
    <3>1. CASE i = 1
      BY <1>2, <1>3, <1>6, <1>8, <3>1
    <3>2. CASE i # 1
      <4>1. i - 1 \in DOMAIN frames /\ frames'[i] = frames[i - 1]
        BY <1>9, <3>2
      <4>2. records'[frames'[i].record] = records[frames[i - 1].record]
        BY <1>3, <1>11, <4>1
      <4> QED
        BY <4>1, <4>2 DEF PinoInv, Counting
    <3> QED
      BY <3>1, <3>2
  <2>5. \A r \in DOMAIN records' :
          /\ records'[r].counts = records'[r].masked
          /\ ~records'[r].reported => \E i \in DOMAIN frames' : Holds(frames'[i]) /\ frames'[i].record = r
          /\ records'[r].collected = IF records'[r].reported /\ ~Observed(r)' THEN records'[r].counts ELSE 0
    <3> TAKE r \in DOMAIN records'
    <3>1. CASE r \in DOMAIN records
      BY <2>1, <3>1
    <3>2. CASE r = n
      BY <2>2, <3>2
    <3> QED
      BY <2>3, <3>1, <3>2
  <2> QED
    BY <2>4, <2>5 DEF Counting
<1> QED
  BY <1>10, <1>12, <1>13, <1>14, <1>15, <1>17 DEF PinoInv

\* One value more is masked for a record, and counted onto it.
LEMMA OneMore ==
  ASSUME records \in Seq(Record), NEW r \in DOMAIN records
  PROVE  LET u == Counted(r, r)
         IN  /\ u \in Seq(Record) /\ DOMAIN u = DOMAIN records
             /\ \A s \in DOMAIN records :
                  /\ u[s].reported = records[s].reported /\ u[s].quiet = records[s].quiet
                  /\ u[s].collected = records[s].collected
                  /\ s # r => u[s] = records[s]
             /\ u[r].counts = records[r].counts + 1 /\ u[r].masked = records[r].masked + 1
<1>0. Len(records) \in Nat /\ DOMAIN records = 1 .. Len(records) /\ \A s \in DOMAIN records : records[s] \in Record
  BY LenProperties
<1> DEFINE one == [records[r] EXCEPT !.masked = @ + 1, !.counts = @ + 1]
           v == [records EXCEPT ![r] = one]
<1>a. /\ records[r].masked + 1 \in Nat /\ records[r].counts + 1 \in Nat /\ records[r] \in Record
  BY <1>0 DEF Record
<1>1. /\ one \in Record /\ one.reported = records[r].reported /\ one.quiet = records[r].quiet
      /\ one.collected = records[r].collected
      /\ one.counts = records[r].counts + 1 /\ one.masked = records[r].masked + 1
  BY <1>a DEF Record
<1>2. Counted(r, r) = v
  BY <1>0 DEF Counted, Record
<1> HIDE DEF one
<1>3. /\ v \in Seq(Record) /\ DOMAIN v = DOMAIN records
      /\ v[r] = one /\ \A s \in DOMAIN records : s # r => v[s] = records[s]
  BY <1>0, <1>1, ExceptSeq
<1> HIDE DEF v
<1> QED
  BY <1>1, <1>2, <1>3

\* A value is masked: it is counted onto the record of the walk.
LEMMA MaskingKeeps ==
  ASSUME PinoInv, InFlight, Head(frames).at = "masking", NEW r, r = Head(frames).record,
         records' \in Seq(Record), DOMAIN records' = DOMAIN records,
         \A s \in DOMAIN records :
           /\ records'[s].reported = records[s].reported /\ records'[s].quiet = records[s].quiet
           /\ records'[s].collected = records[s].collected
           /\ s # r => records'[s] = records[s],
         records'[r].counts = records[r].counts + 1, records'[r].masked = records[r].masked + 1,
         UNCHANGED <<stack, reporting, frames, outcomes>>
  PROVE  PinoInv'
<1>0. /\ r \in DOMAIN records /\ frames[1].at = "masking" /\ 1 \in DOMAIN frames /\ frames[1].record = r
  BY Innermost DEF PinoInv
<1>1. ~records[r].reported
  BY <1>0 DEF PinoInv, Counting
<1>2. DOMAIN records' = DOMAIN records
  OBVIOUS
<1>3. \A s \in DOMAIN records :
        /\ records'[s].reported = records[s].reported /\ records'[s].quiet = records[s].quiet
        /\ records'[s].collected = records[s].collected
        /\ s # r => records'[s] = records[s]
  OBVIOUS
<1>5. PinoTypeOK'
  BY <1>2 DEF PinoInv, PinoTypeOK
<1>6. Nesting'
  BY <1>2 DEF PinoInv, Nesting
<1>7. StackIs'
  BY DEF PinoInv, StackIs
<1>8. Observing'
  <2>1. \A i \in DOMAIN frames : frames[i].record \in DOMAIN records
    BY DEF PinoInv, Nesting
  <2> QED
    BY <1>3, <2>1 DEF PinoInv, Observing
<1>9. Told'
  <2>1. ASSUME NEW i \in DOMAIN outcomes
        PROVE  /\ outcomes[i].record \in DOMAIN records'
               /\ records'[outcomes[i].record].reported /\ ~records'[outcomes[i].record].quiet
               /\ outcomes[i].values = records'[outcomes[i].record].counts
    <3>1. /\ outcomes[i].record \in DOMAIN records
          /\ records[outcomes[i].record].reported /\ ~records[outcomes[i].record].quiet
          /\ outcomes[i].values = records[outcomes[i].record].counts
      BY DEF PinoInv, Told
    <3>2. outcomes[i].record # r
      BY <1>1, <3>1
    <3> QED
      BY <1>2, <1>3, <3>1, <3>2
  <2>2. \A s \in DOMAIN records' :
          records'[s].reported /\ ~records'[s].quiet => \E i \in DOMAIN outcomes : outcomes[i].record = s
    BY <1>2, <1>3 DEF PinoInv, Told
  <2> QED
    BY <2>1, <2>2 DEF PinoInv, Told
<1>10. Counting'
  <2>1. ASSUME NEW s \in DOMAIN records'
        PROVE  /\ records'[s].counts = records'[s].masked
               /\ ~records'[s].reported => \E i \in DOMAIN frames : Holds(frames[i]) /\ frames[i].record = s
               /\ records'[s].collected = IF records'[s].reported /\ ~Observed(s) THEN records'[s].counts ELSE 0
    <3>1. /\ records[s].counts = records[s].masked
          /\ ~records[s].reported => \E i \in DOMAIN frames : Holds(frames[i]) /\ frames[i].record = s
          /\ records[s].collected = IF records[s].reported /\ ~Observed(s) THEN records[s].counts ELSE 0
      BY <1>2 DEF PinoInv, Counting
    <3> QED
      BY <1>1, <1>2, <1>3, <3>1
  <2>2. ASSUME NEW i \in DOMAIN frames
        PROVE  /\ frames[i].at = "reporting" => records'[frames[i].record].reported
               /\ frames[i].at \in {"masking", "building"} => ~records'[frames[i].record].reported
    <3>1. frames[i].record \in DOMAIN records
      BY DEF PinoInv, Nesting
    <3> QED
      BY <1>3, <3>1 DEF PinoInv, Counting
  <2> QED
    BY <2>1, <2>2 DEF Counting, Observed
<1> QED
  BY <1>5, <1>6, <1>7, <1>8, <1>9, <1>10 DEF PinoInv

\* The two ways a value is counted, once its counter is the record's.
LEMMA MaskStepsKeep ==
  ASSUME PinoInv, MaskValue \/ MaskingFails
  PROVE  PinoInv'
<1> DEFINE r == Head(frames).record
<1>1. InFlight /\ Head(frames).at = "masking" /\ UNCHANGED <<stack, reporting, frames, outcomes>>
  BY DEF MaskValue, MaskingFails
<1>2. Head(frames).counter = r /\ Top(stack) = r
  BY <1>1, Innermost, TopIs
<1>3. records' = Counted(r, r)
  BY <1>2 DEF MaskValue, MaskingFails
<1>4. records \in Seq(Record) /\ r \in DOMAIN records
  BY <1>1, Innermost DEF PinoInv, PinoTypeOK
<1> HIDE DEF r
<1>5. /\ records' \in Seq(Record) /\ DOMAIN records' = DOMAIN records
      /\ \A s \in DOMAIN records :
           /\ records'[s].reported = records[s].reported /\ records'[s].quiet = records[s].quiet
           /\ records'[s].collected = records[s].collected
           /\ s # r => records'[s] = records[s]
      /\ records'[r].counts = records[r].counts + 1 /\ records'[r].masked = records[r].masked + 1
  BY <1>3, <1>4, OneMore
<1> QED
  BY <1>1, <1>5, MaskingKeeps DEF r

-----------------------------------------------------------------------------
(* What a step leaves of the nesting and of the stack.                     *)

\* The calls and their records stay, and only the innermost one changes place.
LEMMA SameNesting ==
  ASSUME PinoInv, 1 \in DOMAIN frames, DOMAIN frames' = DOMAIN frames, DOMAIN records' = DOMAIN records,
         \A i \in DOMAIN frames :
           /\ frames'[i].record = frames[i].record /\ frames'[i].hook = frames[i].hook
           /\ frames'[i].counter = frames[i].counter,
         frames[1].hook # "logMethod" => frames'[1].at \in {"masking", "reporting"},
         \A i \in DOMAIN frames \ {1} : frames'[i] = frames[i]
  PROVE  Nesting'
<1>1. ASSUME NEW i \in DOMAIN frames
      PROVE  /\ frames'[i].record \in DOMAIN records' /\ frames'[i].counter = frames'[i].record
             /\ frames'[i].hook # "logMethod" => frames'[i].at \in {"masking", "reporting"}
             /\ frames'[i].hook = "streamWrite" =>
                  /\ i + 1 \in DOMAIN frames /\ frames'[i + 1].record = frames'[i].record
                  /\ frames'[i + 1].hook = "logMethod" /\ frames'[i + 1].at = "written"
  <2>1. /\ frames[i].record \in DOMAIN records /\ frames[i].counter = frames[i].record
        /\ frames[i].hook # "logMethod" => frames[i].at \in {"masking", "reporting"}
        /\ frames[i].hook = "streamWrite" =>
             /\ i + 1 \in DOMAIN frames /\ frames[i + 1].record = frames[i].record
             /\ frames[i + 1].hook = "logMethod" /\ frames[i + 1].at = "written"
    BY DEF PinoInv, Nesting
  <2>2. frames'[i].hook # "logMethod" => frames'[i].at \in {"masking", "reporting"}
    BY <2>1
  <2>3. i + 1 \in DOMAIN frames => frames'[i + 1] = frames[i + 1]
    BY Elements DEF PinoInv
  <2> QED
    BY <2>1, <2>2, <2>3
<1>2. ASSUME NEW i \in DOMAIN frames, NEW j \in DOMAIN frames, i < j
      PROVE  \/ frames'[j].record < frames'[i].record
             \/ frames'[j].record = frames'[i].record /\ frames'[i].hook = "streamWrite" /\ j = i + 1
  <2>1. \/ frames[j].record < frames[i].record
        \/ frames[j].record = frames[i].record /\ frames[i].hook = "streamWrite" /\ j = i + 1
    BY <1>2 DEF PinoInv, Nesting
  <2> QED
    BY <2>1
<1>3. DOMAIN frames' = DOMAIN frames
  OBVIOUS
<1> QED
  BY <1>1, <1>2, <1>3, ZenonT(30) DEF Nesting

\* The innermost call goes on to another place.
LEMMA GoesOn ==
  ASSUME PinoInv, InFlight, NEW a \in {"masking", "building", "written", "reporting"},
         Head(frames).hook # "logMethod" => a \in {"masking", "reporting"},
         frames' = <<[Head(frames) EXCEPT !.at = a]>> \o Tail(frames),
         DOMAIN records' = DOMAIN records
  PROVE  /\ frames' \in Seq(Frame) /\ DOMAIN frames' = DOMAIN frames /\ frames'[1].at = a
         /\ \A i \in DOMAIN frames : frames'[i].record = frames[i].record /\ frames'[i].hook = frames[i].hook
         /\ \A i \in DOMAIN frames \ {1} : frames'[i] = frames[i]
         /\ Nesting'
<1> DEFINE f == [Head(frames) EXCEPT !.at = a]
<1>1. /\ frames \in Seq(Frame) /\ frames # <<>> /\ Head(frames) = frames[1] /\ 1 \in DOMAIN frames
      /\ Head(frames) \in Frame /\ DOMAIN frames = 1 .. Len(frames) /\ Len(frames) \in Nat
  BY Innermost, Elements DEF PinoInv, PinoTypeOK
<1>2. /\ f \in Frame /\ f.at = a /\ f.record = frames[1].record /\ f.counter = frames[1].counter
      /\ f.hook = frames[1].hook
  BY <1>1 DEF Frame
<1>3. frames' = <<f>> \o Tail(frames)
  OBVIOUS
<1> HIDE DEF f
<1>4. /\ frames' \in Seq(Frame) /\ DOMAIN frames' = DOMAIN frames /\ frames'[1] = f
      /\ \A i \in DOMAIN frames \ {1} : frames'[i] = frames[i]
  BY <1>1, <1>2, <1>3, Replaced
<1>5. \A i \in DOMAIN frames :
        /\ frames'[i].record = frames[i].record /\ frames'[i].hook = frames[i].hook
        /\ frames'[i].counter = frames[i].counter
  BY <1>2, <1>4
<1>6. Nesting'
  BY <1>1, <1>2, <1>4, <1>5, SameNesting
<1> QED
  BY <1>2, <1>4, <1>5, <1>6

\* The innermost call returns.
LEMMA Returns ==
  ASSUME PinoInv, InFlight, frames' = Tail(frames), DOMAIN records' = DOMAIN records
  PROVE  /\ frames' \in Seq(Frame)
         /\ \A i \in DOMAIN frames' : i + 1 \in DOMAIN frames /\ frames'[i] = frames[i + 1]
         /\ \A i \in DOMAIN frames \ {1} : i - 1 \in DOMAIN frames' /\ frames'[i - 1] = frames[i]
         /\ Nesting'
<1>1. /\ frames \in Seq(Frame) /\ frames # <<>> /\ DOMAIN frames = 1 .. Len(frames) /\ Len(frames) \in Nat
  BY Innermost, Elements DEF PinoInv, PinoTypeOK
<1>2. /\ frames' \in Seq(Frame) /\ DOMAIN frames' = 1 .. Len(frames) - 1
      /\ \A i \in DOMAIN frames' : i + 1 \in DOMAIN frames /\ frames'[i] = frames[i + 1]
  BY <1>1, Popped
<1>3. ASSUME NEW i \in DOMAIN frames \ {1}
      PROVE  i - 1 \in DOMAIN frames' /\ frames'[i - 1] = frames[i]
  <2>1. i - 1 \in DOMAIN frames' /\ (i - 1) + 1 = i
    BY <1>1, <1>2
  <2> QED
    BY <1>2, <2>1
<1>4. Nesting'
  <2>1. ASSUME NEW i \in DOMAIN frames'
        PROVE  /\ frames'[i].record \in DOMAIN records' /\ frames'[i].counter = frames'[i].record
               /\ frames'[i].hook # "logMethod" => frames'[i].at \in {"masking", "reporting"}
               /\ frames'[i].hook = "streamWrite" =>
                    /\ i + 1 \in DOMAIN frames' /\ frames'[i + 1].record = frames'[i].record
                    /\ frames'[i + 1].hook = "logMethod" /\ frames'[i + 1].at = "written"
    <3>1. i + 1 \in DOMAIN frames /\ frames'[i] = frames[i + 1] /\ (i + 1) + 1 # 1 /\ ((i + 1) + 1) - 1 = i + 1
      BY <1>1, <1>2
    <3>2. /\ frames[i + 1].record \in DOMAIN records /\ frames[i + 1].counter = frames[i + 1].record
          /\ frames[i + 1].hook # "logMethod" => frames[i + 1].at \in {"masking", "reporting"}
          /\ frames[i + 1].hook = "streamWrite" =>
               /\ (i + 1) + 1 \in DOMAIN frames /\ frames[(i + 1) + 1].record = frames[i + 1].record
               /\ frames[(i + 1) + 1].hook = "logMethod" /\ frames[(i + 1) + 1].at = "written"
      BY <3>1 DEF PinoInv, Nesting
    <3>3. (i + 1) + 1 \in DOMAIN frames => i + 1 \in DOMAIN frames' /\ frames'[i + 1] = frames[(i + 1) + 1]
      BY <1>3, <3>1
    <3> QED
      BY <3>1, <3>2, <3>3
  <2>2. ASSUME NEW i \in DOMAIN frames', NEW j \in DOMAIN frames', i < j
        PROVE  \/ frames'[j].record < frames'[i].record
               \/ frames'[j].record = frames'[i].record /\ frames'[i].hook = "streamWrite" /\ j = i + 1
    <3>1. /\ i + 1 \in DOMAIN frames /\ j + 1 \in DOMAIN frames /\ i + 1 < j + 1
          /\ frames'[i] = frames[i + 1] /\ frames'[j] = frames[j + 1]
      BY <1>1, <1>2, <2>2
    <3>2. \/ frames[j + 1].record < frames[i + 1].record
          \/ frames[j + 1].record = frames[i + 1].record /\ frames[i + 1].hook = "streamWrite" /\ j + 1 = (i + 1) + 1
      BY <3>1 DEF PinoInv, Nesting
    <3> QED
      BY <1>1, <1>2, <3>1, <3>2
  <2> QED
    BY <2>1, <2>2 DEF Nesting
<1> QED
  BY <1>2, <1>3, <1>4

\* The stack stays, and so do the records the calls hold.
LEMMA StackStays ==
  ASSUME PinoInv, UNCHANGED stack,
         \A k \in DOMAIN frames : Holds(frames[k]) =>
           \E l \in DOMAIN frames' : Holds(frames'[l]) /\ frames'[l].record = frames[k].record,
         \A l \in DOMAIN frames' : Holds(frames'[l]) =>
           \E k \in DOMAIN frames : Holds(frames[k]) /\ frames[k].record = frames'[l].record
  PROVE  StackIs'
<1>1. \A i \in DOMAIN stack : \E l \in DOMAIN frames' : Holds(frames'[l]) /\ frames'[l].record = stack[i]
  <2> TAKE i \in DOMAIN stack
  <2>1. PICK k \in DOMAIN frames : Holds(frames[k]) /\ frames[k].record = stack[i]
    BY DEF PinoInv, StackIs
  <2> QED
    BY <2>1
<1>2. \A l \in DOMAIN frames' : Holds(frames'[l]) => \E i \in DOMAIN stack : stack[i] = frames'[l].record
  <2> TAKE l \in DOMAIN frames'
  <2> HAVE Holds(frames'[l])
  <2>1. PICK k \in DOMAIN frames : Holds(frames[k]) /\ frames[k].record = frames'[l].record
    OBVIOUS
  <2> QED
    BY <2>1 DEF PinoInv, StackIs
<1>3. \A i, j \in DOMAIN stack : i < j => stack[i] < stack[j]
  BY DEF PinoInv, StackIs
<1> QED
  BY <1>1, <1>2, <1>3 DEF StackIs

\* The innermost call gives its record up, which was on top.
LEMMA StackShrinks ==
  ASSUME PinoInv, InFlight, Holds(Head(frames)), NEW r, r = Head(frames).record,
         stack' = SubSeq(stack, 1, Len(stack) - 1),
         \A k \in DOMAIN frames : Holds(frames[k]) /\ frames[k].record # r =>
           \E l \in DOMAIN frames' : Holds(frames'[l]) /\ frames'[l].record = frames[k].record,
         \A l \in DOMAIN frames' : Holds(frames'[l]) =>
           \E k \in DOMAIN frames : Holds(frames[k]) /\ frames[k].record = frames'[l].record /\ frames[k].record # r
  PROVE  StackIs' /\ stack' \in Seq(DOMAIN records)
<1>0. /\ stack # <<>> /\ Len(stack) \in DOMAIN stack /\ stack[Len(stack)] = r
      /\ Len(stack) \in Nat /\ DOMAIN stack = 1 .. Len(stack) /\ stack \in Seq(DOMAIN records)
  <2>1. Head(frames).at # "reporting"
    BY DEF Holds
  <2> QED
    BY <2>1, TopIs, Elements DEF PinoInv, PinoTypeOK
<1>1. /\ stack' \in Seq(DOMAIN records) /\ DOMAIN stack' = 1 .. Len(stack) - 1
      /\ \A i \in 1 .. Len(stack) - 1 : stack'[i] = stack[i]
  BY <1>0, LastRemoved
<1>2. \A i \in DOMAIN stack' :
        i \in DOMAIN stack /\ stack'[i] = stack[i] /\ i < Len(stack)
  BY <1>0, <1>1
<1>3. \A i \in DOMAIN stack : stack[i] \in Nat
  <2>1. \A i \in DOMAIN stack : stack[i] \in DOMAIN records
    BY Elements DEF PinoInv
  <2> QED
    BY <2>1, Elements DEF PinoInv
<1>4. \A i \in DOMAIN stack' : stack'[i] # r
  <2> TAKE i \in DOMAIN stack'
  <2>1. stack[i] < stack[Len(stack)]
    BY <1>0, <1>2 DEF PinoInv, StackIs
  <2> QED
    BY <1>0, <1>2, <1>3, <2>1
<1>5. \A i, j \in DOMAIN stack' : i < j => stack'[i] < stack'[j]
  BY <1>2 DEF PinoInv, StackIs
<1>6. \A i \in DOMAIN stack' : \E l \in DOMAIN frames' : Holds(frames'[l]) /\ frames'[l].record = stack'[i]
  <2> TAKE i \in DOMAIN stack'
  <2>1. PICK k \in DOMAIN frames : Holds(frames[k]) /\ frames[k].record = stack[i]
    BY <1>2 DEF PinoInv, StackIs
  <2> QED
    BY <1>2, <1>4, <2>1
<1>7. \A l \in DOMAIN frames' : Holds(frames'[l]) => \E i \in DOMAIN stack' : stack'[i] = frames'[l].record
  <2> TAKE l \in DOMAIN frames'
  <2> HAVE Holds(frames'[l])
  <2>1. PICK k \in DOMAIN frames : Holds(frames[k]) /\ frames[k].record = frames'[l].record /\ frames[k].record # r
    OBVIOUS
  <2>2. PICK i \in DOMAIN stack : stack[i] = frames[k].record
    BY <2>1 DEF PinoInv, StackIs
  <2>3. i \in DOMAIN stack'
    BY <1>0, <1>1, <2>1, <2>2
  <2> QED
    BY <1>2, <2>1, <2>2, <2>3
<1> QED
  BY <1>1, <1>5, <1>6, <1>7 DEF StackIs

-----------------------------------------------------------------------------
(* The steps that report nothing.                                          *)

\* One record changes.
LEMMA Changed ==
  ASSUME PinoTypeOK, NEW r \in DOMAIN records, NEW new \in Record, records' = [records EXCEPT ![r] = new]
  PROVE  /\ records' \in Seq(Record) /\ DOMAIN records' = DOMAIN records
         /\ records'[r] = new /\ \A s \in DOMAIN records : s # r => records'[s] = records[s]
<1>1. records \in Seq(Record) /\ Len(records) \in Nat /\ DOMAIN records = 1 .. Len(records)
  BY Elements DEF PinoTypeOK
<1> QED
  BY <1>1, ExceptSeq

\* pino's own method is called: the record's stage is noted.
LEMMA AfterMaskingKeeps ==
  ASSUME PinoInv, AfterMasking
  PROVE  PinoInv'
<1> DEFINE r == Head(frames).record
           new == [records[r] EXCEPT !.stages = Append(@, "log-method")]
<1>0. /\ InFlight /\ Head(frames) = frames[1] /\ 1 \in DOMAIN frames /\ r \in DOMAIN records
      /\ frames[1].hook = "logMethod" /\ frames[1].at = "masking" /\ records[r] \in Record
      /\ UNCHANGED <<stack, reporting, outcomes>>
  BY Innermost, Elements DEF AfterMasking, PinoInv
<1>1. records' = [records EXCEPT ![r] = new] /\ frames' = <<[Head(frames) EXCEPT !.at = "building"]>> \o Tail(frames)
  BY DEF AfterMasking
<1>2. /\ new \in Record /\ new.counts = records[r].counts /\ new.masked = records[r].masked
      /\ new.reported = records[r].reported /\ new.collected = records[r].collected /\ new.quiet = records[r].quiet
  <2>1. records[r].stages \in Seq(Stages) /\ "log-method" \in Stages
    BY <1>0 DEF Record, Stages
  <2>2. Append(records[r].stages, "log-method") \in Seq(Stages)
    BY <2>1
  <2> QED
    BY <1>0, <2>2 DEF Record
<1> HIDE DEF new
<1>3. /\ records' \in Seq(Record) /\ DOMAIN records' = DOMAIN records
      /\ records'[r] = new /\ \A s \in DOMAIN records : s # r => records'[s] = records[s]
  BY <1>0, <1>1, <1>2, Changed DEF PinoInv
<1>4. \A s \in DOMAIN records :
        /\ records'[s].counts = records[s].counts /\ records'[s].masked = records[s].masked
        /\ records'[s].reported = records[s].reported /\ records'[s].collected = records[s].collected
        /\ records'[s].quiet = records[s].quiet
  BY <1>2, <1>3
<1>5. /\ frames' \in Seq(Frame) /\ DOMAIN frames' = DOMAIN frames /\ frames'[1].at = "building"
      /\ \A i \in DOMAIN frames : frames'[i].record = frames[i].record /\ frames'[i].hook = frames[i].hook
      /\ \A i \in DOMAIN frames \ {1} : frames'[i] = frames[i]
      /\ Nesting'
  BY <1>0, <1>1, <1>3, GoesOn
<1>6. \A i \in DOMAIN frames :
        /\ frames'[i].at = "reporting" <=> frames[i].at = "reporting"
        /\ Holds(frames'[i]) <=> Holds(frames[i])
        /\ frames'[i].at \in {"masking", "building"} => frames[i].at \in {"masking", "building"}
  <2> TAKE i \in DOMAIN frames
  <2>1. CASE i = 1
    BY <1>0, <1>5, <2>1 DEF Holds
  <2>2. CASE i # 1
    BY <1>5, <2>2
  <2> QED
    BY <2>1, <2>2
<1> HIDE DEF r
<1>7. PinoTypeOK'
  BY <1>0, <1>3, <1>5 DEF PinoInv, PinoTypeOK
<1>8. StackIs'
  BY <1>0, <1>5, <1>6, StackStays
<1>9. \A i \in DOMAIN frames : frames[i].record \in DOMAIN records
  BY DEF PinoInv, Nesting
<1>10. Observing'
  BY <1>0, <1>4, <1>5, <1>6, <1>9 DEF PinoInv, Observing
<1>11. Told'
  BY <1>0, <1>3, <1>4 DEF PinoInv, Told
<1>12. Counting'
  <2>1. \A s \in DOMAIN records : Observed(s)' <=> Observed(s)
    BY <1>5, <1>6 DEF Observed
  <2>2. ASSUME NEW s \in DOMAIN records
        PROVE  /\ records'[s].counts = records'[s].masked
               /\ ~records'[s].reported => \E i \in DOMAIN frames' : Holds(frames'[i]) /\ frames'[i].record = s
               /\ records'[s].collected = IF records'[s].reported /\ ~Observed(s)' THEN records'[s].counts ELSE 0
    <3>1. /\ records[s].counts = records[s].masked
          /\ ~records[s].reported => \E i \in DOMAIN frames : Holds(frames[i]) /\ frames[i].record = s
          /\ records[s].collected = IF records[s].reported /\ ~Observed(s) THEN records[s].counts ELSE 0
      BY DEF PinoInv, Counting
    <3> QED
      BY <1>4, <1>5, <1>6, <2>1, <3>1
  <2>3. ASSUME NEW i \in DOMAIN frames'
        PROVE  /\ frames'[i].at = "reporting" => records'[frames'[i].record].reported
               /\ frames'[i].at \in {"masking", "building"} => ~records'[frames'[i].record].reported
    BY <1>4, <1>5, <1>6, <1>9 DEF PinoInv, Counting
  <2> QED
    BY <1>3, <2>2, <2>3 DEF Counting
<1> QED
  BY <1>5, <1>7, <1>8, <1>10, <1>11, <1>12 DEF PinoInv

LEMMA TwoPushed ==
  ASSUME NEW S, NEW s \in Seq(S), s # <<>>, NEW f \in S, NEW g \in S, NEW t, t = <<f, g>> \o Tail(s)
  PROVE  /\ t \in Seq(S) /\ DOMAIN t = 1 .. Len(s) + 1 /\ t[1] = f /\ t[2] = g
         /\ \A i \in DOMAIN s \ {1} : t[i + 1] = s[i]
<1>1. /\ Tail(s) \in Seq(S) /\ Len(s) \in Nat \ {0} /\ DOMAIN s = 1 .. Len(s) /\ Len(Tail(s)) = Len(s) - 1
      /\ DOMAIN Tail(s) = 1 .. Len(s) - 1
      /\ \A i \in DOMAIN Tail(s) : Tail(s)[i] = s[i + 1]
  BY Popped, LenProperties, HeadTailProperties, EmptySeq
<1>2. <<f, g>> \in Seq(S) /\ Len(<<f, g>>) = 2 /\ <<f, g>>[1] = f /\ <<f, g>>[2] = g
  OBVIOUS
<1>3. /\ t \in Seq(S) /\ Len(t) = Len(s) + 1
      /\ \A i \in 1 .. Len(s) + 1 : t[i] = IF i <= 2 THEN <<f, g>>[i] ELSE Tail(s)[i - 2]
  BY <1>1, <1>2, ConcatProperties
<1>4. DOMAIN t = 1 .. Len(s) + 1
  BY <1>3, LenProperties
<1>5. t[1] = f /\ t[2] = g
  BY <1>1, <1>2, <1>3
<1>6. ASSUME NEW i \in DOMAIN s \ {1}
      PROVE  t[i + 1] = s[i]
  <2>1. i + 1 \in 1 .. Len(s) + 1 /\ ~(i + 1 <= 2) /\ (i + 1) - 2 \in DOMAIN Tail(s) /\ ((i + 1) - 2) + 1 = i
    BY <1>1
  <2> QED
    BY <1>1, <1>3, <2>1
<1> QED
  BY <1>3, <1>4, <1>5, <1>6

\* The innermost record's line is written: its calls become two.
LEMMA WriteLineKeeps ==
  ASSUME PinoInv, WriteLine
  PROVE  PinoInv'
<1> DEFINE r == Head(frames).record
           writing == HookFrame("streamWrite", "masking", r, r)
           log == [Head(frames) EXCEPT !.at = "written"]
<1>0. /\ InFlight /\ Head(frames) = frames[1] /\ 1 \in DOMAIN frames /\ r \in DOMAIN records /\ frames[1] \in Frame
      /\ frames[1].at = "building" /\ frames[1].counter = r /\ frames # <<>> /\ frames \in Seq(Frame)
      /\ DOMAIN frames = 1 .. Len(frames) /\ Len(frames) \in Nat
      /\ DOMAIN records = 1 .. Len(records) /\ Len(records) \in Nat
      /\ UNCHANGED <<stack, reporting, records, outcomes>>
  BY Innermost, Elements DEF WriteLine, PinoInv, PinoTypeOK
<1>1. frames' = <<writing, log>> \o Tail(frames)
  BY <1>0, TopIs DEF WriteLine
<1>2. frames[1].hook = "logMethod" /\ ~records[r].reported
  BY <1>0 DEF PinoInv, Nesting, Counting
<1>3. /\ writing \in Frame /\ writing.hook = "streamWrite" /\ writing.at = "masking" /\ writing.record = r /\ writing.counter = r
      /\ log \in Frame /\ log.hook = "logMethod" /\ log.at = "written" /\ log.record = r /\ log.counter = r
  BY <1>0, <1>2 DEF HookFrame, Frame
<1> HIDE DEF writing, log
<1>4. /\ frames' \in Seq(Frame) /\ DOMAIN frames' = 1 .. Len(frames) + 1 /\ frames'[1] = writing /\ frames'[2] = log
      /\ \A i \in DOMAIN frames \ {1} : frames'[i + 1] = frames[i]
  BY <1>0, <1>1, <1>3, TwoPushed
<1> HIDE DEF r
<1>5. \A i \in DOMAIN frames' : i = 1 \/ i = 2 \/ (i - 1 \in DOMAIN frames /\ i - 1 # 1 /\ frames'[i] = frames[i - 1])
  <2> TAKE i \in DOMAIN frames'
  <2>1. CASE i # 1 /\ i # 2
    <3>1. i - 1 \in DOMAIN frames \ {1} /\ (i - 1) + 1 = i
      BY <1>0, <1>4, <2>1
    <3> QED
      BY <1>4, <3>1
  <2> QED
    BY <2>1
<1>6. 1 \in DOMAIN frames' /\ 2 \in DOMAIN frames'
  BY <1>0, <1>4
<1>7. \A i \in DOMAIN frames :
        /\ i + 1 \in DOMAIN frames'
        /\ frames'[i + 1].record = frames[i].record /\ frames'[i + 1].hook = frames[i].hook
        /\ frames'[i + 1].counter = frames[i].counter
        /\ Holds(frames'[i + 1]) <=> Holds(frames[i])
        /\ frames'[i + 1].at = "reporting" <=> frames[i].at = "reporting"
        /\ frames'[i + 1].at \in {"masking", "building"} => frames[i].at \in {"masking", "building"}
        /\ frames[i].at = "written" => frames'[i + 1].at = "written"
        /\ frames[i].hook # "logMethod" => frames'[i + 1] = frames[i]
  <2> TAKE i \in DOMAIN frames
  <2>0. i + 1 \in DOMAIN frames' /\ 1 + 1 = 2
    BY <1>0, <1>4
  <2>1. CASE i = 1
    BY <1>0, <1>2, <1>3, <1>4, <2>0, <2>1 DEF Holds, r
  <2>2. CASE i # 1
    BY <1>4, <2>0, <2>2
  <2> QED
    BY <2>1, <2>2
<1>8. \A i \in DOMAIN frames' : i = 1 \/ (i - 1 \in DOMAIN frames /\ (i - 1) + 1 = i)
  BY <1>0, <1>4
<1>9. PinoTypeOK'
  BY <1>0, <1>4 DEF PinoInv, PinoTypeOK
<1>10. Nesting'
  <2>1. ASSUME NEW i \in DOMAIN frames'
        PROVE  /\ frames'[i].record \in DOMAIN records /\ frames'[i].counter = frames'[i].record
               /\ frames'[i].hook # "logMethod" => frames'[i].at \in {"masking", "reporting"}
               /\ frames'[i].hook = "streamWrite" =>
                    /\ i + 1 \in DOMAIN frames' /\ frames'[i + 1].record = frames'[i].record
                    /\ frames'[i + 1].hook = "logMethod" /\ frames'[i + 1].at = "written"
    <3>1. CASE i = 1
      BY <1>0, <1>3, <1>4, <1>6, <3>1
    <3>2. CASE i # 1
      <4> DEFINE k == i - 1
      <4>1. k \in DOMAIN frames /\ k + 1 = i
        BY <1>8, <3>2
      <4>2. /\ frames[k].record \in DOMAIN records /\ frames[k].counter = frames[k].record
            /\ frames[k].hook # "logMethod" => frames[k].at \in {"masking", "reporting"}
            /\ frames[k].hook = "streamWrite" =>
                 /\ k + 1 \in DOMAIN frames /\ frames[k + 1].record = frames[k].record
                 /\ frames[k + 1].hook = "logMethod" /\ frames[k + 1].at = "written"
        BY <4>1 DEF PinoInv, Nesting
      <4> HIDE DEF k
      <4> QED
        BY <1>7, <4>1, <4>2
    <3> QED
      BY <3>1, <3>2
  <2>2. ASSUME NEW i \in DOMAIN frames', NEW j \in DOMAIN frames', i < j
        PROVE  \/ frames'[j].record < frames'[i].record
               \/ frames'[j].record = frames'[i].record /\ frames'[i].hook = "streamWrite" /\ j = i + 1
    <3> DEFINE k == i - 1
               l == j - 1
    <3>0. l \in DOMAIN frames /\ l + 1 = j
      BY <1>0, <1>4, <2>2
    <3>1. CASE i = 1 /\ j = 2
      BY <1>3, <1>4, <3>1
    <3>2. CASE i = 1 /\ j # 2
      <4>1. l # 1 /\ 1 < l
        BY <1>0, <1>4, <2>2, <3>2
      <4> HIDE DEF l
      <4>2. frames[l].record < frames[1].record
        BY <1>0, <1>2, <3>0, <4>1 DEF PinoInv, Nesting
      <4> QED
        BY <1>0, <1>3, <1>4, <1>7, <3>0, <3>2, <4>2 DEF r
    <3>3. CASE i # 1
      <4>1. k \in DOMAIN frames /\ k + 1 = i /\ k < l
        BY <1>0, <1>4, <2>2, <3>3
      <4>3. l = k + 1 => j = i + 1
        BY <1>0, <1>4
      <4> HIDE DEF k, l
      <4>2. \/ frames[l].record < frames[k].record
            \/ frames[l].record = frames[k].record /\ frames[k].hook = "streamWrite" /\ l = k + 1
        BY <3>0, <4>1 DEF PinoInv, Nesting
      <4> QED
        BY <1>7, <3>0, <4>1, <4>2, <4>3
    <3> QED
      BY <3>1, <3>2, <3>3
  <2>3. records' = records
    BY <1>0
  <2> QED
    BY <2>1, <2>2, <2>3 DEF Nesting
<1>11. StackIs'
  <2>1. \A k \in DOMAIN frames : Holds(frames[k]) =>
          \E l \in DOMAIN frames' : Holds(frames'[l]) /\ frames'[l].record = frames[k].record
    BY <1>7
  <2>2. \A l \in DOMAIN frames' : Holds(frames'[l]) =>
          \E k \in DOMAIN frames : Holds(frames[k]) /\ frames[k].record = frames'[l].record
    <3> TAKE l \in DOMAIN frames'
    <3> HAVE Holds(frames'[l])
    <3>1. l # 1
      BY <1>3, <1>4 DEF Holds
    <3>2. l - 1 \in DOMAIN frames /\ (l - 1) + 1 = l
      BY <1>8, <3>1
    <3> QED
      BY <1>7, <3>2
  <2> QED
    BY <1>0, <2>1, <2>2, StackStays
<1>12. \A i \in DOMAIN frames : frames[i].record \in DOMAIN records
  BY DEF PinoInv, Nesting
<1>13. \A i \in DOMAIN frames' : frames'[i].at = "reporting" =>
         i - 1 \in DOMAIN frames /\ frames[i - 1].at = "reporting" /\ (i - 1) + 1 = i
  <2> TAKE i \in DOMAIN frames'
  <2> HAVE frames'[i].at = "reporting"
  <2>1. i # 1
    BY <1>3, <1>4
  <2>2. i - 1 \in DOMAIN frames /\ (i - 1) + 1 = i
    BY <1>8, <2>1
  <2> QED
    BY <1>7, <2>2
<1>14. Observing'
  <2>1. reporting' <=> \E i \in DOMAIN frames' : frames'[i].at = "reporting"
    <3>1. reporting <=> \E i \in DOMAIN frames : frames[i].at = "reporting"
      BY DEF PinoInv, Observing
    <3>2. (\E i \in DOMAIN frames : frames[i].at = "reporting") => \E i \in DOMAIN frames' : frames'[i].at = "reporting"
      BY <1>7
    <3>3. (\E i \in DOMAIN frames' : frames'[i].at = "reporting") => \E i \in DOMAIN frames : frames[i].at = "reporting"
      BY <1>13
    <3> QED
      BY <1>0, <3>1, <3>2, <3>3
  <2>2. ASSUME NEW i \in DOMAIN frames', NEW j \in DOMAIN frames', frames'[i].at = "reporting", frames'[j].at = "reporting"
        PROVE  i = j
    <3>1. i - 1 = j - 1 /\ (i - 1) + 1 = i /\ (j - 1) + 1 = j
      BY <1>13, <2>2 DEF PinoInv, Observing
    <3> QED
      BY <3>1
  <2>3. ASSUME NEW i \in DOMAIN frames'
        PROVE  records'[frames'[i].record].quiet <=> \E j \in DOMAIN frames' : i < j /\ frames'[j].at = "reporting"
    <3>0. PICK k \in DOMAIN frames : frames'[i].record = frames[k].record /\ (i = 1 => k = 1) /\ (i # 1 => k + 1 = i)
      BY <1>0, <1>3, <1>4, <1>7, <1>8, SMTT(30) DEF r
    <3>1. records[frames[k].record].quiet <=> \E j \in DOMAIN frames : k < j /\ frames[j].at = "reporting"
      BY DEF PinoInv, Observing
    <3>2. ASSUME NEW j \in DOMAIN frames, k < j, frames[j].at = "reporting"
          PROVE  \E l \in DOMAIN frames' : i < l /\ frames'[l].at = "reporting"
      <4>1. j + 1 \in DOMAIN frames' /\ frames'[j + 1].at = "reporting" /\ i < j + 1
        BY <1>0, <1>4, <1>7, <3>0, <3>2
      <4> QED
        BY <4>1
    <3>3. ASSUME NEW j \in DOMAIN frames', i < j, frames'[j].at = "reporting"
          PROVE  \E l \in DOMAIN frames : k < l /\ frames[l].at = "reporting"
      <4>1. j - 1 \in DOMAIN frames /\ frames[j - 1].at = "reporting"
        BY <1>13, <3>3
      <4>2. j - 1 # 1
        BY <1>0, <4>1
      <4>3. k < j - 1
        BY <1>0, <1>4, <3>0, <3>3, <4>1, <4>2
      <4> QED
        BY <4>1, <4>3
    <3> QED
      BY <1>0, <3>0, <3>1, <3>2, <3>3
  <2> QED
    BY <2>1, <2>2, <2>3 DEF Observing
<1>15. Told'
  BY <1>0 DEF PinoInv, Told
<1>16. Counting'
  <2>1. \A s \in DOMAIN records : Observed(s)' <=> Observed(s)
    <3> TAKE s \in DOMAIN records
    <3>1. Observed(s) => Observed(s)'
      BY <1>7 DEF Observed
    <3>2. ASSUME NEW i \in DOMAIN frames', frames'[i].at = "reporting", frames'[i].record = s
          PROVE  Observed(s)
      <4>1. i - 1 \in DOMAIN frames /\ frames[i - 1].at = "reporting" /\ (i - 1) + 1 = i
        BY <1>13, <3>2
      <4> QED
        BY <1>7, <3>2, <4>1 DEF Observed
    <3> QED
      BY <3>1, <3>2 DEF Observed
  <2>2. ASSUME NEW s \in DOMAIN records
        PROVE  /\ records[s].counts = records[s].masked
               /\ ~records[s].reported => \E i \in DOMAIN frames' : Holds(frames'[i]) /\ frames'[i].record = s
               /\ records[s].collected = IF records[s].reported /\ ~Observed(s)' THEN records[s].counts ELSE 0
    <3>1. /\ records[s].counts = records[s].masked
          /\ ~records[s].reported => \E i \in DOMAIN frames : Holds(frames[i]) /\ frames[i].record = s
          /\ records[s].collected = IF records[s].reported /\ ~Observed(s) THEN records[s].counts ELSE 0
      BY DEF PinoInv, Counting
    <3>2. ASSUME NEW i \in DOMAIN frames, Holds(frames[i]), frames[i].record = s
          PROVE  \E l \in DOMAIN frames' : Holds(frames'[l]) /\ frames'[l].record = s
      BY <1>7, <3>2
    <3> QED
      BY <2>1, <3>1, <3>2
  <2>3. ASSUME NEW i \in DOMAIN frames'
        PROVE  /\ frames'[i].at = "reporting" => records[frames'[i].record].reported
               /\ frames'[i].at \in {"masking", "building"} => ~records[frames'[i].record].reported
    <3>1. CASE i = 1
      BY <1>2, <1>3, <1>4, <3>1
    <3>2. CASE i # 1
      <4>1. i - 1 \in DOMAIN frames /\ (i - 1) + 1 = i
        BY <1>8, <3>2
      <4>2. /\ frames[i - 1].at = "reporting" => records[frames[i - 1].record].reported
            /\ frames[i - 1].at \in {"masking", "building"} => ~records[frames[i - 1].record].reported
        BY <4>1 DEF PinoInv, Counting
      <4> QED
        BY <1>7, <4>1, <4>2
    <3> QED
      BY <3>1, <3>2
  <2>4. records' = records
    BY <1>0
  <2> QED
    BY <2>2, <2>3, <2>4 DEF Counting
<1> QED
  BY <1>9, <1>10, <1>11, <1>14, <1>15, <1>16 DEF PinoInv

-----------------------------------------------------------------------------
(* The steps that report, and those that return.                           *)

\* The calls around the innermost one are of older records, but for the
\* logMethod call around a line.
LEMMA OuterCalls ==
  ASSUME PinoInv, InFlight, NEW k \in DOMAIN frames, k # 1
  PROVE  /\ 1 < k
         /\ \/ frames[k].record # Head(frames).record
            \/ k = 2 /\ Head(frames).hook = "streamWrite" /\ frames[k].hook = "logMethod" /\ frames[k].at = "written"
<1>0. /\ Head(frames) = frames[1] /\ 1 \in DOMAIN frames /\ DOMAIN frames = 1 .. Len(frames) /\ Len(frames) \in Nat
      /\ Head(frames).record \in DOMAIN records /\ DOMAIN records = 1 .. Len(records) /\ Len(records) \in Nat
  BY Innermost, Elements DEF PinoInv
<1>1. 1 < k
  BY <1>0
<1>2. \/ frames[k].record < frames[1].record
      \/ frames[k].record = frames[1].record /\ frames[1].hook = "streamWrite" /\ k = 1 + 1
  BY <1>0, <1>1 DEF PinoInv, Nesting
<1>3. frames[1].hook = "streamWrite" => frames[1 + 1].hook = "logMethod" /\ frames[1 + 1].at = "written"
  BY <1>0 DEF PinoInv, Nesting
<1>4. frames[k].record \in DOMAIN records
  BY DEF PinoInv, Nesting
<1> QED
  BY <1>0, <1>1, <1>2, <1>3, <1>4

\* What leaves the stack when the innermost call masks no longer.
LeavesTheStack ==
  IF Head(frames).hook = "streamWrite" THEN UNCHANGED stack ELSE stack' = SubSeq(stack, 1, Len(stack) - 1)

LEMMA GivesUp ==
  ASSUME PinoInv, InFlight, Head(frames).at # "reporting", LeavesTheStack,
         \A k \in DOMAIN frames \ {1} : \E l \in DOMAIN frames' : frames'[l] = frames[k],
         \A l \in DOMAIN frames' : Holds(frames'[l]) => \E k \in DOMAIN frames \ {1} : frames'[l] = frames[k]
  PROVE  StackIs' /\ stack' \in Seq(DOMAIN records)
<1> DEFINE r == Head(frames).record
<1>0. Head(frames) = frames[1] /\ stack \in Seq(DOMAIN records)
  BY Innermost DEF PinoInv, PinoTypeOK
<1>1. CASE Head(frames).hook = "streamWrite"
  <2>1. ~Holds(frames[1])
    BY <1>0, <1>1 DEF Holds
  <2>2. \A k \in DOMAIN frames : Holds(frames[k]) =>
          \E l \in DOMAIN frames' : Holds(frames'[l]) /\ frames'[l].record = frames[k].record
    BY <2>1
  <2>3. \A l \in DOMAIN frames' : Holds(frames'[l]) =>
          \E k \in DOMAIN frames : Holds(frames[k]) /\ frames[k].record = frames'[l].record
    OBVIOUS
  <2>4. UNCHANGED stack
    BY <1>1 DEF LeavesTheStack
  <2> QED
    BY <1>0, <2>2, <2>3, <2>4, StackStays
<1>2. CASE Head(frames).hook # "streamWrite"
  <2>1. Holds(Head(frames))
    BY <1>2 DEF Holds
  <2>2. \A k \in DOMAIN frames : k # 1 => frames[k].record # r
    BY <1>2, OuterCalls
  <2>3. \A k \in DOMAIN frames : Holds(frames[k]) /\ frames[k].record # r =>
          \E l \in DOMAIN frames' : Holds(frames'[l]) /\ frames'[l].record = frames[k].record
    BY <1>0
  <2>4. \A l \in DOMAIN frames' : Holds(frames'[l]) =>
          \E k \in DOMAIN frames : Holds(frames[k]) /\ frames[k].record = frames'[l].record /\ frames[k].record # r
    BY <2>2
  <2>5. stack' = SubSeq(stack, 1, Len(stack) - 1)
    BY <1>2 DEF LeavesTheStack
  <2> QED
    BY <2>1, <2>3, <2>4, <2>5, StackShrinks
<1> QED
  BY <1>1, <1>2

\* The observer is called.
LEMMA NotifyKeeps ==
  ASSUME PinoInv, InFlight, Head(frames).at # "reporting", LeavesTheStack,
         NEW r, r = Head(frames).record, ~records[r].reported,
         NEW stages \in Seq(Stages), Report(r, stages), ~reporting
  PROVE  PinoInv'
<1> DEFINE new == [records[r] EXCEPT !.stages = stages, !.reported = TRUE]
           o == [record |-> r, values |-> records[r].counts, stages |-> stages]
<1>0. /\ Head(frames) = frames[1] /\ 1 \in DOMAIN frames /\ r \in DOMAIN records /\ records[r] \in Record
      /\ frames # <<>> /\ frames \in Seq(Frame) /\ DOMAIN frames = 1 .. Len(frames) /\ Len(frames) \in Nat
      /\ DOMAIN records = 1 .. Len(records) /\ Len(records) \in Nat
      /\ outcomes \in Seq(Outcome) /\ DOMAIN outcomes = 1 .. Len(outcomes) /\ Len(outcomes) \in Nat
  BY Innermost, Elements DEF PinoInv, PinoTypeOK
<1>1. /\ reporting' = TRUE /\ outcomes' = Append(outcomes, o)
      /\ records' = [records EXCEPT ![r] = new]
      /\ frames' = <<[Head(frames) EXCEPT !.at = "reporting"]>> \o Tail(frames)
  BY <1>0 DEF Report, MayNotify
<1>2. /\ new \in Record /\ new.counts = records[r].counts /\ new.masked = records[r].masked
      /\ new.reported /\ new.collected = records[r].collected /\ new.quiet = records[r].quiet
  BY <1>0 DEF Record
<1>3. o \in Outcome /\ o.record = r /\ o.values = records[r].counts
  BY <1>0 DEF Outcome, Record
<1> HIDE DEF new, o
<1>4. /\ records' \in Seq(Record) /\ DOMAIN records' = DOMAIN records
      /\ records'[r] = new /\ \A s \in DOMAIN records : s # r => records'[s] = records[s]
  BY <1>0, <1>1, <1>2, Changed DEF PinoInv
<1>5. /\ frames' \in Seq(Frame) /\ DOMAIN frames' = DOMAIN frames /\ frames'[1].at = "reporting"
      /\ \A i \in DOMAIN frames : frames'[i].record = frames[i].record /\ frames'[i].hook = frames[i].hook
      /\ \A i \in DOMAIN frames \ {1} : frames'[i] = frames[i]
      /\ Nesting'
  BY <1>0, <1>1, <1>4, GoesOn
<1>6. /\ outcomes' \in Seq(Outcome) /\ DOMAIN outcomes' = 1 .. Len(outcomes) + 1 /\ outcomes'[Len(outcomes) + 1] = o
      /\ \A i \in DOMAIN outcomes : i \in DOMAIN outcomes' /\ outcomes'[i] = outcomes[i]
  BY <1>0, <1>1, <1>3
<1>7. StackIs' /\ stack' \in Seq(DOMAIN records)
  <2>1. ~Holds(frames'[1])
    BY <1>5 DEF Holds
  <2>2. \A l \in DOMAIN frames' : Holds(frames'[l]) => \E k \in DOMAIN frames \ {1} : frames'[l] = frames[k]
    BY <1>5, <2>1
  <2>3. \A k \in DOMAIN frames \ {1} : \E l \in DOMAIN frames' : frames'[l] = frames[k]
    BY <1>5
  <2> QED
    BY <2>2, <2>3, GivesUp
<1>8. PinoTypeOK'
  <2>1. stack' \in Seq(DOMAIN records') /\ reporting' \in BOOLEAN
    BY <1>1, <1>4, <1>7
  <2> QED
    BY <1>4, <1>5, <1>6, <2>1 DEF PinoTypeOK
<1>9. \A i \in DOMAIN frames : frames[i].record \in DOMAIN records /\ frames[i].at # "reporting" /\ ~records[frames[i].record].quiet
  BY DEF PinoInv, Nesting, Observing
<1>10. \A i \in DOMAIN frames' : frames'[i].at = "reporting" <=> i = 1
  BY <1>5, <1>9
<1>11. \A s \in DOMAIN records : records'[s].quiet = records[s].quiet /\ records'[s].counts = records[s].counts
  BY <1>2, <1>4
<1>12. Observing'
  <2>1. reporting' <=> \E i \in DOMAIN frames' : frames'[i].at = "reporting"
    BY <1>0, <1>1, <1>5
  <2>2. \A i, j \in DOMAIN frames' : frames'[i].at = "reporting" /\ frames'[j].at = "reporting" => i = j
    BY <1>10
  <2>3. ASSUME NEW i \in DOMAIN frames'
        PROVE  records'[frames'[i].record].quiet <=> \E j \in DOMAIN frames' : i < j /\ frames'[j].at = "reporting"
    <3>1. ~records'[frames'[i].record].quiet
      BY <1>5, <1>9, <1>11
    <3>2. \A j \in DOMAIN frames' : frames'[j].at = "reporting" => ~(i < j)
      BY <1>0, <1>5, <1>10
    <3> QED
      BY <3>1, <3>2
  <2> QED
    BY <2>1, <2>2, <2>3 DEF Observing
<1>13. Told'
  <2>1. \A i \in DOMAIN outcomes :
          /\ outcomes[i].record \in DOMAIN records /\ outcomes[i].record # r
          /\ records[outcomes[i].record].reported /\ ~records[outcomes[i].record].quiet
          /\ outcomes[i].values = records[outcomes[i].record].counts
    BY DEF PinoInv, Told
  <2>2. \A i \in DOMAIN outcomes' : i \in DOMAIN outcomes \/ i = Len(outcomes) + 1
    BY <1>0, <1>6
  <2>3. ~records[r].quiet
    BY <1>0, <1>9
  <2>4. ASSUME NEW i \in DOMAIN outcomes'
        PROVE  /\ outcomes'[i].record \in DOMAIN records'
               /\ records'[outcomes'[i].record].reported /\ ~records'[outcomes'[i].record].quiet
               /\ outcomes'[i].values = records'[outcomes'[i].record].counts
    <3>1. CASE i \in DOMAIN outcomes
      BY <1>4, <1>6, <2>1, <3>1
    <3>2. CASE i = Len(outcomes) + 1
      BY <1>0, <1>2, <1>3, <1>4, <1>6, <2>3, <3>2
    <3> QED
      BY <2>2, <3>1, <3>2
  <2>5. ASSUME NEW i \in DOMAIN outcomes', NEW j \in DOMAIN outcomes', outcomes'[i].record = outcomes'[j].record
        PROVE  i = j
    <3>1. CASE i \in DOMAIN outcomes /\ j \in DOMAIN outcomes
      BY <1>6, <2>5, <3>1 DEF PinoInv, Told
    <3>2. CASE i \in DOMAIN outcomes /\ j = Len(outcomes) + 1
      BY <1>3, <1>6, <2>1, <2>5, <3>2
    <3>3. CASE i = Len(outcomes) + 1 /\ j \in DOMAIN outcomes
      BY <1>3, <1>6, <2>1, <2>5, <3>3
    <3> QED
      BY <2>2, <3>1, <3>2, <3>3
  <2>6. ASSUME NEW s \in DOMAIN records', records'[s].reported, ~records'[s].quiet
        PROVE  \E i \in DOMAIN outcomes' : outcomes'[i].record = s
    <3>1. CASE s = r
      BY <1>0, <1>3, <1>6, <3>1
    <3>2. CASE s # r
      <4>1. PICK i \in DOMAIN outcomes : outcomes[i].record = s
        BY <1>4, <2>6, <3>2 DEF PinoInv, Told
      <4> QED
        BY <1>6, <4>1
    <3> QED
      BY <3>1, <3>2
  <2> QED
    BY <2>4, <2>5, <2>6 DEF Told
<1>14. Counting'
  <2>1. \A s \in DOMAIN records : ~Observed(s)
    BY <1>9 DEF Observed
  <2>2. \A s \in DOMAIN records : Observed(s)' <=> s = r
    BY <1>0, <1>5, <1>10 DEF Observed
  <2>3. ASSUME NEW s \in DOMAIN records
        PROVE  /\ records'[s].counts = records'[s].masked
               /\ ~records'[s].reported => \E i \in DOMAIN frames' : Holds(frames'[i]) /\ frames'[i].record = s
               /\ records'[s].collected = IF records'[s].reported /\ ~Observed(s)' THEN records'[s].counts ELSE 0
    <3>1. /\ records[s].counts = records[s].masked
          /\ ~records[s].reported => \E i \in DOMAIN frames : Holds(frames[i]) /\ frames[i].record = s
          /\ records[s].collected = IF records[s].reported /\ ~Observed(s) THEN records[s].counts ELSE 0
      BY DEF PinoInv, Counting
    <3>2. CASE s = r
      BY <1>2, <1>4, <2>2, <3>1, <3>2
    <3>3. CASE s # r
      <4>1. ASSUME NEW i \in DOMAIN frames, Holds(frames[i]), frames[i].record = s
            PROVE  \E l \in DOMAIN frames' : Holds(frames'[l]) /\ frames'[l].record = s
        BY <1>0, <1>5, <3>3, <4>1
      <4> QED
        BY <1>4, <2>1, <2>2, <3>1, <3>3, <4>1
    <3> QED
      BY <3>2, <3>3
  <2>4. ASSUME NEW i \in DOMAIN frames'
        PROVE  /\ frames'[i].at = "reporting" => records'[frames'[i].record].reported
               /\ frames'[i].at \in {"masking", "building"} => ~records'[frames'[i].record].reported
    <3>1. CASE i = 1
      BY <1>0, <1>2, <1>4, <1>5, <3>1
    <3>2. CASE i # 1
      <4>1. frames'[i] = frames[i] /\ i \in DOMAIN frames
        BY <1>5, <3>2
      <4>2. frames[i].at \in {"masking", "building"} => ~records[frames[i].record].reported /\ frames[i].record # r
        BY <3>2, <4>1, OuterCalls DEF PinoInv, Counting
      <4> QED
        BY <1>4, <1>9, <4>1, <4>2
    <3> QED
      BY <3>1, <3>2
  <2> QED
    BY <1>4, <2>3, <2>4 DEF Counting
<1> QED
  BY <1>5, <1>7, <1>8, <1>12, <1>13, <1>14 DEF PinoInv

\* A call returns that did not report: what is observed stays.
LEMMA ReturnsObserving ==
  ASSUME PinoInv, InFlight, Head(frames).at # "reporting", UNCHANGED reporting,
         \A i \in DOMAIN frames' : i + 1 \in DOMAIN frames /\ frames'[i] = frames[i + 1],
         \A i \in DOMAIN frames \ {1} : i - 1 \in DOMAIN frames' /\ frames'[i - 1] = frames[i],
         DOMAIN frames' \subseteq Nat,
         \A s \in DOMAIN records : records'[s].quiet = records[s].quiet
  PROVE  Observing' /\ \A s \in DOMAIN records : Observed(s)' <=> Observed(s)
<1>0. frames[1].at # "reporting" /\ 1 \in DOMAIN frames /\ DOMAIN frames = 1 .. Len(frames) /\ Len(frames) \in Nat
  BY Innermost, Elements DEF PinoInv
<1>1. \A i \in DOMAIN frames : frames[i].at = "reporting" =>
        i - 1 \in DOMAIN frames' /\ frames'[i - 1] = frames[i] /\ (i - 1) + 1 = i
  BY <1>0
<1>2. reporting' <=> \E i \in DOMAIN frames' : frames'[i].at = "reporting"
  <2>1. reporting <=> \E i \in DOMAIN frames : frames[i].at = "reporting"
    BY DEF PinoInv, Observing
  <2>2. (\E i \in DOMAIN frames : frames[i].at = "reporting") => \E i \in DOMAIN frames' : frames'[i].at = "reporting"
    BY <1>1
  <2>3. (\E i \in DOMAIN frames' : frames'[i].at = "reporting") => \E i \in DOMAIN frames : frames[i].at = "reporting"
    OBVIOUS
  <2> QED
    BY <2>1, <2>2, <2>3
<1>3. ASSUME NEW i \in DOMAIN frames', NEW j \in DOMAIN frames', frames'[i].at = "reporting", frames'[j].at = "reporting"
      PROVE  i = j
  <2>1. i + 1 = j + 1 /\ i \in Nat /\ j \in Nat
    BY <1>3 DEF PinoInv, Observing
  <2> QED
    BY <2>1
<1>4. ASSUME NEW i \in DOMAIN frames'
      PROVE  records'[frames'[i].record].quiet <=> \E j \in DOMAIN frames' : i < j /\ frames'[j].at = "reporting"
  <2> DEFINE k == i + 1
  <2>1. k \in DOMAIN frames /\ frames'[i] = frames[k] /\ frames[k].record \in DOMAIN records
    BY DEF PinoInv, Nesting
  <2>2. records[frames[k].record].quiet <=> \E j \in DOMAIN frames : k < j /\ frames[j].at = "reporting"
    BY <2>1 DEF PinoInv, Observing
  <2>3. ASSUME NEW j \in DOMAIN frames, k < j, frames[j].at = "reporting"
        PROVE  \E l \in DOMAIN frames' : i < l /\ frames'[l].at = "reporting"
    <3>1. j - 1 \in DOMAIN frames' /\ i < j - 1 /\ frames'[j - 1].at = "reporting"
      BY <1>0, <1>1, <2>3
    <3> QED
      BY <3>1
  <2>4. ASSUME NEW j \in DOMAIN frames', i < j, frames'[j].at = "reporting"
        PROVE  \E l \in DOMAIN frames : k < l /\ frames[l].at = "reporting"
    <3>1. j + 1 \in DOMAIN frames /\ k < j + 1 /\ frames[j + 1].at = "reporting"
      BY <1>0, <2>4
    <3> QED
      BY <3>1
  <2> QED
    BY <2>1, <2>2, <2>3, <2>4
<1>5. ASSUME NEW s \in DOMAIN records
      PROVE  Observed(s)' <=> Observed(s)
  <2>1. Observed(s) => Observed(s)'
    BY <1>1 DEF Observed
  <2>2. Observed(s)' => Observed(s)
    BY DEF Observed
  <2> QED
    BY <2>1, <2>2
<1> QED
  BY <1>2, <1>3, <1>4, <1>5 DEF Observing

\* No observer is called, because one is running: the counts are the caller's at once.
LEMMA SilentKeeps ==
  ASSUME PinoInv, InFlight, Head(frames).at # "reporting", LeavesTheStack,
         NEW r, r = Head(frames).record, ~records[r].reported,
         NEW stages \in Seq(Stages), Report(r, stages), reporting
  PROVE  PinoInv'
<1> DEFINE new == [records[r] EXCEPT !.stages = stages, !.reported = TRUE, !.collected = @ + records[r].counts]
<1>0. /\ Head(frames) = frames[1] /\ 1 \in DOMAIN frames /\ r \in DOMAIN records /\ records[r] \in Record
      /\ frames \in Seq(Frame) /\ DOMAIN frames = 1 .. Len(frames) /\ Len(frames) \in Nat
      /\ DOMAIN records = 1 .. Len(records) /\ Len(records) \in Nat
  BY Innermost, Elements DEF PinoInv, PinoTypeOK
<1>1. /\ UNCHANGED <<reporting, outcomes>> /\ frames' = Tail(frames)
      /\ records' = [records EXCEPT ![r] = new]
  BY <1>0 DEF Report, MayNotify
<1>2. /\ new \in Record /\ new.counts = records[r].counts /\ new.masked = records[r].masked
      /\ new.reported /\ new.collected = records[r].collected + records[r].counts /\ new.quiet = records[r].quiet
  <2>1. records[r].collected \in Nat /\ records[r].counts \in Nat /\ records[r].collected + records[r].counts \in Nat
    BY <1>0 DEF Record
  <2> QED
    BY <1>0, <2>1 DEF Record
<1> HIDE DEF new
<1>4. /\ records' \in Seq(Record) /\ DOMAIN records' = DOMAIN records
      /\ records'[r] = new /\ \A s \in DOMAIN records : s # r => records'[s] = records[s]
  BY <1>0, <1>1, <1>2, Changed DEF PinoInv
<1>5. /\ frames' \in Seq(Frame)
      /\ \A i \in DOMAIN frames' : i + 1 \in DOMAIN frames /\ frames'[i] = frames[i + 1]
      /\ \A i \in DOMAIN frames \ {1} : i - 1 \in DOMAIN frames' /\ frames'[i - 1] = frames[i]
      /\ Nesting'
  BY <1>1, <1>4, Returns
<1>6. \A i \in DOMAIN frames' : i \in Nat /\ i + 1 # 1
  BY <1>5, LenProperties
<1>7. StackIs' /\ stack' \in Seq(DOMAIN records)
  <2>1. \A l \in DOMAIN frames' : \E k \in DOMAIN frames \ {1} : frames'[l] = frames[k]
    BY <1>5, <1>6
  <2>2. \A k \in DOMAIN frames \ {1} : \E l \in DOMAIN frames' : frames'[l] = frames[k]
    BY <1>5
  <2> QED
    BY <2>1, <2>2, GivesUp
<1>8. PinoTypeOK'
  BY <1>1, <1>4, <1>5, <1>7 DEF PinoInv, PinoTypeOK
<1>9. \A s \in DOMAIN records : records'[s].quiet = records[s].quiet /\ records'[s].counts = records[s].counts
  BY <1>2, <1>4
<1>10. Observing' /\ \A s \in DOMAIN records : Observed(s)' <=> Observed(s)
  <2>1. DOMAIN frames' \subseteq Nat
    BY <1>6
  <2> QED
    BY <1>1, <1>5, <1>9, <2>1, ReturnsObserving
<1>11. records[r].quiet
  <2>1. PICK j \in DOMAIN frames : frames[j].at = "reporting"
    BY DEF PinoInv, Observing
  <2>2. 1 < j
    BY <1>0, <2>1
  <2> QED
    BY <1>0, <2>1, <2>2 DEF PinoInv, Observing
<1>12. Told'
  <2>1. ASSUME NEW i \in DOMAIN outcomes
        PROVE  /\ outcomes[i].record \in DOMAIN records'
               /\ records'[outcomes[i].record].reported /\ ~records'[outcomes[i].record].quiet
               /\ outcomes[i].values = records'[outcomes[i].record].counts
    <3>1. /\ outcomes[i].record \in DOMAIN records /\ outcomes[i].record # r
          /\ records[outcomes[i].record].reported /\ ~records[outcomes[i].record].quiet
          /\ outcomes[i].values = records[outcomes[i].record].counts
      BY DEF PinoInv, Told
    <3> QED
      BY <1>4, <3>1
  <2>2. \A s \in DOMAIN records' :
          records'[s].reported /\ ~records'[s].quiet => \E i \in DOMAIN outcomes : outcomes[i].record = s
    BY <1>2, <1>4, <1>11 DEF PinoInv, Told
  <2>3. \A i, j \in DOMAIN outcomes : outcomes[i].record = outcomes[j].record => i = j
    BY DEF PinoInv, Told
  <2>4. outcomes' = outcomes
    BY <1>1
  <2> QED
    BY <2>1, <2>2, <2>3, <2>4 DEF Told
<1>13. ~Observed(r)
  <2>1. ASSUME NEW i \in DOMAIN frames, frames[i].at = "reporting", frames[i].record = r
        PROVE  FALSE
    <3>1. i # 1
      BY <1>0, <2>1
    <3> QED
      BY <2>1, <3>1, OuterCalls
  <2> QED
    BY <2>1 DEF Observed
<1>14. Counting'
  <2>3. ASSUME NEW s \in DOMAIN records
        PROVE  /\ records'[s].counts = records'[s].masked
               /\ ~records'[s].reported => \E i \in DOMAIN frames' : Holds(frames'[i]) /\ frames'[i].record = s
               /\ records'[s].collected = IF records'[s].reported /\ ~Observed(s)' THEN records'[s].counts ELSE 0
    <3>1. /\ records[s].counts = records[s].masked
          /\ ~records[s].reported => \E i \in DOMAIN frames : Holds(frames[i]) /\ frames[i].record = s
          /\ records[s].collected = IF records[s].reported /\ ~Observed(s) THEN records[s].counts ELSE 0
      BY DEF PinoInv, Counting
    <3>2. CASE s = r
      <4>1. ~Observed(s)' /\ records[s].collected = 0 /\ records[r].counts \in Nat
        BY <1>0, <1>10, <1>13, <3>1, <3>2 DEF Record
      <4> QED
        BY <1>2, <1>4, <3>1, <3>2, <4>1
    <3>3. CASE s # r
      <4>1. ASSUME NEW i \in DOMAIN frames, Holds(frames[i]), frames[i].record = s
            PROVE  \E l \in DOMAIN frames' : Holds(frames'[l]) /\ frames'[l].record = s
        <5>1. i # 1
          BY <1>0, <3>3, <4>1
        <5> QED
          BY <1>5, <4>1, <5>1
      <4> QED
        BY <1>4, <1>10, <3>1, <3>3, <4>1
    <3> QED
      BY <3>2, <3>3
  <2>4. ASSUME NEW i \in DOMAIN frames'
        PROVE  /\ frames'[i].at = "reporting" => records'[frames'[i].record].reported
               /\ frames'[i].at \in {"masking", "building"} => ~records'[frames'[i].record].reported
    <3> DEFINE k == i + 1
    <3>1. k \in DOMAIN frames /\ frames'[i] = frames[k] /\ k # 1
      BY <1>5, <1>6
    <3> HIDE DEF k
    <3>2. /\ frames[k].record \in DOMAIN records
          /\ frames[k].at = "reporting" => records[frames[k].record].reported
          /\ frames[k].at \in {"masking", "building"} => ~records[frames[k].record].reported /\ frames[k].record # r
      BY <3>1, OuterCalls DEF PinoInv, Counting, Nesting
    <3> QED
      BY <1>2, <1>4, <3>1, <3>2
  <2> QED
    BY <1>4, <2>3, <2>4 DEF Counting
<1> QED
  BY <1>5, <1>7, <1>8, <1>10, <1>12, <1>14 DEF PinoInv

\* logMethod returns after its line has reported its record.
LEMMA ReturnKeeps ==
  ASSUME PinoInv, InFlight, Head(frames).at # "reporting", LeavesTheStack,
         records[Head(frames).record].reported,
         frames' = Tail(frames), UNCHANGED <<reporting, records, outcomes>>
  PROVE  PinoInv'
<1>0. Head(frames) = frames[1] /\ 1 \in DOMAIN frames
  BY Innermost
<1>1. /\ frames' \in Seq(Frame)
      /\ \A i \in DOMAIN frames' : i + 1 \in DOMAIN frames /\ frames'[i] = frames[i + 1]
      /\ \A i \in DOMAIN frames \ {1} : i - 1 \in DOMAIN frames' /\ frames'[i - 1] = frames[i]
      /\ Nesting'
  BY Returns
<1>2. \A i \in DOMAIN frames' : i \in Nat /\ i + 1 # 1
  BY <1>1, LenProperties
<1>3. StackIs' /\ stack' \in Seq(DOMAIN records)
  <2>1. \A l \in DOMAIN frames' : \E k \in DOMAIN frames \ {1} : frames'[l] = frames[k]
    BY <1>1, <1>2
  <2>2. \A k \in DOMAIN frames \ {1} : \E l \in DOMAIN frames' : frames'[l] = frames[k]
    BY <1>1
  <2> QED
    BY <2>1, <2>2, GivesUp
<1>4. PinoTypeOK'
  BY <1>1, <1>3 DEF PinoInv, PinoTypeOK
<1>5. Observing' /\ \A s \in DOMAIN records : Observed(s)' <=> Observed(s)
  <2>1. DOMAIN frames' \subseteq Nat
    BY <1>2
  <2> QED
    BY <1>1, <2>1, ReturnsObserving
<1>6. Told'
  BY DEF PinoInv, Told
<1>7. Counting'
  <2>1. ASSUME NEW s \in DOMAIN records
        PROVE  /\ records[s].counts = records[s].masked
               /\ ~records[s].reported => \E i \in DOMAIN frames' : Holds(frames'[i]) /\ frames'[i].record = s
               /\ records[s].collected = IF records[s].reported /\ ~Observed(s)' THEN records[s].counts ELSE 0
    <3>1. /\ records[s].counts = records[s].masked
          /\ ~records[s].reported => \E i \in DOMAIN frames : Holds(frames[i]) /\ frames[i].record = s
          /\ records[s].collected = IF records[s].reported /\ ~Observed(s) THEN records[s].counts ELSE 0
      BY DEF PinoInv, Counting
    <3>2. ASSUME NEW i \in DOMAIN frames, Holds(frames[i]), frames[i].record = s, ~records[s].reported
          PROVE  \E l \in DOMAIN frames' : Holds(frames'[l]) /\ frames'[l].record = s
      <4>1. i # 1
        BY <1>0, <3>2
      <4> QED
        BY <1>1, <3>2, <4>1
    <3> QED
      BY <1>5, <3>1, <3>2
  <2>2. ASSUME NEW i \in DOMAIN frames'
        PROVE  /\ frames'[i].at = "reporting" => records[frames'[i].record].reported
               /\ frames'[i].at \in {"masking", "building"} => ~records[frames'[i].record].reported
    BY <1>1 DEF PinoInv, Counting
  <2>3. records' = records
    OBVIOUS
  <2> QED
    BY <2>1, <2>2, <2>3 DEF Counting
<1> QED
  BY <1>1, <1>3, <1>4, <1>5, <1>6, <1>7 DEF PinoInv

\* The observer has returned: the counts are added to the caller's.
LEMMA NotifiedKeeps ==
  ASSUME PinoInv, Notified
  PROVE  PinoInv'
<1> DEFINE r == Head(frames).record
           new == [records[r] EXCEPT !.collected = records[r].collected + records[r].counts]
<1>0. /\ InFlight /\ Head(frames) = frames[1] /\ 1 \in DOMAIN frames /\ r \in DOMAIN records /\ records[r] \in Record
      /\ frames[1].at = "reporting"
      /\ frames \in Seq(Frame) /\ DOMAIN frames = 1 .. Len(frames) /\ Len(frames) \in Nat
  BY Innermost, Elements DEF PinoInv, PinoTypeOK, Notified
<1>1. /\ reporting' = FALSE /\ UNCHANGED <<stack, outcomes>> /\ frames' = Tail(frames)
      /\ records' = [records EXCEPT ![r] = new]
  BY DEF Notified, Collected
<1>2. /\ new \in Record /\ new.counts = records[r].counts /\ new.masked = records[r].masked
      /\ new.reported = records[r].reported /\ new.collected = records[r].collected + records[r].counts
      /\ new.quiet = records[r].quiet
  <2>1. records[r].collected + records[r].counts \in Nat
    BY <1>0 DEF Record
  <2> QED
    BY <1>0, <2>1 DEF Record
<1>3. records[r].reported /\ Observed(r)
  BY <1>0 DEF PinoInv, Counting, Observed
<1> HIDE DEF new
<1>4. /\ records' \in Seq(Record) /\ DOMAIN records' = DOMAIN records
      /\ records'[r] = new /\ \A s \in DOMAIN records : s # r => records'[s] = records[s]
  BY <1>0, <1>1, <1>2, Changed DEF PinoInv
<1>5. /\ frames' \in Seq(Frame)
      /\ \A i \in DOMAIN frames' : i + 1 \in DOMAIN frames /\ frames'[i] = frames[i + 1]
      /\ \A i \in DOMAIN frames \ {1} : i - 1 \in DOMAIN frames' /\ frames'[i - 1] = frames[i]
      /\ Nesting'
  BY <1>0, <1>1, <1>4, Returns
<1>6. \A i \in DOMAIN frames' : i \in Nat /\ i + 1 # 1
  BY <1>5, LenProperties
<1>7. \A i \in DOMAIN frames : frames[i].at = "reporting" => i = 1
  BY <1>0 DEF PinoInv, Observing
<1>8. \A i \in DOMAIN frames' : frames'[i].at # "reporting"
  BY <1>5, <1>6, <1>7
<1> HIDE DEF r
<1>9. StackIs'
  <2>1. ~Holds(frames[1])
    BY <1>0 DEF Holds
  <2>2. \A k \in DOMAIN frames : Holds(frames[k]) =>
          \E l \in DOMAIN frames' : Holds(frames'[l]) /\ frames'[l].record = frames[k].record
    BY <1>5, <2>1
  <2>3. \A l \in DOMAIN frames' : Holds(frames'[l]) =>
          \E k \in DOMAIN frames : Holds(frames[k]) /\ frames[k].record = frames'[l].record
    BY <1>5
  <2> QED
    BY <1>1, <2>2, <2>3, StackStays
<1>10. PinoTypeOK'
  BY <1>1, <1>4, <1>5 DEF PinoInv, PinoTypeOK
<1>11. \A s \in DOMAIN records :
         /\ records'[s].counts = records[s].counts /\ records'[s].masked = records[s].masked
         /\ records'[s].reported = records[s].reported /\ records'[s].quiet = records[s].quiet
  BY <1>2, <1>4
<1>12. Observing'
  <2>1. ASSUME NEW i \in DOMAIN frames'
        PROVE  ~records'[frames'[i].record].quiet
    <3>1. i + 1 \in DOMAIN frames /\ frames'[i] = frames[i + 1] /\ frames[i + 1].record \in DOMAIN records
      BY <1>5 DEF PinoInv, Nesting
    <3>2. \A j \in DOMAIN frames : frames[j].at = "reporting" => ~(i + 1 < j)
      BY <1>6, <1>7
    <3>3. ~records[frames[i + 1].record].quiet
      BY <3>1, <3>2 DEF PinoInv, Observing
    <3> QED
      BY <1>11, <3>1, <3>3
  <2> QED
    BY <1>1, <1>8, <2>1 DEF Observing
<1>13. Told'
  BY <1>1, <1>4, <1>11 DEF PinoInv, Told
<1>14. Counting'
  <2>1. \A s \in DOMAIN records : ~Observed(s)'
    BY <1>8 DEF Observed
  <2>2. ASSUME NEW s \in DOMAIN records
        PROVE  /\ records'[s].counts = records'[s].masked
               /\ ~records'[s].reported => \E i \in DOMAIN frames' : Holds(frames'[i]) /\ frames'[i].record = s
               /\ records'[s].collected = IF records'[s].reported /\ ~Observed(s)' THEN records'[s].counts ELSE 0
    <3>1. /\ records[s].counts = records[s].masked
          /\ ~records[s].reported => \E i \in DOMAIN frames : Holds(frames[i]) /\ frames[i].record = s
          /\ records[s].collected = IF records[s].reported /\ ~Observed(s) THEN records[s].counts ELSE 0
      BY DEF PinoInv, Counting
    <3>2. CASE s = r
      <4>1. records[r].collected = 0 /\ records[r].counts \in Nat
        BY <1>0, <1>3, <3>1, <3>2 DEF Record
      <4>2. new.collected = new.counts /\ new.counts = new.masked
        BY <1>2, <3>1, <3>2, <4>1
      <4>3. records'[s] = new /\ ~Observed(s)' /\ new.reported
        BY <1>2, <1>3, <1>4, <2>1, <3>2
      <4> QED
        BY <4>2, <4>3
    <3>3. CASE s # r
      <4>1. ASSUME NEW i \in DOMAIN frames, Holds(frames[i]), frames[i].record = s
            PROVE  \E l \in DOMAIN frames' : Holds(frames'[l]) /\ frames'[l].record = s
        <5>1. i # 1
          BY <1>0, <3>3, <4>1 DEF r
        <5> QED
          BY <1>5, <4>1, <5>1
      <4>2. ~Observed(s)
        BY <1>0, <1>7, <3>3 DEF Observed, r
      <4> QED
        BY <1>4, <2>1, <3>1, <3>3, <4>1, <4>2
    <3> QED
      BY <3>2, <3>3
  <2>3. ASSUME NEW i \in DOMAIN frames'
        PROVE  frames'[i].at \in {"masking", "building"} => ~records'[frames'[i].record].reported
    <3>1. i + 1 \in DOMAIN frames /\ frames'[i] = frames[i + 1] /\ frames[i + 1].record \in DOMAIN records
      BY <1>5 DEF PinoInv, Nesting
    <3> QED
      BY <1>11, <3>1 DEF PinoInv, Counting
  <2> QED
    BY <1>4, <1>8, <2>2, <2>3 DEF Counting
<1> QED
  BY <1>5, <1>9, <1>10, <1>12, <1>13, <1>14 DEF PinoInv

-----------------------------------------------------------------------------
(* The invariant, and what follows from it.                                *)

LEMMA ReportingStepsKeep ==
  ASSUME PinoInv, LineMasked \/ OrphanLineMasked \/ LogReturns
  PROVE  PinoInv'
<1> DEFINE r == Head(frames).record
<1>0. /\ InFlight /\ Head(frames) = frames[1] /\ 1 \in DOMAIN frames /\ r \in DOMAIN records
      /\ records[r].stages \in Seq(Stages) /\ "stream-write" \in Stages /\ Head(frames).at # "reporting"
  <2>1. InFlight /\ Head(frames).at # "reporting"
    BY DEF LineMasked, OrphanLineMasked, LogReturns
  <2> QED
    BY <2>1, Innermost, Elements DEF PinoInv, Record, Stages
<1>1. Append(records[r].stages, "stream-write") \in Seq(Stages)
  BY <1>0
<1>2. Head(frames).at = "masking" => ~records[r].reported
  BY <1>0 DEF PinoInv, Counting
<1>3. ASSUME LineMasked
      PROVE  PinoInv'
  <2>1. /\ LeavesTheStack /\ ~records[r].reported
        /\ Report(r, Append(records[r].stages, "stream-write"))
    BY <1>2, <1>3 DEF LineMasked, LeavesTheStack
  <2>2. reporting \in BOOLEAN
    BY DEF PinoInv, PinoTypeOK
  <2> QED
    BY <1>0, <1>1, <2>1, <2>2, NotifyKeeps, SilentKeeps
<1>4. ASSUME OrphanLineMasked
      PROVE  PinoInv'
  <2>1. LeavesTheStack /\ ~records[r].reported /\ Report(r, records[r].stages)
    BY <1>2, <1>4 DEF OrphanLineMasked, LeavesTheStack
  <2> QED
    BY <1>0, <2>1, NotifyKeeps, SilentKeeps
<1>5. ASSUME LogReturns
      PROVE  PinoInv'
  <2>1. Holds(Head(frames)) /\ Head(frames).hook # "streamWrite" /\ stack' = Removed(stack, r)
    BY <1>0, <1>5 DEF LogReturns, Holds
  <2>2. LeavesTheStack
    BY <1>0, <2>1, RemovesTheTop DEF LeavesTheStack
  <2>3. CASE records[r].reported
    <3>1. frames' = Tail(frames) /\ UNCHANGED <<reporting, records, outcomes>>
      BY <1>5, <2>3 DEF LogReturns, Unreported
    <3> QED
      BY <1>0, <2>2, <2>3, <3>1, ReturnKeeps
  <2>4. CASE ~records[r].reported
    <3>1. Report(r, records[r].stages)
      BY <1>5, <2>4 DEF LogReturns, Unreported
    <3> QED
      BY <1>0, <2>2, <2>4, <3>1, NotifyKeeps, SilentKeeps
  <2> QED
    BY <2>3, <2>4
<1> QED
  BY <1>3, <1>4, <1>5

LEMMA PinoInitInv ==
  ASSUME PinoInit
  PROVE  PinoInv
<1>1. stack = <<>> /\ frames = <<>> /\ records = <<>> /\ outcomes = <<>> /\ reporting = FALSE
  BY DEF PinoInit
<1>2. /\ <<>> \in Seq(DOMAIN records) /\ <<>> \in Seq(Frame) /\ <<>> \in Seq(Record) /\ <<>> \in Seq(Outcome)
      /\ DOMAIN <<>> = {}
  OBVIOUS
<1>3. DOMAIN stack = {} /\ DOMAIN frames = {} /\ DOMAIN records = {} /\ DOMAIN outcomes = {}
  BY <1>1, <1>2
<1>4. PinoTypeOK
  BY <1>1, <1>2 DEF PinoTypeOK
<1> QED
  BY <1>1, <1>3, <1>4 DEF PinoInv, Nesting, StackIs, Observing, Told, Counting

LEMMA PinoNextInv ==
  ASSUME "nested" \notin BareLines, PinoInv, [PinoNext]_pinoVars
  PROVE  PinoInv'
<1>1. CASE Log
  BY <1>1, OpensKeep DEF Log
<1>2. CASE WriteBareLine
  <2>1. Top(stack) = 0
    BY <1>2 DEF WriteBareLine
  <2> QED
    BY <1>2, <2>1, OpensKeep DEF WriteBareLine
<1>3. CASE MaskValue \/ MaskingFails
  BY <1>3, MaskStepsKeep
<1>4. CASE AfterMasking
  BY <1>4, AfterMaskingKeeps
<1>5. CASE WriteLine
  BY <1>5, WriteLineKeeps
<1>6. CASE LineMasked \/ OrphanLineMasked \/ LogReturns
  BY <1>6, ReportingStepsKeep
<1>7. CASE Notified
  BY <1>7, NotifiedKeeps
<1>8. CASE UNCHANGED pinoVars
  BY <1>8 DEF pinoVars, PinoInv, PinoTypeOK, Nesting, StackIs, Observing, Told, Counting, Observed
<1> QED
  BY <1>1, <1>2, <1>3, <1>4, <1>5, <1>6, <1>7, <1>8 DEF PinoNext

LEMMA PinoInvariant ==
  ASSUME "nested" \notin BareLines
  PROVE  PinoSpec => []PinoInv
<1>1. PinoInit => PinoInv
  BY PinoInitInv
<1>2. PinoInv /\ [PinoNext]_pinoVars => PinoInv'
  BY PinoNextInv
<1> QED
  BY <1>1, <1>2, PTL DEF PinoSpec

\* The record on top of the stack is the one being masked, built or written,
\* however deep records are logged inside one another.
THEOREM StackIsTheCalls ==
  ASSUME "nested" \notin BareLines
  PROVE  PinoSpec => []StackFollowsCalls
<1>1. ASSUME PinoInv
      PROVE  StackFollowsCalls
  <2>1. ASSUME frames = <<>>
        PROVE  stack = <<>> /\ ~reporting
    <3>1. DOMAIN frames = {}
      BY <2>1
    <3>2. DOMAIN stack = {} /\ Len(stack) \in Nat /\ DOMAIN stack = 1 .. Len(stack)
      BY <1>1, <3>1, Elements DEF PinoInv, StackIs
    <3>3. stack = <<>>
      <4>1. stack \in Seq(DOMAIN records) /\ Len(stack) = 0
        BY <1>1, <3>2 DEF PinoInv, PinoTypeOK
      <4> QED
        BY <4>1, EmptySeq
    <3> QED
      BY <1>1, <3>1, <3>3 DEF PinoInv, Observing
  <2> QED
    BY <1>1, <2>1, TopIs DEF StackFollowsCalls
<1> QED
  BY <1>1, PinoInvariant, PTL

\* Every record that is over was reported once, and those logged by an observer
\* not at all.
THEOREM EachRecordIsReportedOnce ==
  ASSUME "nested" \notin BareLines
  PROVE  PinoSpec => []ReportedOnce
<1>1. ASSUME PinoInv
      PROVE  ReportedOnce
  <2> SUFFICES ASSUME NEW r \in DOMAIN records, Over(r)
               PROVE  IF records[r].quiet THEN OutcomesOf(r) = {}
                      ELSE \E i \in DOMAIN outcomes : OutcomesOf(r) = {i}
    BY DEF ReportedOnce
  <2>1. records[r].reported
    BY <1>1 DEF PinoInv, Counting, Over
  <2>2. CASE records[r].quiet
    BY <1>1, <2>2 DEF PinoInv, Told, OutcomesOf
  <2>3. CASE ~records[r].quiet
    <3>1. PICK i \in DOMAIN outcomes : outcomes[i].record = r
      BY <1>1, <2>1, <2>3 DEF PinoInv, Told
    <3>2. OutcomesOf(r) = {i}
      BY <1>1, <3>1 DEF PinoInv, Told, OutcomesOf
    <3> QED
      BY <2>3, <3>2
  <2> QED
    BY <2>2, <2>3
<1> QED
  BY <1>1, PinoInvariant, PTL

\* Every value is counted once, for the record it belongs to and for the caller.
THEOREM EachValueIsCountedOnce ==
  ASSUME "nested" \notin BareLines
  PROVE  PinoSpec => []CountsAddUp
<1>1. ASSUME PinoInv
      PROVE  CountsAddUp
  <2>1. \A r \in DOMAIN records : records[r].counts = records[r].masked
    BY <1>1 DEF PinoInv, Counting
  <2>2. \A i \in DOMAIN outcomes : outcomes[i].values = records[outcomes[i].record].masked
    BY <1>1, <2>1 DEF PinoInv, Told
  <2>3. ASSUME NEW r \in DOMAIN records, Over(r)
        PROVE  records[r].collected = records[r].masked
    <3>1. records[r].reported /\ ~Observed(r)
      BY <1>1, <2>3 DEF PinoInv, Counting, Over, Observed
    <3> QED
      BY <1>1, <2>1, <3>1 DEF PinoInv, Counting
  <2> QED
    BY <2>1, <2>2, <2>3 DEF CountsAddUp, CountsAreItsOwn, CallerCountsAll
<1> QED
  BY <1>1, PinoInvariant, PTL

-----------------------------------------------------------------------------
(* Texts.                                                                  *)

LEMMA OwnWordsAreWords ==
  {"mask", "LIMIT_EXCEEDED", "ERROR", "BLOCKED", "%", "word", "secret", "level", "err", "type",
   "message", "msg", "host"} \subseteq Words
  BY RecordAssumption DEF OwnWords

\* A text has a word at each place from 1 to its length.
LEMMA TextWords ==
  ASSUME NEW text \in Text
  PROVE  /\ Len(text) \in Nat /\ DOMAIN text = 1 .. Len(text)
         /\ \A i \in 1 .. Len(text) : text[i] \in Words
         /\ text = [i \in 1 .. Len(text) |-> text[i]]
  BY DEF Text

LEMMA TextOfWords ==
  ASSUME NEW n \in Nat, NEW f, f \in [1 .. n -> Words]
  PROVE  f \in Text /\ Len(f) = n
  BY DEF Text

LEMMA OneWord == \A w \in Words : <<w>> \in Text
  BY DEF Text

LEMMA MarkersAreText ==
  /\ LimitMarker \in Text /\ ErrorMarker \in Text /\ Blocked \in Text /\ <<>> \in Text
  /\ NoText \notin Text
<1>1. {"LIMIT_EXCEEDED", "ERROR", "BLOCKED"} \subseteq Words
  BY OwnWordsAreWords
<1>2. LimitMarker \in Text /\ ErrorMarker \in Text /\ Blocked \in Text
  BY <1>1, OneWord DEF LimitMarker, ErrorMarker, Blocked
<1>3. NoText \notin Text
  <2> SUFFICES ASSUME NoText \in Text PROVE FALSE
    OBVIOUS
  <2>1. Len(NoText) = 1
    BY DEF NoText
  <2>2. NoText[1] \in Words
    BY <2>1, TextWords
  <2> QED
    BY <2>2, RecordAssumption
<1> QED
  BY <1>2, <1>3 DEF Text

LEMMA JoinedTexts ==
  ASSUME NEW s \in Text, NEW t \in Text
  PROVE  /\ s \o t \in Text /\ Len(s \o t) = Len(s) + Len(t)
         /\ \A i \in 1 .. Len(s) + Len(t) : (s \o t)[i] = IF i <= Len(s) THEN s[i] ELSE t[i - Len(s)]
  BY ConcatProperties DEF Text

LEMMA SameTexts ==
  ASSUME NEW s \in Text, NEW t \in Text, Len(s) = Len(t), \A i \in 1 .. Len(s) : s[i] = t[i]
  PROVE  s = t
  BY TextWords

\* A word is redacted under a key other than context as it is under none.
LEMMA OtherKeys ==
  ASSUME NEW text, NEW key, key # "context"
  PROVE  IsRaw(text, key) <=> IsRaw(text, "none")
  BY DEF IsRaw, Found

\* What is raw under no key is raw under every one.
LEMMA RawUnderAnyKey ==
  ASSUME NEW text, NEW key, ~IsRaw(text, key)
  PROVE  ~IsRaw(text, "none")
  BY DEF IsRaw, Found

LEMMA MarkersAreNotRaw ==
  ASSUME NEW key, NEW w \in {"LIMIT_EXCEEDED", "ERROR", "BLOCKED"}
  PROVE  ~IsRaw(<<w>>, key)
  BY DEF IsRaw, Found

\* The masked text is no raw one, and one that is not raw stays as it is.
LEMMA MaskedLeaf ==
  ASSUME NEW text \in Text, NEW key
  PROVE  /\ MaskLeaf(text, key) \in Text /\ ~IsRaw(MaskLeaf(text, key), key)
         /\ ~IsRaw(text, key) => MaskLeaf(text, key) = text
<1> DEFINE f == [i \in DOMAIN text |-> IF Found(text, key, i) THEN Masked ELSE text[i]]
<1>1. /\ Len(text) \in Nat /\ DOMAIN text = 1 .. Len(text)
      /\ \A i \in 1 .. Len(text) : text[i] \in Words
      /\ text = [i \in 1 .. Len(text) |-> text[i]]
  BY TextWords
<1>2. \A i \in 1 .. Len(text) : f[i] = IF Found(text, key, i) THEN "mask" ELSE text[i]
  BY <1>1 DEF Masked
<1>3. f \in Text /\ DOMAIN f = 1 .. Len(text)
  <2>1. "mask" \in Words
    BY OwnWordsAreWords
  <2>2. f \in [1 .. Len(text) -> Words]
    BY <1>1, <2>1 DEF Masked
  <2> QED
    BY <1>1, <2>2, TextOfWords
<1> HIDE DEF f
<1>4. CASE "blocked" \in ToSet(text)
  <2>1. MaskLeaf(text, key) = Blocked
    BY <1>4 DEF MaskLeaf
  <2>2. IsRaw(text, key)
    BY <1>4 DEF ToSet, IsRaw
  <2> QED
    BY <2>1, <2>2, MarkersAreText, MarkersAreNotRaw DEF Blocked
<1>5. CASE "blocked" \notin ToSet(text)
  <2>1. MaskLeaf(text, key) = f
    BY <1>5 DEF MaskLeaf, f
  <2>2. \A i \in DOMAIN text : text[i] # "blocked"
    BY <1>5 DEF ToSet
  <2>3. ASSUME NEW i \in 1 .. Len(text) PROVE f[i] # "secret" /\ f[i] # "blocked"
    BY <1>1, <1>2, <2>2 DEF Found
  <2>4. ASSUME NEW i \in 1 .. Len(text), f[i] = "bare"
        PROVE  IF i = 1 THEN key # "context" ELSE f[i - 1] # "context"
    <3>1. text[i] = "bare" /\ ~Found(text, key, i)
      BY <1>2, <2>4
    <3>2. CASE i = 1
      BY <3>1, <3>2 DEF Found
    <3>3. CASE i # 1
      <4>1. text[i - 1] # "context" /\ i - 1 \in 1 .. Len(text)
        BY <1>1, <3>1, <3>3 DEF Found
      <4> QED
        BY <1>2, <3>3, <4>1
    <3> QED
      BY <3>2, <3>3
  <2>5. ~IsRaw(f, key)
    BY <1>3, <2>3, <2>4 DEF IsRaw, Found
  <2>6. ~IsRaw(text, key) => f = text
    <3> SUFFICES ASSUME ~IsRaw(text, key) PROVE f = text
      OBVIOUS
    <3>1. \A i \in 1 .. Len(text) : f[i] = text[i]
      BY <1>1, <1>2 DEF IsRaw
    <3>2. Len(f) = Len(text)
      BY <1>1, <1>3, TextWords
    <3> QED
      BY <1>3, <3>1, <3>2, SameTexts
  <2> QED
    BY <1>3, <2>1, <2>5, <2>6
<1> QED
  BY <1>4, <1>5

-----------------------------------------------------------------------------
(* Formatting.                                                             *)

\* A set of naturals that is not empty has a least element.
LEMMA LeastOf ==
  ASSUME NEW T, T \subseteq Nat, T # {}
  PROVE  \E x \in T : \A y \in T : x <= y
<1>1. \E x \in T : \A y \in T : ~ (<<y, x>> \in OpToRel(<, Nat))
  BY NatLessThanWellFounded, WFMin
<1>2. PICK x \in T : \A y \in T : ~ (<<y, x>> \in OpToRel(<, Nat))
  BY <1>1
<1>3. \A y \in T : <<y, x>> \in Nat \X Nat
  OBVIOUS
<1>4. \A y \in T : ~ (y < x)
  BY <1>2, <1>3 DEF OpToRel
<1> QED
  BY <1>4

Interpolated == [type : ValueTypes, text : Text]

\* A directive is written as a text, or stays.
LEMMA WrittenText ==
  ASSUME NEW directive, NEW value \in Interpolated
  PROVE  Written(directive, value) \in Text \cup {NoText}
<1>1. value.text \in Text /\ <<"word">> \in Text
  BY OneWord, OwnWordsAreWords DEF Interpolated
<1> QED
  BY <1>1 DEF Written

LEMMA PieceText ==
  ASSUME NEW fmt \in Text, NEW values \in Seq(Interpolated), NEW i \in 1 .. Len(fmt)
  PROVE  Piece(fmt, values, i) \in Text
<1> DEFINE n == UsedBefore(fmt, i) + 1
           w == IF n <= Len(values) THEN Written(fmt[i], values[n]) ELSE NoText
<1>1. <<fmt[i]>> \in Text /\ <<"%">> \in Text
  BY TextWords, OneWord, OwnWordsAreWords
<1>2. n \in Nat \ {0}
  <2>1. IsFiniteSet({h \in 1 .. (i - 1) : fmt[h] \in Directives \ {"%%"}})
    <3>1. Len(fmt) \in Nat
      BY TextWords
    <3>2. IsFiniteSet(1 .. (i - 1))
      BY <3>1, FS_Interval
    <3> QED
      BY <3>2, FS_Subset
  <2>2. UsedBefore(fmt, i) \in Nat
    BY <2>1, FS_CardinalityType DEF UsedBefore
  <2> QED
    BY <2>2
<1> HIDE DEF n
<1>3. w \in Text \cup {NoText}
  <2>1. CASE n <= Len(values)
    <3>1. values[n] \in Interpolated
      BY <1>2, <2>1
    <3> QED
      BY <2>1, <3>1, WrittenText
  <2> QED
    BY <2>1
<1>4. Piece(fmt, values, i) = IF fmt[i] \notin Directives THEN <<fmt[i]>>
                              ELSE IF fmt[i] = "%%" THEN <<"%">>
                              ELSE IF w = NoText THEN <<fmt[i]>> ELSE w
  BY Zenon DEF Piece, n
<1> HIDE DEF w
<1> QED
  BY <1>1, <1>3, <1>4

\* upTo is what is written of the format up to each word, n words long.
Writes(upTo, fmt, values, n) ==
  upTo = [i \in 0 .. n |-> IF i = 0 THEN <<>> ELSE upTo[i - 1] \o Piece(fmt, values, i)]

LEMMA WritesEach ==
  ASSUME NEW fmt, NEW values, NEW n \in Nat, NEW upTo
  PROVE  Writes(upTo, fmt, values, n) <=>
           /\ upTo = [i \in 0 .. n |-> upTo[i]] /\ upTo[0] = <<>>
           /\ \A i \in 1 .. n : upTo[i] = upTo[i - 1] \o Piece(fmt, values, i)
<1> DEFINE G(i) == IF i = 0 THEN <<>> ELSE upTo[i - 1] \o Piece(fmt, values, i)
<1>1. \A i \in 0 .. n : i = 0 \/ i \in 1 .. n
  OBVIOUS
<1>2. 0 \in 0 .. n /\ \A i \in 1 .. n : i \in 0 .. n /\ i # 0
  OBVIOUS
<1>3. G(0) = <<>> /\ \A i \in 1 .. n : G(i) = upTo[i - 1] \o Piece(fmt, values, i)
  OBVIOUS
<1>4. Writes(upTo, fmt, values, n) <=> upTo = [i \in 0 .. n |-> G(i)]
  BY DEF Writes
<1> HIDE DEF G
<1>5. upTo = [i \in 0 .. n |-> G(i)] <=>
        upTo = [i \in 0 .. n |-> upTo[i]] /\ \A i \in 0 .. n : upTo[i] = G(i)
  OBVIOUS
<1>6. (\A i \in 0 .. n : upTo[i] = G(i)) <=> upTo[0] = G(0) /\ \A i \in 1 .. n : upTo[i] = G(i)
  BY <1>1, <1>2
<1> QED
  BY <1>3, <1>4, <1>5, <1>6

LEMMA WritesGives ==
  ASSUME NEW fmt, NEW values, NEW n \in Nat, NEW upTo, Writes(upTo, fmt, values, n)
  PROVE  upTo[0] = <<>> /\ \A i \in 1 .. n : upTo[i] = upTo[i - 1] \o Piece(fmt, values, i)
  BY WritesEach

\* A format of any length can be written: a shortest that cannot would be longer
\* by one word than one that can.
LEMMA FormatIsWritten ==
  ASSUME NEW fmt, NEW values, NEW n \in Nat
  PROVE  \E upTo : Writes(upTo, fmt, values, n)
<1> DEFINE stuck == {k \in Nat : ~ \E upTo : Writes(upTo, fmt, values, k)}
<1>1. stuck = {}
  <2> SUFFICES ASSUME stuck # {} PROVE FALSE
    OBVIOUS
  <2>1. PICK k \in stuck : \A m \in stuck : k <= m
    <3>1. stuck \subseteq Nat
      OBVIOUS
    <3> HIDE DEF stuck
    <3> QED
      BY <3>1, LeastOf
  <2>2. k \in Nat /\ ~ \E upTo : Writes(upTo, fmt, values, k)
    OBVIOUS
  <2>3. CASE k = 0
    <3> DEFINE f == [i \in 0 .. 0 |-> <<>>]
    <3>1. f = [i \in 0 .. 0 |-> f[i]] /\ f[0] = <<>>
      OBVIOUS
    <3>2. \A i \in 1 .. 0 : FALSE
      OBVIOUS
    <3> HIDE DEF f
    <3>3. Writes(f, fmt, values, 0)
      <4>1. \A i \in 1 .. 0 : f[i] = f[i - 1] \o Piece(fmt, values, i)
        BY <3>2
      <4>2. 0 \in Nat
        OBVIOUS
      <4> QED
        BY <3>1, <4>1, <4>2, WritesEach
    <3> QED
      BY <2>2, <2>3, <3>3
  <2>4. CASE k # 0
    <3>1. k - 1 \in Nat /\ k - 1 \notin stuck
      BY <2>1, <2>2, <2>4
    <3>2. PICK g : Writes(g, fmt, values, k - 1)
      BY <3>1
    <3>3. /\ g[0] = <<>>
          /\ \A i \in 1 .. (k - 1) : g[i] = g[i - 1] \o Piece(fmt, values, i)
      BY <3>1, <3>2, WritesGives
    <3> DEFINE f == [i \in 0 .. k |-> IF i = k THEN g[k - 1] \o Piece(fmt, values, k) ELSE g[i]]
    <3>4. /\ f = [i \in 0 .. k |-> f[i]]
          /\ f[k] = g[k - 1] \o Piece(fmt, values, k)
          /\ \A i \in 0 .. (k - 1) : f[i] = g[i]
      BY <2>2
    <3> HIDE DEF f
    <3>5. \A i \in 1 .. k : f[i] = f[i - 1] \o Piece(fmt, values, i)
      <4> SUFFICES ASSUME NEW i \in 1 .. k PROVE f[i] = f[i - 1] \o Piece(fmt, values, i)
        OBVIOUS
      <4>1. i - 1 \in 0 .. (k - 1) /\ (i = k \/ i \in 1 .. (k - 1))
        BY <2>2
      <4>2. i \in 1 .. (k - 1) => i \in 0 .. (k - 1)
        OBVIOUS
      <4> QED
        BY <3>3, <3>4, <4>1, <4>2
    <3>6. f[0] = <<>>
      <4>1. 0 \in 0 .. (k - 1)
        BY <2>2, <2>4
      <4> QED
        BY <3>3, <3>4, <4>1
    <3>7. Writes(f, fmt, values, k)
      BY <2>2, <3>4, <3>5, <3>6, WritesEach
    <3> QED
      BY <2>2, <3>7
  <2> QED
    BY <2>3, <2>4
<1> QED
  BY <1>1

\* And what is written is a text, by the same argument.
LEMMA WritesText ==
  ASSUME NEW fmt \in Text, NEW values \in Seq(Interpolated), NEW upTo,
         Writes(upTo, fmt, values, Len(fmt))
  PROVE  upTo[Len(fmt)] \in Text
<1> DEFINE n     == Len(fmt)
           stray == {k \in 0 .. n : upTo[k] \notin Text}
<1>1. n \in Nat
  BY TextWords
<1>2. /\ upTo[0] = <<>>
      /\ \A i \in 1 .. n : upTo[i] = upTo[i - 1] \o Piece(fmt, values, i)
  BY <1>1, WritesEach
<1>3. stray = {}
  <2> SUFFICES ASSUME stray # {} PROVE FALSE
    OBVIOUS
  <2>1. PICK k \in stray : \A m \in stray : k <= m
    <3>1. stray \subseteq Nat
      BY <1>1
    <3> HIDE DEF stray
    <3> QED
      BY <3>1, LeastOf
  <2>2. k \in 0 .. n /\ upTo[k] \notin Text
    OBVIOUS
  <2>3. k # 0
    BY <1>2, <2>2, MarkersAreText
  <2>4. k \in 1 .. n /\ k - 1 \in 0 .. n /\ ~ (k <= k - 1)
    BY <1>1, <2>2, <2>3
  <2>5. upTo[k - 1] \in Text
    BY <2>1, <2>4
  <2>6. Piece(fmt, values, k) \in Text
    BY <2>4, PieceText
  <2> QED
    BY <1>2, <2>2, <2>4, <2>5, <2>6, JoinedTexts
<1>4. n \in 0 .. n
  BY <1>1
<1> QED
  BY <1>3, <1>4

\* So formatPinoMessage makes a text of a text.
LEMMA FormatIsText ==
  ASSUME NEW fmt \in Text, NEW values \in Seq(Interpolated)
  PROVE  FormatPinoMessage(fmt, values) \in Text
<1> DEFINE All(u) == u = [i \in 0 .. Len(fmt) |-> IF i = 0 THEN <<>> ELSE u[i - 1] \o Piece(fmt, values, i)]
<1>1. \E u : All(u)
  <2>1. Len(fmt) \in Nat
    BY TextWords
  <2>2. PICK u : Writes(u, fmt, values, Len(fmt))
    BY <2>1, FormatIsWritten
  <2> QED
    BY <2>2 DEF Writes
<1>2. All(CHOOSE u : All(u))
  <2> HIDE DEF All
  <2> QED
    BY <1>1
<1>3. (CHOOSE u : All(u))[Len(fmt)] \in Text
  <2> DEFINE u == CHOOSE u : All(u)
  <2>1. Writes(u, fmt, values, Len(fmt))
    BY <1>2 DEF Writes
  <2> HIDE DEF u
  <2>2. u[Len(fmt)] \in Text
    BY <2>1, WritesText
  <2> QED
    BY <2>2 DEF u
<1>4. values # <<>> => FormatPinoMessage(fmt, values) = (CHOOSE u : All(u))[Len(fmt)]
  BY Zenon DEF FormatPinoMessage
<1>5. values = <<>> => FormatPinoMessage(fmt, values) = fmt
  BY DEF FormatPinoMessage
<1> HIDE DEF All
<1> QED
  BY <1>3, <1>4, <1>5

-----------------------------------------------------------------------------
(* The line pino makes of the arguments.                                   *)

ArgKinds == {"none", "text", "other", "object", "error", "objectWithError", "plainError", "objectWithPlain"}

Arg == [is : ArgKinds, key : Words, text : Text]

LEMMA TextArgIsArg ==
  ASSUME NEW text \in Text
  PROVE  /\ TextArg(text) \in Arg /\ TextArg(text).is = "text" /\ TextArg(text).text = text
         /\ TextArg(text).key = "none"
<1>1. "none" \in Words
  BY RecordAssumption
<1> QED
  BY <1>1 DEF TextArg, Arg, ArgKinds

\* What a call consists of.
LEMMA CallFacts ==
  ASSUME NEW c \in Calls
  PROVE  /\ c.prefix \in Text /\ c.message \in Text \cup {NoText} /\ c.values \in Seq(Interpolated)
         /\ c.bindings \in Seq(Token) /\ c.first \in Arg
         /\ c.first.is \in {"none", "object", "error", "objectWithError"}
         /\ c.message = NoText => c.values = <<>>
<1>1. /\ c.prefix \in MsgPrefixes /\ c.first \in Firsts /\ c.message \in Messages /\ c.bindings \in Bindings
      /\ c.values \in UNION {[1 .. n -> Values] : n \in 0 .. MaxInterpolated}
      /\ c.message = NoText => c.values = <<>>
  BY DEF Calls
<1>2. PICK n \in 0 .. MaxInterpolated : c.values \in [1 .. n -> Values]
  BY <1>1
<1>3. Values \subseteq Interpolated /\ MaxInterpolated \in Nat
  BY RecordAssumption DEF Interpolated
<1>4. n \in Nat /\ c.values \in [1 .. n -> Interpolated]
  BY <1>2, <1>3
<1>5. c.values \in Seq(Interpolated)
  BY <1>4
<1>6. c.first \in [is : {"none", "object", "error", "objectWithError"}, key : Words, text : Text]
  BY <1>1, RecordAssumption
<1>7. c.prefix \in Text /\ c.message \in Text \cup {NoText} /\ c.bindings \in Seq(Token)
  BY <1>1, RecordAssumption
<1> QED
  BY <1>1, <1>5, <1>6, <1>7 DEF Arg, ArgKinds

\* What is printed where the message is: the text of the argument there, or what
\* pino makes of it and of what follows it.
LEMMA MessageText ==
  ASSUME NEW given \in Seq(Arg)
  PROVE  PinoMessage(given) \in Text \cup {NoText}
<1> DEFINE n == Len(given)
<1>1. n \in Nat
  OBVIOUS
<1>2. given # <<>> => n # 0
  BY EmptySeq
<1>3. \A i \in 1 .. n : given[i] \in Arg
  OBVIOUS
<1> DEFINE m == IF given # <<>> /\ given[1].is \in {"text", "other"} THEN 1 ELSE 2
           values == [i \in 1..(n - m) |->
                        [type |-> IF given[m + i].is = "text" THEN "string" ELSE "number", text |-> given[m + i].text]]
<1>4. PinoMessage(given) = IF n < m THEN (IF given # <<>> /\ given[1].is = "error" THEN given[1].text ELSE NoText)
                           ELSE IF given[m].is = "text" THEN FormatPinoMessage(given[m].text, values)
                           ELSE NoText
  BY Zenon DEF PinoMessage
<1> HIDE DEF n, values
<1>5. m \in {1, 2}
  OBVIOUS
<1> HIDE DEF m
<1>6. \A i \in 1 .. n : given[i].text \in Text
  BY <1>3 DEF Arg
<1>7. CASE n < m
  <2>1. given # <<>> => 1 \in 1 .. n
    BY <1>1, <1>2
  <2> QED
    BY <1>4, <1>6, <1>7, <2>1
<1>8. CASE ~(n < m)
  <2>1. n - m \in Nat /\ m \in 1 .. n
    BY <1>1, <1>5, <1>8
  <2>2. \A i \in 1 .. (n - m) : m + i \in 1 .. n
    BY <1>1, <1>5, <2>1
  <2>3. values \in Seq(Interpolated)
    <3>1. \A i \in 1 .. (n - m) : given[m + i].text \in Text
      BY <1>6, <2>2
    <3>2. values \in [1 .. (n - m) -> Interpolated]
      BY <3>1 DEF values, Interpolated, ValueTypes
    <3> DEFINE k == n - m
    <3>3. k \in Nat /\ values \in [1 .. k -> Interpolated]
      BY <2>1, <3>2
    <3> HIDE DEF k
    <3> QED
      BY <3>3
  <2>4. FormatPinoMessage(given[m].text, values) \in Text
    BY <1>6, <2>1, <2>3, FormatIsText
  <2> QED
    BY <1>4, <1>8, <2>4
<1> QED
  BY <1>7, <1>8

LEMMA TokensAreTokens ==
  ASSUME NEW text \in Text, NEW name \in Words
  PROVE  Key(name) \in Token /\ String(text) \in Token /\ Other \in Token
  BY OneWord, MarkersAreText DEF Key, String, Other, Token

\* Two pieces of a line.
LEMMA JoinedLines ==
  ASSUME NEW s \in Seq(Token), NEW t \in Seq(Token)
  PROVE  s \o t \in Seq(Token)
  BY ConcatProperties

\* With nothing raw in either, and no value at the start of the second, there is
\* nothing raw in the whole.
LEMMA JoinedLinesNotRaw ==
  ASSUME NEW s \in Seq(Token), NEW t \in Seq(Token), NothingRawIn(s), NothingRawIn(t),
         t # <<>> => t[1].is # "string"
  PROVE  NothingRawIn(s \o t)
<1> DEFINE l == s \o t
<1>1. /\ l \in Seq(Token) /\ Len(l) = Len(s) + Len(t) /\ Len(s) \in Nat /\ Len(t) \in Nat
      /\ \A i \in 1 .. Len(s) + Len(t) : l[i] = IF i <= Len(s) THEN s[i] ELSE t[i - Len(s)]
  BY ConcatProperties
<1> HIDE DEF l
<1>2. SUFFICES ASSUME NEW i \in 1 .. Len(s) + Len(t), l[i].is = "string"
               PROVE  ~IsRaw(l[i].text, KeyOf(l, i))
  BY <1>1 DEF NothingRawIn, l
<1>3. CASE i <= Len(s)
  <2>1. i \in DOMAIN s /\ l[i] = s[i]
    BY <1>1, <1>3
  <2>2. KeyOf(l, i) = KeyOf(s, i)
    <3>1. i > 1 => l[i - 1] = s[i - 1]
      BY <1>1, <1>3
    <3> QED
      BY <3>1 DEF KeyOf
  <2> QED
    BY <1>2, <2>1, <2>2 DEF NothingRawIn
<1>4. CASE ~(i <= Len(s))
  <2> DEFINE j == i - Len(s)
  <2>1. j \in 1 .. Len(t) /\ l[i] = t[j]
    BY <1>1, <1>4
  <2>2. t # <<>> /\ j # 1
    BY <1>2, <2>1
  <2>3. KeyOf(l, i) = KeyOf(t, j)
    <3>1. i > 1 /\ j > 1 /\ l[i - 1] = t[j - 1]
      <4>1. i - 1 \in 1 .. Len(s) + Len(t) /\ ~(i - 1 <= Len(s)) /\ (i - 1) - Len(s) = j - 1
            /\ i > 1 /\ j > 1
        BY <1>1, <1>4, <2>1, <2>2
      <4>2. l[i - 1] = t[(i - 1) - Len(s)]
        BY <1>1, <4>1
      <4> QED
        BY <4>1, <4>2
    <3> HIDE DEF j
    <3> QED
      BY <3>1 DEF KeyOf
  <2>4. j \in DOMAIN t
    BY <2>1
  <2> HIDE DEF j
  <2> QED
    BY <1>2, <2>1, <2>3, <2>4 DEF NothingRawIn
<1> QED
  BY <1>1, <1>3, <1>4

\* What is raw in the second piece is raw in the whole, unless it is at its start.
LEMMA LastOfLine ==
  ASSUME NEW s \in Seq(Token), NEW name \in Words, NEW text \in Text,
         NothingRawIn(s \o <<Key(name), String(text)>>)
  PROVE  ~IsRaw(text, name)
<1> DEFINE t == <<Key(name), String(text)>>
           l == s \o t
           n == Len(s) + 2
<1>1. t \in Seq(Token) /\ Len(t) = 2 /\ t[1] = Key(name) /\ t[2] = String(text)
  BY TokensAreTokens
<1>2. NothingRawIn(l)
  OBVIOUS
<1> HIDE DEF t
<1>3. /\ l \in Seq(Token) /\ Len(l) = Len(s) + 2 /\ Len(s) \in Nat
      /\ \A i \in 1 .. Len(s) + 2 : l[i] = IF i <= Len(s) THEN s[i] ELSE t[i - Len(s)]
  BY <1>1, ConcatProperties
<1> HIDE DEF l
<1>4. n \in DOMAIN l /\ l[n] = t[2] /\ n > 1 /\ l[n - 1] = t[1]
  <2>1. n \in 1 .. Len(s) + 2 /\ n - 1 \in 1 .. Len(s) + 2 /\ n - Len(s) = 2 /\ (n - 1) - Len(s) = 1
        /\ ~(n <= Len(s)) /\ ~(n - 1 <= Len(s)) /\ n > 1
    BY <1>3
  <2> HIDE DEF n
  <2> QED
    BY <1>3, <2>1
<1> HIDE DEF n
<1>5. l[n].is = "string" /\ l[n].text = text /\ KeyOf(l, n) = name
  <2>1. l[n - 1].is = "key" /\ l[n - 1].text[1] = name
    BY <1>1, <1>4 DEF Key
  <2> QED
    BY <1>1, <1>4, <2>1 DEF String, KeyOf
<1> QED
  BY <1>2, <1>4, <1>5 DEF NothingRawIn

\* The first argument is masked: not raw under the key it is printed under.
Quiet(arg) == ~IsRaw(arg.text, IF arg.is = "object" THEN arg.key ELSE "none")

LEMMA FirstTokensFacts ==
  ASSUME NEW arg \in Arg
  PROVE  /\ FirstTokens(arg) \in Seq(Token)
         /\ FirstTokens(arg) # <<>> => FirstTokens(arg)[1].is # "string"
         /\ Quiet(arg) => NothingRawIn(FirstTokens(arg))
<1> DEFINE t == FirstTokens(arg)
<1>1. arg.text \in Text /\ arg.key \in Words /\ arg.is \in ArgKinds
  BY DEF Arg
<1>2. /\ Key("err") \in Token /\ Key("type") \in Token /\ Key("message") \in Token /\ Other \in Token
      /\ Key(arg.key) \in Token /\ String(arg.text) \in Token
  BY <1>1, TokensAreTokens, OwnWordsAreWords
<1>3. /\ \A name : Key(name).is = "key" /\ Key(name).text[1] = name
      /\ \A text : String(text).is = "string" /\ String(text).text = text
      /\ Other.is = "other"
  BY DEF Key, String, Other
<1>4. Quiet(arg) => /\ arg.is = "object" => ~IsRaw(arg.text, arg.key)
                    /\ arg.is # "object" => ~IsRaw(arg.text, "message")
  BY OtherKeys DEF Quiet
<1>5. CASE arg.is = "object"
  <2>1. t = <<Key(arg.key), String(arg.text)>>
    BY <1>5 DEF FirstTokens
  <2> HIDE DEF t
  <2>2. DOMAIN t = 1 .. 2 /\ t[1] = Key(arg.key) /\ t[2] = String(arg.text)
    BY <2>1
  <2>3. t[1].is # "string" /\ KeyOf(t, 2) = arg.key
    BY <1>3, <2>2 DEF KeyOf
  <2>4. Quiet(arg) => NothingRawIn(t)
    BY <1>3, <1>4, <1>5, <2>2, <2>3 DEF NothingRawIn
  <2> QED
    BY <1>2, <2>1, <2>3, <2>4 DEF t
<1>6. CASE arg.is = "error"
  <2>1. t = <<Key("err"), Key("type"), Other, Key("message"), String(arg.text)>>
    BY <1>6 DEF FirstTokens
  <2> HIDE DEF t
  <2>2. DOMAIN t = 1 .. 5 /\ t[1] = Key("err") /\ t[2] = Key("type") /\ t[3] = Other /\ t[4] = Key("message")
        /\ t[5] = String(arg.text)
    BY <2>1
  <2>3. t[1].is # "string" /\ KeyOf(t, 5) = "message"
    BY <1>3, <2>2 DEF KeyOf
  <2>4. Quiet(arg) => NothingRawIn(t)
    BY <1>3, <1>4, <1>6, <2>2, <2>3 DEF NothingRawIn
  <2> QED
    BY <1>2, <2>1, <2>3, <2>4 DEF t
<1>7. CASE arg.is = "plainError"
  <2>1. t = <<Key("message"), String(arg.text)>>
    BY <1>7 DEF FirstTokens
  <2> HIDE DEF t
  <2>2. DOMAIN t = 1 .. 2 /\ t[1] = Key("message") /\ t[2] = String(arg.text)
    BY <2>1
  <2>3. t[1].is # "string" /\ KeyOf(t, 2) = "message"
    BY <1>3, <2>2 DEF KeyOf
  <2>4. Quiet(arg) => NothingRawIn(t)
    BY <1>3, <1>4, <1>7, <2>2, <2>3 DEF NothingRawIn
  <2> QED
    BY <1>2, <2>1, <2>3, <2>4 DEF t
<1>8. CASE arg.is = "objectWithError"
  <2>1. t = <<Key(arg.key), Key("type"), Other, Key("message"), String(arg.text)>>
    BY <1>8 DEF FirstTokens
  <2> HIDE DEF t
  <2>2. DOMAIN t = 1 .. 5 /\ t[1] = Key(arg.key) /\ t[2] = Key("type") /\ t[3] = Other /\ t[4] = Key("message")
        /\ t[5] = String(arg.text)
    BY <2>1
  <2>3. t[1].is # "string" /\ KeyOf(t, 5) = "message"
    BY <1>3, <2>2 DEF KeyOf
  <2>4. Quiet(arg) => NothingRawIn(t)
    BY <1>3, <1>4, <1>8, <2>2, <2>3 DEF NothingRawIn
  <2> QED
    BY <1>2, <2>1, <2>3, <2>4 DEF t
<1>9. CASE arg.is = "objectWithPlain"
  <2>1. t = <<Key(arg.key), Key("message"), String(arg.text)>>
    BY <1>9 DEF FirstTokens
  <2> HIDE DEF t
  <2>2. DOMAIN t = 1 .. 3 /\ t[1] = Key(arg.key) /\ t[2] = Key("message") /\ t[3] = String(arg.text)
    BY <2>1
  <2>3. t[1].is # "string" /\ KeyOf(t, 3) = "message"
    BY <1>3, <2>2 DEF KeyOf
  <2>4. Quiet(arg) => NothingRawIn(t)
    BY <1>3, <1>4, <1>9, <2>2, <2>3 DEF NothingRawIn
  <2> QED
    BY <1>2, <2>1, <2>3, <2>4 DEF t
<1>10. CASE arg.is \in {"none", "text", "other"}
  <2>1. t = <<>>
    BY <1>10 DEF FirstTokens
  <2> HIDE DEF t
  <2> QED
    BY <2>1 DEF t, NothingRawIn
<1> QED
  BY <1>1, <1>5, <1>6, <1>7, <1>8, <1>9, <1>10 DEF ArgKinds

\* The line is what comes before the message, and the message.
LineStart(bindings, given) ==
  <<Key("level"), Other>> \o bindings \o (IF given = <<>> THEN <<>> ELSE FirstTokens(given[1]))

LEMMA FirstIsArg ==
  ASSUME NEW given \in Seq(Arg), given # <<>>
  PROVE  given[1] \in Arg
<1> DEFINE n == Len(given)
<1>1. n \in Nat /\ n # 0
  BY EmptySeq
<1>2. \A i \in 1 .. n : given[i] \in Arg
  OBVIOUS
<1> HIDE DEF n
<1> QED
  BY <1>1, <1>2

LEMMA LineStartFacts ==
  ASSUME NEW bindings \in Seq(Token), NEW given \in Seq(Arg)
  PROVE  /\ LineStart(bindings, given) \in Seq(Token)
         /\ bindings = <<>> /\ (given # <<>> => Quiet(given[1])) => NothingRawIn(LineStart(bindings, given))
<1> DEFINE t == IF given = <<>> THEN <<>> ELSE FirstTokens(given[1])
           s == <<Key("level"), Other>>
<1>1. t \in Seq(Token) /\ (t # <<>> => t[1].is # "string")
  BY FirstIsArg, FirstTokensFacts
<1>2. (given # <<>> => Quiet(given[1])) => NothingRawIn(t)
  BY FirstIsArg, FirstTokensFacts DEF NothingRawIn
<1>3. s \in Seq(Token) /\ NothingRawIn(s)
  <2>1. Key("level") \in Token /\ Other \in Token
    BY TokensAreTokens, OwnWordsAreWords, MarkersAreText
  <2>2. DOMAIN s = 1 .. 2 /\ s[1].is # "string" /\ s[2].is # "string"
    BY DEF Key, Other
  <2> QED
    BY <2>1, <2>2 DEF NothingRawIn
<1>4. LineStart(bindings, given) = (s \o bindings) \o t
  BY DEF LineStart
<1> HIDE DEF s, t
<1>5. s \o bindings \in Seq(Token) /\ (bindings = <<>> => s \o bindings = s)
  BY <1>3, JoinedLines, ConcatEmptySeq
<1> QED
  BY <1>1, <1>2, <1>3, <1>4, <1>5, JoinedLines, JoinedLinesNotRaw

LEMMA MessageTokensFacts ==
  ASSUME NEW prefix \in Text, NEW message \in Text \cup {NoText}
  PROVE  /\ MessageTokens(prefix, message) \in Seq(Token)
         /\ MessageTokens(prefix, message) # <<>> => MessageTokens(prefix, message)[1].is # "string"
         /\ message = NoText \/ ~IsRaw(prefix \o message, "none") =>
              NothingRawIn(MessageTokens(prefix, message))
<1>1. CASE message = NoText
  <2>1. MessageTokens(prefix, message) = <<>>
    BY <1>1 DEF MessageTokens
  <2> QED
    BY <2>1 DEF NothingRawIn
<1>2. CASE message # NoText
  <2> DEFINE t == MessageTokens(prefix, message)
             text == prefix \o message
  <2>1. text \in Text
    BY <1>2, JoinedTexts
  <2>2. t = <<Key("msg"), String(text)>>
    BY <1>2 DEF MessageTokens
  <2> HIDE DEF t, text
  <2>3. Key("msg") \in Token /\ String(text) \in Token
    BY <2>1, TokensAreTokens, OwnWordsAreWords
  <2>4. DOMAIN t = 1 .. 2 /\ t[1] = Key("msg") /\ t[2] = String(text)
    BY <2>2
  <2>5. t[1].is # "string" /\ KeyOf(t, 2) = "msg" /\ t[2].text = text
    BY <2>4 DEF Key, String, KeyOf
  <2>6. ~IsRaw(text, "none") => ~IsRaw(text, "msg")
    BY OtherKeys
  <2>7. ~IsRaw(text, "none") => NothingRawIn(t)
    BY <2>4, <2>5, <2>6 DEF NothingRawIn
  <2> QED
    BY <1>2, <2>2, <2>3, <2>5, <2>7 DEF t, text
<1> QED
  BY <1>1, <1>2

LEMMA LineIs ==
  ASSUME NEW prefix, NEW bindings, NEW given
  PROVE  PinoLine(prefix, bindings, given) =
           LineStart(bindings, given) \o MessageTokens(prefix, PinoMessage(given))
  BY DEF PinoLine, LineStart

LEMMA LineFacts ==
  ASSUME NEW prefix \in Text, NEW bindings \in Seq(Token), NEW given \in Seq(Arg)
  PROVE  PinoLine(prefix, bindings, given) \in Seq(Token)
  BY LineIs, LineStartFacts, MessageText, MessageTokensFacts, JoinedLines

\* A line without bindings is not raw if neither its first argument nor its message
\* is, after the prefix.
LEMMA LineNotRaw ==
  ASSUME NEW prefix \in Text, NEW given \in Seq(Arg), given # <<>> => Quiet(given[1]),
         PinoMessage(given) = NoText \/ ~IsRaw(prefix \o PinoMessage(given), "none")
  PROVE  NothingRawIn(PinoLine(prefix, <<>>, given))
<1>1. <<>> \in Seq(Token)
  OBVIOUS
<1>2. LineStart(<<>>, given) \in Seq(Token) /\ NothingRawIn(LineStart(<<>>, given))
  BY <1>1, LineStartFacts
<1> DEFINE t == MessageTokens(prefix, PinoMessage(given))
<1>3. t \in Seq(Token) /\ (t # <<>> => t[1].is # "string") /\ NothingRawIn(t)
  BY MessageText, MessageTokensFacts
<1> HIDE DEF t
<1> QED
  BY <1>2, <1>3, LineIs, JoinedLinesNotRaw DEF t

\* And the message of a line that is not raw is none.
LEMMA MessageNotRaw ==
  ASSUME NEW prefix \in Text, NEW bindings \in Seq(Token), NEW given \in Seq(Arg),
         PinoMessage(given) \in Text, NothingRawIn(PinoLine(prefix, bindings, given))
  PROVE  ~IsRaw(prefix \o PinoMessage(given), "none")
<1> DEFINE text == prefix \o PinoMessage(given)
<1>1. text \in Text /\ "msg" \in Words
  BY JoinedTexts, OwnWordsAreWords
<1>2. PinoLine(prefix, bindings, given) = LineStart(bindings, given) \o <<Key("msg"), String(text)>>
  BY LineIs, MarkersAreText DEF MessageTokens
<1> HIDE DEF text
<1>3. ~IsRaw(text, "msg")
  BY <1>1, <1>2, LineStartFacts, LastOfLine
<1> QED
  BY <1>3, OtherKeys DEF text

-----------------------------------------------------------------------------
(* The arguments.                                                          *)

\* The message as it is formatted, and as it is scanned.
Said(c) == FormatPinoMessage(c.message, c.values)

Whole(c) == IF Prefixed(c) THEN c.prefix \o Said(c) ELSE Said(c)

LEMMA SaidText ==
  ASSUME NEW c \in Calls, HasMessage(c)
  PROVE  Said(c) \in Text /\ Whole(c) \in Text /\ c.prefix \o Said(c) = Whole(c)
<1>1. c.prefix \in Text /\ c.message \in Text /\ c.values \in Seq(Interpolated)
  BY CallFacts DEF HasMessage
<1>2. Said(c) \in Text
  BY <1>1, FormatIsText DEF Said
<1>3. c.prefix \o Said(c) \in Text
  BY <1>1, <1>2, JoinedTexts
<1>4. c.prefix = <<>> => c.prefix \o Said(c) = Said(c)
  BY <1>2, ConcatEmptySeq DEF Text
<1> QED
  BY <1>2, <1>3, <1>4 DEF Whole, Prefixed

\* What the hook scans: the first argument, and the message with all that is in it.
Scanned(c) ==
  IF c.first.is = "none" THEN (IF HasMessage(c) THEN <<TextArg(Whole(c))>> ELSE <<>>)
  ELSE IF HasMessage(c) THEN <<c.first, TextArg(Whole(c))>> ELSE <<c.first>>

LEMMA Tuples ==
  ASSUME NEW a, NEW b
  PROVE  /\ <<>> \o <<b>> = <<b>> /\ <<a>> \o <<>> = <<a>> /\ <<a>> \o <<b>> = <<a, b>>
         /\ Append(<<>>, a) = <<a>> /\ Append(<<a>>, b) = <<a, b>>
<1> DEFINE S == {a, b}
<1>1. <<a>> \in Seq(S) /\ <<b>> \in Seq(S) /\ <<>> \in Seq(S) /\ a \in S /\ b \in S
  OBVIOUS
<1>2. <<>> \o <<b>> = <<b>> /\ <<a>> \o <<>> = <<a>>
  <2> HIDE DEF S
  <2> QED
    BY <1>1, ConcatEmptySeq
<1>3. \A l \in Seq(S) : Len(l) = 2 => l = <<l[1], l[2]>>
  <2> HIDE DEF S
  <2> QED
    OBVIOUS
<1>4. <<a>> \o <<b>> = <<a, b>>
  <2> DEFINE l == <<a>> \o <<b>>
  <2>1. Len(<<a>>) = 1 /\ Len(<<b>>) = 1 /\ <<a>>[1] = a /\ <<b>>[1] = b
    OBVIOUS
  <2>2. l \in Seq(S) /\ Len(l) = 2 /\ l[1] = a /\ l[2] = b
    <3> HIDE DEF S
    <3>1. /\ l \in Seq(S) /\ Len(l) = 1 + 1
          /\ \A i \in 1 .. 1 + 1 : l[i] = IF i <= 1 THEN <<a>>[i] ELSE <<b>>[i - 1]
      BY <1>1, <2>1, ConcatProperties
    <3> HIDE DEF l
    <3> QED
      BY <2>1, <3>1
  <2> HIDE DEF l, S
  <2> QED
    BY <1>3, <2>2 DEF l
<1>5. Append(<<>>, a) = <<a>>
  OBVIOUS
<1>6. Append(<<a>>, b) = <<a, b>>
  <2> HIDE DEF S
  <2> QED
    BY <1>1, <1>4, AppendIsConcat
<1> QED
  BY <1>2, <1>4, <1>5, <1>6

LEMMA FirstOnly ==
  ASSUME NEW S, NEW l \in Seq(S), Len(l) >= 1
  PROVE  SubSeq(l, 1, 1) = <<l[1]>>
<1>1. Len(l) \in Nat
  OBVIOUS
<1> DEFINE t == SubSeq(l, 1, 1)
<1>2. t \in Seq(S) /\ Len(t) = 1 /\ t[1] = l[1]
  BY <1>1
<1> HIDE DEF t
<1>3. t = <<t[1]>>
  BY <1>2
<1> QED
  BY <1>2, <1>3 DEF t

LEMMA JoinedIs ==
  ASSUME NEW c \in Calls
  PROVE  Joined(c) = IF c.first.is = "none" THEN (IF HasMessage(c) THEN <<TextArg(Said(c))>> ELSE <<>>)
                     ELSE IF HasMessage(c) THEN <<c.first, TextArg(Said(c))>> ELSE <<c.first>>
<1> DEFINE first == IF c.first.is = "none" THEN <<>> ELSE <<c.first>>
           message == IF c.message = NoText THEN <<>> ELSE <<TextArg(c.message)>>
           values == [i \in DOMAIN c.values |-> ValueArg(c.values[i])]
<1>1. ArgsOf(c) = (first \o message) \o values
  BY DEF ArgsOf
<1>2. first \o message = IF c.first.is = "none" THEN (IF HasMessage(c) THEN <<TextArg(c.message)>> ELSE <<>>)
                         ELSE IF HasMessage(c) THEN <<c.first, TextArg(c.message)>> ELSE <<c.first>>
  <2>1. CASE HasMessage(c)
    <3>1. message = <<TextArg(c.message)>>
      BY <2>1 DEF HasMessage
    <3> HIDE DEF message
    <3> QED
      BY <2>1, <3>1, Tuples
  <2>2. CASE ~HasMessage(c)
    <3>1. message = <<>>
      BY <2>2 DEF HasMessage
    <3> HIDE DEF message
    <3> QED
      BY <2>2, <3>1, Tuples
  <2> QED
    BY <2>1, <2>2
<1>3. CASE c.values = <<>>
  <2>1. values = <<>>
    BY <1>3
  <2>2. ArgsOf(c) = first \o message
    BY <1>1, <1>2, <2>1
  <2>3. Joined(c) = ArgsOf(c) /\ Said(c) = c.message
    BY <1>3 DEF Joined, Said, FormatPinoMessage
  <2> QED
    BY <1>2, <2>2, <2>3
<1>4. CASE c.values # <<>>
  <2>1. HasMessage(c)
    BY <1>4, CallFacts DEF HasMessage
  <2>2. Joined(c) = Append(SubSeq(ArgsOf(c), 1, MessageIndex(c) - 1), TextArg(Said(c)))
    BY <1>4, <2>1 DEF Joined, Said
  <2>3. c.values \in Seq(Interpolated)
    BY CallFacts
  <2>4. Len(c.values) \in Nat /\ DOMAIN c.values = 1 .. Len(c.values)
    BY <2>3
  <2>5. values \in Seq({ValueArg(c.values[i]) : i \in DOMAIN c.values})
    BY <2>4
  <2> HIDE DEF values
  <2>6. CASE c.first.is = "none"
    <3>1. MessageIndex(c) - 1 = 0
      BY <2>6 DEF MessageIndex
    <3>2. SubSeq(ArgsOf(c), 1, 0) = <<>>
      OBVIOUS
    <3>3. Joined(c) = Append(<<>>, TextArg(Said(c)))
      BY <2>2, <3>1, <3>2
    <3> QED
      BY <2>1, <2>6, <3>3, Tuples
  <2>7. CASE c.first.is # "none"
    <3> DEFINE S == {c.first, TextArg(c.message)} \cup {ValueArg(c.values[i]) : i \in DOMAIN c.values}
    <3>1. MessageIndex(c) - 1 = 1
      BY <2>7 DEF MessageIndex
    <3>2. first \o message = <<c.first, TextArg(c.message)>>
      BY <1>2, <2>1, <2>7
    <3>3. <<c.first, TextArg(c.message)>> \in Seq(S) /\ Len(<<c.first, TextArg(c.message)>>) = 2
      OBVIOUS
    <3>4. values \in Seq(S) /\ Len(values) \in Nat
      BY <2>5
    <3> DEFINE l == <<c.first, TextArg(c.message)>> \o values
    <3>5. /\ l \in Seq(S) /\ Len(l) = 2 + Len(values)
          /\ \A i \in 1 .. 2 + Len(values) : l[i] = IF i <= 2 THEN <<c.first, TextArg(c.message)>>[i] ELSE values[i - 2]
      <4> HIDE DEF S
      <4> QED
        BY <3>3, <3>4, ConcatProperties
    <3>6. ArgsOf(c) = l
      BY <1>1, <3>2
    <3> HIDE DEF l, S
    <3>7. Len(l) >= 1 /\ l[1] = c.first
      BY <3>4, <3>5
    <3>8. SubSeq(l, 1, 1) = <<c.first>>
      BY <3>5, <3>7, FirstOnly
    <3>9. Joined(c) = Append(<<c.first>>, TextArg(Said(c)))
      BY <2>2, <3>1, <3>6, <3>8
    <3> QED
      BY <2>1, <2>7, <3>9, Tuples
  <2> QED
    BY <2>6, <2>7
<1> QED
  BY <1>3, <1>4

LEMMA WithPrefixIs ==
  ASSUME NEW c \in Calls
  PROVE  WithPrefix(c) = Scanned(c)
<1>1. CASE ~Prefixed(c)
  BY <1>1, JoinedIs DEF WithPrefix, Scanned, Whole
<1>2. CASE Prefixed(c)
  <2>1. HasMessage(c) /\ WithPrefix(c) = [Joined(c) EXCEPT ![MessageIndex(c)] = TextArg(c.prefix \o @.text)]
    BY <1>2 DEF Prefixed, WithPrefix
  <2>2. Whole(c) = c.prefix \o Said(c)
    BY <1>2 DEF Whole
  <2>3. TextArg(c.prefix \o TextArg(Said(c)).text) = TextArg(Whole(c))
    BY <2>2 DEF TextArg
  <2>4. CASE c.first.is = "none"
    <3>1. Joined(c) = <<TextArg(Said(c))>> /\ MessageIndex(c) = 1
      BY <2>1, <2>4, JoinedIs DEF MessageIndex
    <3>2. WithPrefix(c) = <<TextArg(c.prefix \o TextArg(Said(c)).text)>>
      BY <2>1, <3>1
    <3> QED
      BY <2>1, <2>3, <2>4, <3>2 DEF Scanned
  <2>5. CASE c.first.is # "none"
    <3>1. Joined(c) = <<c.first, TextArg(Said(c))>> /\ MessageIndex(c) = 2
      BY <2>1, <2>5, JoinedIs DEF MessageIndex
    <3>2. WithPrefix(c) = <<c.first, TextArg(c.prefix \o TextArg(Said(c)).text)>>
      BY <2>1, <3>1
    <3> QED
      BY <2>1, <2>3, <2>5, <3>2 DEF Scanned
  <2> QED
    BY <2>4, <2>5
<1> QED
  BY <1>1, <1>2

\* The masked message without the prefix, where the masking left the prefix as it is.
Stripped(c, masked) ==
  IF Prefixed(c) /\ IsPrefix(c.prefix, masked)
  THEN SubSeq(masked, Len(c.prefix) + 1, Len(masked))
  ELSE masked

LEMMA RestOfText ==
  ASSUME NEW s \in Text, NEW t \in Text, IsPrefix(s, t)
  PROVE  /\ SubSeq(t, Len(s) + 1, Len(t)) \in Text
         /\ s \o SubSeq(t, Len(s) + 1, Len(t)) = t
<1> DEFINE r == SubSeq(t, Len(s) + 1, Len(t))
<1>1. Len(s) \in Nat /\ Len(t) \in Nat
  BY TextWords
<1>2. Len(s) <= Len(t) /\ \A i \in 1 .. Len(s) : s[i] = t[i]
  BY <1>1 DEF IsPrefix, Text
<1>3. r \in Text /\ Len(r) = Len(t) - Len(s) /\ \A i \in 1 .. Len(t) - Len(s) : r[i] = t[Len(s) + i]
  BY <1>1, <1>2 DEF Text
<1> HIDE DEF r
<1>4. /\ s \o r \in Text /\ Len(s \o r) = Len(s) + Len(r)
      /\ \A i \in 1 .. Len(s) + Len(r) : (s \o r)[i] = IF i <= Len(s) THEN s[i] ELSE r[i - Len(s)]
  BY <1>3, JoinedTexts
<1>5. Len(s \o r) = Len(t)
  BY <1>1, <1>3, <1>4
<1>6. ASSUME NEW i \in 1 .. Len(t) PROVE (s \o r)[i] = t[i]
  <2>1. CASE i <= Len(s)
    BY <1>1, <1>2, <1>3, <1>4, <2>1
  <2>2. CASE ~(i <= Len(s))
    <3>1. i - Len(s) \in 1 .. Len(t) - Len(s) /\ Len(s) + (i - Len(s)) = i
      BY <1>1, <2>2
    <3> QED
      BY <1>1, <1>3, <1>4, <2>2, <3>1
  <2> QED
    BY <2>1, <2>2
<1>7. s \o r = t
  BY <1>4, <1>5, <1>6, SameTexts
<1> QED
  BY <1>3, <1>7 DEF r

\* And of what is joined with a prefix, the rest is what it is joined with.
LEMMA RestOfJoined ==
  ASSUME NEW s \in Text, NEW t \in Text
  PROVE  IsPrefix(s, s \o t) /\ SubSeq(s \o t, Len(s) + 1, Len(s \o t)) = t
<1> DEFINE w == s \o t
<1>1. Len(s) \in Nat /\ Len(t) \in Nat
  BY TextWords
<1>2. /\ w \in Text /\ Len(w) = Len(s) + Len(t)
      /\ \A i \in 1 .. Len(s) + Len(t) : w[i] = IF i <= Len(s) THEN s[i] ELSE t[i - Len(s)]
  BY JoinedTexts
<1> HIDE DEF w
<1>3. IsPrefix(s, w)
  <2>1. Len(s) <= Len(w) /\ \A i \in 1 .. Len(s) : s[i] = w[i]
    BY <1>1, <1>2
  <2> QED
    BY <1>1, <1>2, <2>1 DEF IsPrefix, Text
<1> DEFINE r == SubSeq(w, Len(s) + 1, Len(w))
<1>4. r \in Text /\ Len(r) = Len(t) /\ \A i \in 1 .. Len(t) : r[i] = w[Len(s) + i]
  BY <1>1, <1>2 DEF Text
<1>5. \A i \in 1 .. Len(t) : w[Len(s) + i] = t[i]
  <2> SUFFICES ASSUME NEW i \in 1 .. Len(t) PROVE w[Len(s) + i] = t[i]
    OBVIOUS
  <2>1. Len(s) + i \in 1 .. Len(s) + Len(t) /\ ~(Len(s) + i <= Len(s)) /\ (Len(s) + i) - Len(s) = i
    BY <1>1
  <2> QED
    BY <1>2, <2>1
<1> HIDE DEF r
<1>6. r = t
  BY <1>4, <1>5, SameTexts
<1> QED
  BY <1>3, <1>6 DEF r, w

\* A marker after a prefix that is not raw is not.
LEMMA MarkerAfterPrefix ==
  ASSUME NEW s \in Text, NEW w \in {"LIMIT_EXCEEDED", "ERROR", "BLOCKED"}, ~IsRaw(s, "none")
  PROVE  ~IsRaw(s \o <<w>>, "none")
<1> DEFINE t == <<w>>
           l == s \o t
<1>1. t \in Text /\ Len(t) = 1 /\ t[1] = w
  BY OwnWordsAreWords, OneWord
<1>2. Len(s) \in Nat /\ DOMAIN s = 1 .. Len(s)
  BY TextWords
<1> HIDE DEF t
<1>3. /\ l \in Text /\ Len(l) = Len(s) + 1
      /\ \A i \in 1 .. Len(s) + 1 : l[i] = IF i <= Len(s) THEN s[i] ELSE t[i - Len(s)]
  BY <1>1, JoinedTexts, ZenonT(30)
<1>4. DOMAIN l = 1 .. Len(s) + 1
  BY <1>3, TextWords
<1> HIDE DEF l
<1>5. SUFFICES ASSUME NEW i \in 1 .. Len(s) + 1 PROVE ~Found(l, "none", i) /\ l[i] # "blocked"
  BY <1>4 DEF IsRaw, l, t
<1>6. CASE i <= Len(s)
  <2>1. i \in DOMAIN s /\ l[i] = s[i]
    BY <1>2, <1>3, <1>6
  <2>2. i # 1 => l[i - 1] = s[i - 1]
    BY <1>2, <1>3, <1>6
  <2>3. ~Found(s, "none", i) /\ s[i] # "blocked"
    BY <2>1 DEF IsRaw
  <2> QED
    BY <2>1, <2>2, <2>3 DEF Found
<1>7. CASE ~(i <= Len(s))
  <2>1. i = Len(s) + 1 /\ i - Len(s) = 1
    BY <1>2, <1>7
  <2>2. l[i] = w
    BY <1>1, <1>3, <1>7, <2>1
  <2> QED
    BY <2>2 DEF Found
<1> QED
  BY <1>6, <1>7

\* A block finding apart, masking leaves a prefix that is not raw as it is.
LEMMA PrefixIsLeft ==
  ASSUME NEW s \in Text, NEW t \in Text, ~IsRaw(s, "none"), MaskLeaf(s \o t, "none") # Blocked
  PROVE  IsPrefix(s, MaskLeaf(s \o t, "none"))
<1> DEFINE w == s \o t
           m == MaskLeaf(w, "none")
<1>1. Len(s) \in Nat /\ Len(t) \in Nat /\ DOMAIN s = 1 .. Len(s)
  BY TextWords
<1>2. /\ w \in Text /\ Len(w) = Len(s) + Len(t)
      /\ \A i \in 1 .. Len(s) + Len(t) : w[i] = IF i <= Len(s) THEN s[i] ELSE t[i - Len(s)]
  BY JoinedTexts
<1>3. DOMAIN w = 1 .. Len(s) + Len(t)
  BY <1>2, TextWords
<1>4. MaskLeaf(w, "none") # Blocked
  OBVIOUS
<1> HIDE DEF w
<1>5. m \in Text
  BY <1>2, MaskedLeaf
<1>6. m = [i \in DOMAIN w |-> IF Found(w, "none", i) THEN Masked ELSE w[i]]
  BY <1>4 DEF MaskLeaf
<1> HIDE DEF m
<1>7. \A i \in 1 .. Len(s) : s[i] = m[i]
  <2> SUFFICES ASSUME NEW i \in 1 .. Len(s) PROVE s[i] = m[i]
    OBVIOUS
  <2>1. i \in 1 .. Len(s) + Len(t) /\ i <= Len(s) /\ (i # 1 => i - 1 \in 1 .. Len(s) + Len(t) /\ i - 1 <= Len(s))
    BY <1>1
  <2>2. w[i] = s[i] /\ (i # 1 => w[i - 1] = s[i - 1])
    BY <1>2, <2>1
  <2>3. ~Found(s, "none", i)
    BY <1>1 DEF IsRaw
  <2>4. ~Found(w, "none", i)
    BY <2>2, <2>3 DEF Found
  <2> QED
    BY <1>3, <1>6, <2>1, <2>2, <2>4
<1>8. Len(m) = Len(s) + Len(t)
  BY <1>1, <1>3, <1>5, <1>6, TextWords
<1>9. Len(s) <= Len(m)
  BY <1>1, <1>8
<1>10. IsPrefix(s, m)
  BY <1>1, <1>5, <1>7, <1>9 DEF IsPrefix, Text
<1> QED
  BY <1>10 DEF m, w

\* The message pino is handed: with the prefix before it, it is not raw unless the
\* prefix is by itself, and one that masking left alone is what was said.
LEMMA HeardFacts ==
  ASSUME NEW c \in Calls, HasMessage(c), NEW masked \in {LimitMarker, MaskLeaf(Whole(c), "none")}
  PROVE  /\ Stripped(c, masked) \in Text
         /\ ~IsRaw(c.prefix, "none") => ~IsRaw(c.prefix \o Stripped(c, masked), "none")
         /\ masked = Whole(c) => Stripped(c, masked) = Said(c)
<1>1. c.prefix \in Text /\ Said(c) \in Text /\ Whole(c) \in Text
  BY CallFacts, SaidText
<1>2. masked \in Text /\ ~IsRaw(masked, "none")
  <2>1. LimitMarker \in Text /\ ~IsRaw(LimitMarker, "none")
    BY MarkersAreText, MarkersAreNotRaw DEF LimitMarker
  <2> QED
    BY <1>1, <2>1, MaskedLeaf
<1>3. CASE ~Prefixed(c)
  <2>1. c.prefix = <<>> /\ Stripped(c, masked) = masked /\ Whole(c) = Said(c)
    BY <1>3 DEF Prefixed, Stripped, Whole
  <2>2. c.prefix \o masked = masked
    BY <1>2, <2>1, ConcatEmptySeq DEF Text
  <2> QED
    BY <1>2, <2>1, <2>2
<1>4. CASE Prefixed(c) /\ IsPrefix(c.prefix, masked)
  <2>1. Stripped(c, masked) = SubSeq(masked, Len(c.prefix) + 1, Len(masked)) /\ Whole(c) = c.prefix \o Said(c)
    BY <1>4 DEF Stripped, Whole
  <2>2. Stripped(c, masked) \in Text /\ c.prefix \o Stripped(c, masked) = masked
    BY <1>1, <1>2, <1>4, <2>1, RestOfText, ZenonT(30)
  <2>3. SubSeq(c.prefix \o Said(c), Len(c.prefix) + 1, Len(c.prefix \o Said(c))) = Said(c)
    BY <1>1, RestOfJoined
  <2>4. masked = Whole(c) => Stripped(c, masked) = Said(c)
    BY <2>1, <2>3
  <2> QED
    BY <1>2, <2>2, <2>4
<1>5. CASE Prefixed(c) /\ ~IsPrefix(c.prefix, masked)
  <2>1. Stripped(c, masked) = masked /\ Whole(c) = c.prefix \o Said(c)
    BY <1>5 DEF Stripped, Whole
  <2>2. masked # Whole(c)
    <3>1. IsPrefix(c.prefix, c.prefix \o Said(c))
      BY <1>1, RestOfJoined
    <3> QED
      BY <1>5, <2>1, <3>1
  <2>3. ASSUME ~IsRaw(c.prefix, "none") PROVE masked \in {LimitMarker, Blocked}
    BY <1>1, <1>5, <2>1, <2>3, PrefixIsLeft
  <2>4. ASSUME ~IsRaw(c.prefix, "none") PROVE ~IsRaw(c.prefix \o masked, "none")
    BY <1>1, <2>3, <2>4, MarkerAfterPrefix DEF LimitMarker, Blocked
  <2> QED
    BY <1>2, <2>1, <2>2, <2>4
<1> QED
  BY <1>3, <1>4, <1>5

-----------------------------------------------------------------------------
(* The arguments pino is called with.                                      *)

\* What the walk and the Error's copy make of the first argument: it, with a text
\* that is not raw, or a marker.
Hushed(c, x) == x = TextArg(LimitMarker) \/ (x.is = c.first.is /\ Quiet(x))

\* And of the message, after its prefix.
Heard(c, u) == ~IsRaw(c.prefix, "none") => ~IsRaw(c.prefix \o u, "none")

MaskedArgs(c, given) ==
  \/ given = <<>>
  \/ /\ c.first.is = "none" /\ HasMessage(c)
     /\ \E u \in Text : Heard(c, u) /\ given = <<TextArg(u)>>
  \/ /\ c.first.is # "none"
     /\ \E x \in Arg : Hushed(c, x) /\ given = <<x>>
  \/ /\ c.first.is # "none" /\ HasMessage(c)
     /\ \E x \in Arg, u \in Text :
          /\ Hushed(c, x) /\ Heard(c, u)
          /\ given = <<x, TextArg(u)>>

\* The arguments as they would be without the hooks, but for the joined message.
Unhooked(c) ==
  (IF c.first.is = "none" THEN <<>> ELSE <<c.first>>)
  \o (IF HasMessage(c) THEN <<TextArg(FormatPinoMessage(c.message, c.values))>> ELSE <<>>)

LEMMA UnhookedIs ==
  ASSUME NEW c \in Calls
  PROVE  Unhooked(c) = IF c.first.is = "none" THEN (IF HasMessage(c) THEN <<TextArg(Said(c))>> ELSE <<>>)
                       ELSE IF HasMessage(c) THEN <<c.first, TextArg(Said(c))>> ELSE <<c.first>>
<1> DEFINE first == IF c.first.is = "none" THEN <<>> ELSE <<c.first>>
           message == IF HasMessage(c) THEN <<TextArg(Said(c))>> ELSE <<>>
<1>1. Unhooked(c) = first \o message
  BY DEF Unhooked, Said
<1>2. CASE HasMessage(c)
  <2>1. message = <<TextArg(Said(c))>>
    BY <1>2
  <2> HIDE DEF message
  <2> QED
    BY <1>1, <1>2, <2>1, Tuples
<1>3. CASE ~HasMessage(c)
  <2>1. message = <<>>
    BY <1>3
  <2> HIDE DEF message
  <2> QED
    BY <1>1, <1>3, <2>1, Tuples
<1> QED
  BY <1>2, <1>3

LEMMA MaskedText ==
  ASSUME NEW t, NEW v, NEW budget
  PROVE  MaskArg(TextArg(t), v, budget) = TextArg(IF v > budget THEN LimitMarker ELSE MaskLeaf(t, "none"))
  BY DEF MaskArg, TextArg

LEMMA RestoredText ==
  ASSUME NEW t
  PROVE  Restored(TextArg(t)) = TextArg(t)
  BY DEF Restored, TextArg

\* The first argument keeps what it is, and one that is not raw its text.
LEMMA MaskedFirst ==
  ASSUME NEW c \in Calls, c.first.is # "none", NEW v, NEW budget
  PROVE  /\ Restored(MaskArg(c.first, v, budget)) \in Arg
         /\ Hushed(c, Restored(MaskArg(c.first, v, budget)))
         /\ MaskArg(c.first, v, budget).text # LimitMarker /\ ~IsRaw(c.first.text, c.first.key)
              => Restored(MaskArg(c.first, v, budget)) = c.first
<1> DEFINE a == c.first
           key == IF a.is = "object" THEN a.key ELSE "none"
           t == IF v + 1 > budget THEN LimitMarker ELSE MaskLeaf(a.text, key)
           plain == IF a.is = "error" THEN "plainError" ELSE IF a.is = "objectWithError" THEN "objectWithPlain" ELSE a.is
           m == MaskArg(a, v, budget)
<1>1. /\ a \in Arg /\ a.is \in {"object", "error", "objectWithError"} /\ a.key \in Words /\ a.text \in Text
      /\ a = [is |-> a.is, key |-> a.key, text |-> a.text]
  BY CallFacts DEF Arg
<1>2. CASE v > budget
  <2>1. m = TextArg(LimitMarker)
    BY <1>2 DEF MaskArg
  <2>2. m.text = LimitMarker
    BY <2>1 DEF TextArg
  <2>3. Restored(m) = TextArg(LimitMarker)
    BY <2>1, RestoredText
  <2> QED
    BY <2>2, <2>3, MarkersAreText, TextArgIsArg DEF Hushed
<1>3. CASE ~(v > budget)
  <2>1. t \in Text /\ ~IsRaw(t, key)
    BY <1>1, MarkersAreText, MarkersAreNotRaw, MaskedLeaf DEF LimitMarker
  <2>2. t # LimitMarker /\ ~IsRaw(a.text, a.key) => t = a.text
    <3>1. ~IsRaw(a.text, a.key) => ~IsRaw(a.text, key)
      BY RawUnderAnyKey
    <3> QED
      BY <1>1, <3>1, MaskedLeaf
  <2>3. m = [is |-> plain, key |-> a.key, text |-> t]
    <3>1. a.is # "other" /\ a.is # "text"
      BY <1>1
    <3>2. m = [a EXCEPT !.text = t,
                 !.is = CASE @ = "error" -> "plainError" [] @ = "objectWithError" -> "objectWithPlain" [] OTHER -> @]
      BY <1>3, <3>1 DEF MaskArg
    <3> HIDE DEF t, m
    <3> QED
      BY <1>1, <3>2
  <2> HIDE DEF t, m
  <2>4. Restored(m) = [is |-> a.is, key |-> a.key, text |-> t]
    <3>1. m.is = plain /\ m.key = a.key /\ m.text = t
      BY <2>3
    <3> QED
      BY <1>1, <2>3, <3>1 DEF Restored
  <2>5. Restored(m) \in Arg
    BY <1>1, <2>1, <2>4 DEF Arg
  <2>6. Hushed(c, Restored(m))
    BY <2>1, <2>4 DEF Hushed, Quiet
  <2>7. m.text # LimitMarker /\ ~IsRaw(a.text, a.key) => Restored(m) = a
    BY <1>1, <2>2, <2>3, <2>4
  <2> QED
    BY <2>5, <2>6, <2>7 DEF m
<1> QED
  BY <1>2, <1>3

\* What the hook makes of the arguments it scans.
Answer(c, given, budget) == RestoreErrors(WithoutPrefix(c, MaskArgs(given, budget)))

\* The message, as it leaves the walk and is handed to pino.
LEMMA MaskedMessage ==
  ASSUME NEW c \in Calls, HasMessage(c), NEW v, NEW budget
  PROVE  \E masked \in {LimitMarker, MaskLeaf(Whole(c), "none")} :
           /\ MaskArg(TextArg(Whole(c)), v, budget) = TextArg(masked)
           /\ TextArg(masked).text = masked
           /\ Stripped(c, masked) \in Text /\ Heard(c, Stripped(c, masked))
           /\ masked # LimitMarker /\ ~IsRaw(Whole(c), "none") => Stripped(c, masked) = Said(c)
<1> DEFINE masked == IF v > budget THEN LimitMarker ELSE MaskLeaf(Whole(c), "none")
<1>1. masked \in {LimitMarker, MaskLeaf(Whole(c), "none")}
  OBVIOUS
<1>2. MaskArg(TextArg(Whole(c)), v, budget) = TextArg(masked)
  BY MaskedText
<1>3. masked # LimitMarker /\ ~IsRaw(Whole(c), "none") => masked = Whole(c)
  BY SaidText, MaskedLeaf
<1> HIDE DEF masked
<1>4. TextArg(masked).text = masked
  BY DEF TextArg
<1>5. /\ Stripped(c, masked) \in Text /\ Heard(c, Stripped(c, masked))
      /\ masked = Whole(c) => Stripped(c, masked) = Said(c)
  BY <1>1, HeardFacts DEF Heard
<1> QED
  BY <1>1, <1>2, <1>3, <1>4, <1>5

LEMMA AnswerToNothing ==
  ASSUME NEW c, NEW budget
  PROVE  Answer(c, <<>>, budget) = <<>>
<1>1. MaskArgs(<<>>, budget) = <<>>
  BY DEF MaskArgs
<1>2. WithoutPrefix(c, <<>>) = <<>>
  <2>1. MessageIndex(c) \in {1, 2} /\ Len(<<>>) = 0
    BY DEF MessageIndex
  <2>2. ~(MessageIndex(c) <= Len(<<>>))
    BY <2>1
  <2> QED
    BY <2>2 DEF WithoutPrefix
<1> QED
  BY <1>1, <1>2 DEF Answer, RestoreErrors

\* A message by itself.
LEMMA AnswerToMessage ==
  ASSUME NEW c \in Calls, c.first.is = "none", HasMessage(c), NEW budget
  PROVE  LET given == <<TextArg(Whole(c))>>
         IN  /\ MaskedArgs(c, Answer(c, given, budget))
             /\ /\ \A i \in DOMAIN given : MaskArgs(given, budget)[i].text # LimitMarker
                /\ ~IsRaw(Whole(c), "none")
                => Answer(c, given, budget) = <<TextArg(Said(c))>>
<1> DEFINE a == TextArg(Whole(c))
           given == <<a>>
           v == VisitOf(given, 1)
<1>1. MaskArgs(given, budget) = <<MaskArg(a, v, budget)>>
  <2>1. DOMAIN given = 1 .. 1 /\ given[1] = a
    OBVIOUS
  <2> HIDE DEF a
  <2> QED
    BY <2>1 DEF MaskArgs
<1>2. PICK masked \in {LimitMarker, MaskLeaf(Whole(c), "none")} :
             /\ MaskArg(a, v, budget) = TextArg(masked) /\ TextArg(masked).text = masked
             /\ Stripped(c, masked) \in Text /\ Heard(c, Stripped(c, masked))
             /\ masked # LimitMarker /\ ~IsRaw(Whole(c), "none") => Stripped(c, masked) = Said(c)
  BY MaskedMessage
<1> HIDE DEF v
<1>3. WithoutPrefix(c, <<TextArg(masked)>>) = <<TextArg(Stripped(c, masked))>>
  <2> DEFINE l == <<TextArg(masked)>>
  <2>1. MessageIndex(c) = 1 /\ Len(l) = 1 /\ l[1].text = masked
    BY <1>2 DEF MessageIndex
  <2>2. WithoutPrefix(c, l) = IF Prefixed(c) /\ IsPrefix(c.prefix, masked)
                              THEN [l EXCEPT ![1] = TextArg(SubSeq(l[1].text, Len(c.prefix) + 1, Len(l[1].text)))]
                              ELSE l
    <3>1. MessageIndex(c) <= Len(l)
      BY <2>1
    <3> HIDE DEF l
    <3> QED
      BY <2>1, <3>1 DEF WithoutPrefix
  <2>3. WithoutPrefix(c, l) = IF Prefixed(c) /\ IsPrefix(c.prefix, masked)
                              THEN <<TextArg(SubSeq(masked, Len(c.prefix) + 1, Len(masked)))>> ELSE l
    BY <2>1, <2>2
  <2> QED
    BY <2>3 DEF Stripped
<1>4. RestoreErrors(<<TextArg(Stripped(c, masked))>>) = <<TextArg(Stripped(c, masked))>>
  <2>1. Restored(TextArg(Stripped(c, masked))) = TextArg(Stripped(c, masked))
    BY RestoredText
  <2> QED
    BY <2>1 DEF RestoreErrors
<1>5. Answer(c, given, budget) = <<TextArg(Stripped(c, masked))>>
  BY <1>1, <1>2, <1>3, <1>4 DEF Answer
<1>6. MaskedArgs(c, Answer(c, given, budget))
  BY <1>2, <1>5 DEF MaskedArgs
<1>7. ASSUME \A i \in DOMAIN given : MaskArgs(given, budget)[i].text # LimitMarker
      PROVE  masked # LimitMarker
  <2>1. 1 \in DOMAIN given /\ MaskArgs(given, budget)[1].text = masked
    BY <1>1, <1>2
  <2> QED
    BY <1>7, <2>1
<1> QED
  BY <1>2, <1>5, <1>6, <1>7

\* A first argument by itself.
LEMMA AnswerToFirst ==
  ASSUME NEW c \in Calls, c.first.is # "none", NEW budget
  PROVE  LET given == <<c.first>>
         IN  /\ MaskedArgs(c, Answer(c, given, budget))
             /\ /\ \A i \in DOMAIN given : MaskArgs(given, budget)[i].text # LimitMarker
                /\ ~IsRaw(c.first.text, c.first.key)
                => Answer(c, given, budget) = given
<1> DEFINE a == c.first
           given == <<a>>
           v == VisitOf(given, 1)
           m == MaskArg(a, v, budget)
<1>1. MaskArgs(given, budget) = <<m>>
  <2>1. DOMAIN given = 1 .. 1 /\ given[1] = a
    OBVIOUS
  <2> HIDE DEF a
  <2> QED
    BY <2>1 DEF MaskArgs
<1>2. /\ Restored(m) \in Arg /\ Hushed(c, Restored(m))
      /\ m.text # LimitMarker /\ ~IsRaw(a.text, a.key) => Restored(m) = a
  BY MaskedFirst
<1> HIDE DEF v, m
<1>3. WithoutPrefix(c, <<m>>) = <<m>>
  <2>1. MessageIndex(c) = 2 /\ Len(<<m>>) = 1
    BY DEF MessageIndex
  <2>2. ~(MessageIndex(c) <= Len(<<m>>))
    BY <2>1
  <2> QED
    BY <2>2 DEF WithoutPrefix
<1>4. RestoreErrors(<<m>>) = <<Restored(m)>>
  BY DEF RestoreErrors
<1>5. Answer(c, given, budget) = <<Restored(m)>>
  BY <1>1, <1>3, <1>4 DEF Answer
<1>6. MaskedArgs(c, Answer(c, given, budget))
  BY <1>2, <1>5 DEF MaskedArgs
<1>7. ASSUME \A i \in DOMAIN given : MaskArgs(given, budget)[i].text # LimitMarker
      PROVE  m.text # LimitMarker
  <2>1. 1 \in DOMAIN given /\ MaskArgs(given, budget)[1] = m
    BY <1>1
  <2> QED
    BY <1>7, <2>1
<1> QED
  BY <1>2, <1>5, <1>6, <1>7

\* Both.
LEMMA AnswerToBoth ==
  ASSUME NEW c \in Calls, c.first.is # "none", HasMessage(c), NEW budget
  PROVE  LET given == <<c.first, TextArg(Whole(c))>>
         IN  /\ MaskedArgs(c, Answer(c, given, budget))
             /\ /\ \A i \in DOMAIN given : MaskArgs(given, budget)[i].text # LimitMarker
                /\ ~IsRaw(c.first.text, c.first.key) /\ ~IsRaw(Whole(c), "none")
                => Answer(c, given, budget) = <<c.first, TextArg(Said(c))>>
<1> DEFINE a == c.first
           b == TextArg(Whole(c))
           given == <<a, b>>
           m == MaskArg(a, VisitOf(given, 1), budget)
           w == VisitOf(given, 2)
<1>1. MaskArgs(given, budget) = <<m, MaskArg(b, w, budget)>>
  <2>1. DOMAIN given = 1 .. 2 /\ given[1] = a /\ given[2] = b
    OBVIOUS
  <2> HIDE DEF a, b
  <2> QED
    BY <2>1 DEF MaskArgs
<1>2. /\ Restored(m) \in Arg /\ Hushed(c, Restored(m))
      /\ m.text # LimitMarker /\ ~IsRaw(a.text, a.key) => Restored(m) = a
  BY MaskedFirst
<1>3. PICK masked \in {LimitMarker, MaskLeaf(Whole(c), "none")} :
             /\ MaskArg(b, w, budget) = TextArg(masked) /\ TextArg(masked).text = masked
             /\ Stripped(c, masked) \in Text /\ Heard(c, Stripped(c, masked))
             /\ masked # LimitMarker /\ ~IsRaw(Whole(c), "none") => Stripped(c, masked) = Said(c)
  BY MaskedMessage
<1> HIDE DEF m, w
<1> DEFINE u == Stripped(c, masked)
<1>4. WithoutPrefix(c, <<m, TextArg(masked)>>) = <<m, TextArg(u)>>
  <2> DEFINE l == <<m, TextArg(masked)>>
  <2>1. MessageIndex(c) = 2 /\ Len(l) = 2 /\ l[2].text = masked
    BY <1>3 DEF MessageIndex
  <2>2. WithoutPrefix(c, l) = IF Prefixed(c) /\ IsPrefix(c.prefix, masked)
                              THEN [l EXCEPT ![2] = TextArg(SubSeq(l[2].text, Len(c.prefix) + 1, Len(l[2].text)))]
                              ELSE l
    <3>1. MessageIndex(c) <= Len(l)
      BY <2>1
    <3> HIDE DEF l
    <3> QED
      BY <2>1, <3>1 DEF WithoutPrefix
  <2>3. WithoutPrefix(c, l) = IF Prefixed(c) /\ IsPrefix(c.prefix, masked)
                              THEN <<m, TextArg(SubSeq(masked, Len(c.prefix) + 1, Len(masked)))>> ELSE l
    BY <2>1, <2>2
  <2> QED
    BY <2>3 DEF Stripped
<1> HIDE DEF u
<1>5. RestoreErrors(<<m, TextArg(u)>>) = <<Restored(m), TextArg(u)>>
  BY DEF RestoreErrors
<1>6. Answer(c, given, budget) = <<Restored(m), TextArg(u)>>
  BY <1>1, <1>3, <1>4, <1>5 DEF Answer
<1>7. MaskedArgs(c, Answer(c, given, budget))
  BY <1>2, <1>3, <1>6 DEF MaskedArgs, u
<1>8. ASSUME \A i \in DOMAIN given : MaskArgs(given, budget)[i].text # LimitMarker
      PROVE  m.text # LimitMarker /\ masked # LimitMarker
  <2>1. /\ 1 \in DOMAIN given /\ MaskArgs(given, budget)[1] = m
        /\ 2 \in DOMAIN given /\ MaskArgs(given, budget)[2].text = masked
    BY <1>1, <1>3
  <2> QED
    BY <1>8, <2>1
<1> QED
  BY <1>2, <1>3, <1>6, <1>7, <1>8 DEF u

\* However many arguments the walk keeps.
LEMMA AnswerFacts ==
  ASSUME NEW c \in Calls, limits.array \in Nat, NEW budget
  PROVE  LET given == Kept(Scanned(c))
         IN  /\ MaskedArgs(c, Answer(c, given, budget))
             /\ /\ Len(Scanned(c)) <= limits.array
                /\ \A i \in DOMAIN given : MaskArgs(given, budget)[i].text # LimitMarker
                /\ ~IsRaw(c.first.text, c.first.key) /\ (HasMessage(c) => ~IsRaw(Whole(c), "none"))
                => Answer(c, given, budget) = Unhooked(c)
<1> DEFINE given == Kept(Scanned(c))
           n == limits.array
<1>1. given = IF Len(Scanned(c)) <= n THEN Scanned(c) ELSE SubSeq(Scanned(c), 1, n)
  BY DEF Kept
<1>2. n \in Nat
  OBVIOUS
<1> HIDE DEF n
<1>3. CASE c.first.is = "none" /\ ~HasMessage(c)
  <2>1. Scanned(c) = <<>> /\ Unhooked(c) = <<>>
    BY <1>3, UnhookedIs DEF Scanned
  <2>2. given = <<>>
    BY <1>1, <1>2, <2>1
  <2> HIDE DEF given
  <2> QED
    BY <2>1, <2>2, AnswerToNothing DEF given, MaskedArgs
<1>4. CASE c.first.is = "none" /\ HasMessage(c)
  <2> DEFINE b == TextArg(Whole(c))
  <2>1. Scanned(c) = <<b>> /\ Unhooked(c) = <<TextArg(Said(c))>>
    BY <1>4, UnhookedIs DEF Scanned
  <2>2. CASE n >= 1
    <3>1. Len(<<b>>) = 1
      OBVIOUS
    <3>2. given = <<b>>
      BY <1>1, <1>2, <2>1, <2>2, <3>1
    <3> HIDE DEF given
    <3> QED
      BY <1>4, <2>1, <3>2, AnswerToMessage DEF given
  <2>3. CASE ~(n >= 1)
    <3>1. Len(<<b>>) = 1 /\ n = 0 /\ SubSeq(<<b>>, 1, 0) = <<>>
      BY <1>2, <2>3
    <3> HIDE DEF b
    <3>2. given = <<>>
      BY <1>1, <2>1, <3>1
    <3>3. ~(Len(Scanned(c)) <= n)
      BY <2>1, <3>1
    <3> HIDE DEF given
    <3> QED
      BY <3>2, <3>3, AnswerToNothing DEF given, MaskedArgs, n
  <2> QED
    BY <2>2, <2>3
<1>5. CASE c.first.is # "none" /\ ~HasMessage(c)
  <2> DEFINE a == c.first
  <2>1. Scanned(c) = <<a>> /\ Unhooked(c) = <<a>>
    BY <1>5, UnhookedIs DEF Scanned
  <2>2. CASE n >= 1
    <3>1. Len(<<a>>) = 1
      OBVIOUS
    <3>2. given = <<a>>
      BY <1>1, <1>2, <2>1, <2>2, <3>1
    <3> HIDE DEF given
    <3> QED
      BY <1>5, <2>1, <3>2, AnswerToFirst DEF given
  <2>3. CASE ~(n >= 1)
    <3>1. Len(<<a>>) = 1 /\ n = 0 /\ SubSeq(<<a>>, 1, 0) = <<>>
      BY <1>2, <2>3
    <3> HIDE DEF a
    <3>2. given = <<>>
      BY <1>1, <2>1, <3>1
    <3>3. ~(Len(Scanned(c)) <= n)
      BY <2>1, <3>1
    <3> HIDE DEF given
    <3> QED
      BY <3>2, <3>3, AnswerToNothing DEF given, MaskedArgs, n
  <2> QED
    BY <2>2, <2>3
<1>6. CASE c.first.is # "none" /\ HasMessage(c)
  <2> DEFINE a == c.first
             b == TextArg(Whole(c))
             l == <<a, b>>
  <2>1. Scanned(c) = l /\ Unhooked(c) = <<a, TextArg(Said(c))>>
    BY <1>6, UnhookedIs DEF Scanned
  <2>2. l \in Seq({a, b}) /\ Len(l) = 2 /\ l[1] = a
    OBVIOUS
  <2>3. CASE n >= 2
    <3>1. given = l
      <4> HIDE DEF l
      <4> QED
        BY <1>1, <1>2, <2>1, <2>2, <2>3
    <3> HIDE DEF given
    <3> QED
      BY <1>6, <2>1, <3>1, AnswerToBoth DEF given
  <2>4. CASE n = 1
    <3>1. given = <<a>>
      <4> HIDE DEF l
      <4> QED
        BY <1>1, <2>1, <2>2, <2>4, FirstOnly
    <3>2. ~(Len(Scanned(c)) <= n)
      BY <2>1, <2>2, <2>4
    <3> HIDE DEF given
    <3> QED
      BY <1>6, <3>1, <3>2, AnswerToFirst DEF given, n
  <2>5. CASE n = 0
    <3>1. SubSeq(l, 1, 0) = <<>>
      OBVIOUS
    <3>2. given = <<>>
      <4> HIDE DEF l
      <4> QED
        BY <1>1, <2>1, <2>2, <2>5, <3>1
    <3>3. ~(Len(Scanned(c)) <= n)
      BY <2>1, <2>2, <2>5
    <3> HIDE DEF given
    <3> QED
      BY <3>2, <3>3, AnswerToNothing DEF given, MaskedArgs, n
  <2> QED
    BY <1>2, <2>3, <2>4, <2>5
<1> QED
  BY <1>3, <1>4, <1>5, <1>6

-----------------------------------------------------------------------------
(* What pino prints of them.                                               *)

\* A format of one word that is no directive is that word.
LEMMA FormatOfOne ==
  ASSUME NEW w, w \notin Directives, NEW values
  PROVE  FormatPinoMessage(<<w>>, values) = <<w>>
<1> DEFINE fmt == <<w>>
           All(u) == u = [i \in 0 .. Len(fmt) |-> IF i = 0 THEN <<>> ELSE u[i - 1] \o Piece(fmt, values, i)]
<1>1. Len(fmt) = 1 /\ fmt[1] = w
  OBVIOUS
<1>2. Piece(fmt, values, 1) = <<w>>
  BY <1>1 DEF Piece
<1> HIDE DEF fmt
<1>3. \E u : All(u)
  <2>1. Len(fmt) \in Nat
    BY <1>1
  <2>2. PICK u : Writes(u, fmt, values, Len(fmt))
    BY <2>1, FormatIsWritten
  <2> QED
    BY <2>2 DEF Writes
<1>4. All(CHOOSE u : All(u))
  <2> HIDE DEF All
  <2> QED
    BY <1>3
<1>5. (CHOOSE u : All(u))[Len(fmt)] = <<w>>
  <2> DEFINE u == CHOOSE u : All(u)
  <2>1. Writes(u, fmt, values, Len(fmt))
    BY <1>4 DEF Writes
  <2> HIDE DEF u
  <2>2. Writes(u, fmt, values, 1) /\ 1 \in Nat
    BY <1>1, <2>1
  <2>3. u[0] = <<>> /\ \A i \in 1 .. 1 : u[i] = u[i - 1] \o Piece(fmt, values, i)
    BY <2>2, WritesGives
  <2>4. u[1] = u[0] \o Piece(fmt, values, 1)
    <3>1. 1 \in 1 .. 1 /\ 1 - 1 = 0
      OBVIOUS
    <3>2. u[1] = u[1 - 1] \o Piece(fmt, values, 1)
      BY <2>3, <3>1
    <3> QED
      BY <3>1, <3>2
  <2>5. u[1] = <<w>>
    BY <1>2, <2>3, <2>4, Tuples
  <2> QED
    BY <1>1, <2>5 DEF u
<1>6. values # <<>> => FormatPinoMessage(fmt, values) = (CHOOSE u : All(u))[Len(fmt)]
  BY Zenon DEF FormatPinoMessage
<1>7. values = <<>> => FormatPinoMessage(fmt, values) = fmt
  BY DEF FormatPinoMessage
<1> HIDE DEF All
<1> QED
  BY <1>5, <1>6, <1>7 DEF fmt

LEMMA PinoMessageOf ==
  ASSUME NEW given
  PROVE  /\ given = <<>> => PinoMessage(given) = NoText
         /\ \A u : given = <<TextArg(u)>> => PinoMessage(given) = u
         /\ \A x : given = <<x>> /\ x.is \notin {"text", "other"} =>
              PinoMessage(given) = IF x.is = "error" THEN x.text ELSE NoText
         /\ \A x, u : given = <<x, TextArg(u)>> /\ x.is \notin {"text", "other"} => PinoMessage(given) = u
         /\ \A u : given = <<TextArg(LimitMarker), TextArg(u)>> => PinoMessage(given) = LimitMarker
<1> DEFINE n == Len(given)
           m == IF given # <<>> /\ given[1].is \in {"text", "other"} THEN 1 ELSE 2
           values == [i \in 1..(n - m) |->
                        [type |-> IF given[m + i].is = "text" THEN "string" ELSE "number", text |-> given[m + i].text]]
<1>1. PinoMessage(given) = IF n < m THEN (IF given # <<>> /\ given[1].is = "error" THEN given[1].text ELSE NoText)
                           ELSE IF given[m].is = "text" THEN FormatPinoMessage(given[m].text, values)
                           ELSE NoText
  BY Zenon DEF PinoMessage
<1>2. n - m = 0 => values = <<>>
  <2> HIDE DEF n, m
  <2>1. 1 .. 0 = {}
    OBVIOUS
  <2> QED
    BY <2>1
<1>3. \A t : FormatPinoMessage(t, <<>>) = t
  BY DEF FormatPinoMessage
<1>4. \A t : TextArg(t).is = "text" /\ TextArg(t).text = t
  BY DEF TextArg
<1> HIDE DEF values
<1>5. ASSUME given = <<>> PROVE PinoMessage(given) = NoText
  <2>1. n = 0 /\ m = 2
    BY <1>5
  <2> HIDE DEF n, m
  <2> QED
    BY <1>1, <1>5, <2>1
<1>6. ASSUME NEW u, given = <<TextArg(u)>> PROVE PinoMessage(given) = u
  <2>1. n = 1 /\ given # <<>> /\ given[1] = TextArg(u)
    BY <1>6
  <2>2. m = 1
    BY <1>4, <2>1
  <2> HIDE DEF n, m
  <2>3. n - m = 0 /\ ~(n < m)
    BY <2>1, <2>2
  <2> QED
    BY <1>1, <1>2, <1>3, <1>4, <2>1, <2>2, <2>3
<1>7. ASSUME NEW x, given = <<x>>, x.is \notin {"text", "other"}
      PROVE  PinoMessage(given) = IF x.is = "error" THEN x.text ELSE NoText
  <2>1. n = 1 /\ given # <<>> /\ given[1] = x
    BY <1>7
  <2>2. m = 2
    BY <1>7, <2>1
  <2> HIDE DEF n, m
  <2>3. n < m
    BY <2>1, <2>2
  <2> QED
    BY <1>1, <2>1, <2>3
<1>8. ASSUME NEW x, NEW u, given = <<x, TextArg(u)>>, x.is \notin {"text", "other"} PROVE PinoMessage(given) = u
  <2>1. n = 2 /\ given # <<>> /\ given[1] = x /\ given[2] = TextArg(u)
    BY <1>8
  <2>2. m = 2
    BY <1>8, <2>1
  <2> HIDE DEF n, m
  <2>3. n - m = 0 /\ ~(n < m)
    BY <2>1, <2>2
  <2> QED
    BY <1>1, <1>2, <1>3, <1>4, <2>1, <2>2, <2>3
<1>9. ASSUME NEW u, given = <<TextArg(LimitMarker), TextArg(u)>> PROVE PinoMessage(given) = LimitMarker
  <2>1. n = 2 /\ given # <<>> /\ given[1] = TextArg(LimitMarker)
    BY <1>9
  <2>2. m = 1
    BY <1>4, <2>1
  <2> HIDE DEF n, m
  <2>3. ~(n < m)
    BY <2>1, <2>2
  <2>4. PinoMessage(given) = FormatPinoMessage(LimitMarker, values)
    BY <1>1, <1>4, <2>1, <2>2, <2>3
  <2>5. "LIMIT_EXCEEDED" \notin Directives
    BY DEF Directives
  <2> QED
    BY <2>4, <2>5, FormatOfOne DEF LimitMarker
<1> QED
  BY <1>5, <1>6, <1>7, <1>8, <1>9

\* What pino is called with once the hook has run, whatever came of it.
Handed(c, given) == given = <<TextArg(ErrorMarker)>> \/ MaskedArgs(c, given)

LEMMA HandedAreArgs ==
  ASSUME NEW c \in Calls, NEW given, Handed(c, given)
  PROVE  given \in Seq(Arg)
<1>1. TextArg(ErrorMarker) \in Arg /\ \A u \in Text : TextArg(u) \in Arg
  BY TextArgIsArg, MarkersAreText
<1>2. \A x \in Arg : <<x>> \in Seq(Arg)
  OBVIOUS
<1>3. \A x \in Arg, y \in Arg : <<x, y>> \in Seq(Arg)
  OBVIOUS
<1>4. <<>> \in Seq(Arg)
  OBVIOUS
<1> QED
  BY <1>1, <1>2, <1>3, <1>4 DEF Handed, MaskedArgs

\* A text is not under a key of its own.
LEMMA MarkerIsQuiet ==
  /\ Quiet(TextArg(LimitMarker)) /\ Quiet(TextArg(ErrorMarker))
  /\ \A u : TextArg(u).is = "text" /\ (Quiet(TextArg(u)) <=> ~IsRaw(u, "none"))
<1>1. ~IsRaw(LimitMarker, "none") /\ ~IsRaw(ErrorMarker, "none")
  BY MarkersAreNotRaw DEF LimitMarker, ErrorMarker
<1>2. \A u : TextArg(u).is = "text" /\ TextArg(u).text = u
  BY DEF TextArg
<1> QED
  BY <1>1, <1>2 DEF Quiet

\* The text after a prefix is not raw when the two together are not.
LEMMA RestNotRaw ==
  ASSUME NEW s \in Text, NEW t \in Text, ~IsRaw(s \o t, "none")
  PROVE  ~IsRaw(t, "none")
<1> DEFINE w == s \o t
<1>1. Len(s) \in Nat /\ Len(t) \in Nat /\ DOMAIN t = 1 .. Len(t)
  BY TextWords
<1>2. /\ w \in Text /\ Len(w) = Len(s) + Len(t)
      /\ \A i \in 1 .. Len(s) + Len(t) : w[i] = IF i <= Len(s) THEN s[i] ELSE t[i - Len(s)]
  BY JoinedTexts
<1>3. DOMAIN w = 1 .. Len(s) + Len(t) /\ ~IsRaw(w, "none")
  BY <1>2, TextWords
<1> HIDE DEF w
<1>4. SUFFICES ASSUME NEW i \in 1 .. Len(t) PROVE ~Found(t, "none", i) /\ t[i] # "blocked"
  BY <1>1 DEF IsRaw
<1> DEFINE j == Len(s) + i
<1>5. /\ j \in 1 .. Len(s) + Len(t) /\ ~(j <= Len(s)) /\ j - Len(s) = i
      /\ i # 1 => /\ j # 1 /\ j - 1 \in 1 .. Len(s) + Len(t) /\ ~(j - 1 <= Len(s))
                  /\ (j - 1) - Len(s) = i - 1
  BY <1>1
<1> HIDE DEF j
<1>6. w[j] = t[i] /\ (i # 1 => j # 1 /\ w[j - 1] = t[i - 1])
  BY <1>2, <1>5
<1>7. ~Found(w, "none", j) /\ w[j] # "blocked"
  BY <1>3, <1>5 DEF IsRaw
<1> QED
  BY <1>6, <1>7 DEF Found

LEMMA SeesNothingRaw ==
  ASSUME NEW c \in Calls, NEW given, Handed(c, given), ~IsRaw(c.prefix, "none"),
         ~(Len(given) = 1 /\ given[1].is = "error" /\ c.prefix # <<>>)
  PROVE  NothingRawIn(PinoLine(c.prefix, <<>>, given))
<1> DEFINE message == PinoMessage(given)
<1>1. c.prefix \in Text /\ c.first.is \in {"none", "object", "error", "objectWithError"}
  BY CallFacts
<1>2. given \in Seq(Arg)
  BY HandedAreArgs
<1>3. /\ \A u \in Text : Heard(c, u) => ~IsRaw(c.prefix \o u, "none") /\ ~IsRaw(u, "none")
      /\ ~IsRaw(c.prefix \o LimitMarker, "none") /\ ~IsRaw(c.prefix \o ErrorMarker, "none")
  <2>1. ~IsRaw(c.prefix \o LimitMarker, "none") /\ ~IsRaw(c.prefix \o ErrorMarker, "none")
    BY <1>1, MarkerAfterPrefix DEF LimitMarker, ErrorMarker
  <2> QED
    BY <1>1, <2>1, RestNotRaw DEF Heard
<1>4. (given # <<>> => Quiet(given[1])) /\ (message = NoText \/ ~IsRaw(c.prefix \o message, "none"))
  <2>1. CASE given = <<>>
    BY <2>1, PinoMessageOf
  <2>2. CASE given = <<TextArg(ErrorMarker)>>
    <3>1. given[1] = TextArg(ErrorMarker) /\ message = ErrorMarker
      BY <2>2, PinoMessageOf
    <3> QED
      BY <1>3, <3>1, MarkerIsQuiet
  <2>3. ASSUME NEW u \in Text, Heard(c, u), given = <<TextArg(u)>>
        PROVE  Quiet(given[1]) /\ ~IsRaw(c.prefix \o message, "none")
    <3>1. given[1] = TextArg(u) /\ message = u
      BY <2>3, PinoMessageOf
    <3>2. ~IsRaw(c.prefix \o u, "none") /\ ~IsRaw(u, "none")
      BY <1>3, <2>3
    <3>3. Quiet(TextArg(u))
      BY <3>2, MarkerIsQuiet
    <3> QED
      BY <3>1, <3>2, <3>3
  <2>4. ASSUME NEW x \in Arg, c.first.is # "none", Hushed(c, x), given = <<x>>
        PROVE  Quiet(given[1]) /\ (message = NoText \/ ~IsRaw(c.prefix \o message, "none"))
    <3>1. given[1] = x /\ Len(given) = 1
      BY <2>4
    <3>2. CASE x = TextArg(LimitMarker)
      <4>1. message = LimitMarker
        BY <2>4, <3>2, PinoMessageOf
      <4> QED
        BY <1>3, <3>1, <3>2, <4>1, MarkerIsQuiet
    <3>3. CASE x.is = c.first.is /\ Quiet(x)
      <4>1. message = IF x.is = "error" THEN x.text ELSE NoText
        <5>1. x.is \notin {"text", "other"}
          BY <1>1, <3>3
        <5> QED
          BY <2>4, <5>1, PinoMessageOf
      <4>2. ASSUME x.is = "error" PROVE ~IsRaw(c.prefix \o x.text, "none")
        <5>1. c.prefix = <<>> /\ x.text \in Text
          BY <3>1, <4>2 DEF Arg
        <5>2. c.prefix \o x.text = x.text
          BY <5>1, ConcatEmptySeq DEF Text
        <5> QED
          BY <3>3, <4>2, <5>2 DEF Quiet
      <4> QED
        BY <3>1, <3>3, <4>1, <4>2
    <3> QED
      BY <2>4, <3>2, <3>3 DEF Hushed
  <2>5. ASSUME NEW x \in Arg, NEW u \in Text, c.first.is # "none", Hushed(c, x), Heard(c, u),
               given = <<x, TextArg(u)>>
        PROVE  Quiet(given[1]) /\ ~IsRaw(c.prefix \o message, "none")
    <3>1. given[1] = x
      BY <2>5
    <3>2. CASE x = TextArg(LimitMarker)
      <4>1. message = LimitMarker
        BY <2>5, <3>2, PinoMessageOf
      <4> QED
        BY <1>3, <3>1, <3>2, <4>1, MarkerIsQuiet
    <3>3. CASE x.is = c.first.is /\ Quiet(x)
      <4>1. x.is \notin {"text", "other"}
        BY <1>1, <2>5, <3>3
      <4>2. message = u
        BY <2>5, <4>1, PinoMessageOf
      <4> QED
        BY <1>3, <2>5, <3>1, <3>3, <4>2
    <3> QED
      BY <2>5, <3>2, <3>3 DEF Hushed
  <2> HIDE DEF message
  <2> QED
    BY <2>1, <2>2, <2>3, <2>4, <2>5 DEF Handed, MaskedArgs
<1> QED
  BY <1>1, <1>2, <1>4, LineNotRaw

LEMMA ScannedArgs ==
  ASSUME NEW c \in Calls
  PROVE  Scanned(c) \in Seq(Arg) /\ Unhooked(c) \in Seq(Arg)
<1>1. c.first \in Arg
  BY CallFacts
<1>2. HasMessage(c) => TextArg(Whole(c)) \in Arg /\ TextArg(Said(c)) \in Arg
  BY SaidText, TextArgIsArg
<1>3. <<>> \in Seq(Arg) /\ \A x \in Arg : <<x>> \in Seq(Arg)
  OBVIOUS
<1>4. \A x \in Arg, y \in Arg : <<x, y>> \in Seq(Arg)
  OBVIOUS
<1>5. Scanned(c) \in Seq(Arg)
  BY <1>1, <1>2, <1>3, <1>4 DEF Scanned
<1>6. Unhooked(c) \in Seq(Arg)
  BY <1>1, <1>2, <1>3, <1>4, UnhookedIs
<1> QED
  BY <1>5, <1>6

LEMMA KeptIsFinite ==
  ASSUME NEW c \in Calls, limits.array \in Nat
  PROVE  IsFiniteSet(DOMAIN Kept(Scanned(c)))
<1> DEFINE l == Scanned(c)
           n == limits.array
<1>1. l \in Seq(Arg) /\ Len(l) \in Nat /\ n \in Nat
  BY ScannedArgs
<1>2. Kept(l) = IF Len(l) <= n THEN l ELSE SubSeq(l, 1, n)
  BY DEF Kept
<1> HIDE DEF l, n
<1>3. Kept(l) \in Seq(Arg)
  <2>1. CASE Len(l) <= n
    BY <1>1, <1>2, <2>1
  <2>2. CASE ~(Len(l) <= n)
    <3>1. n <= Len(l)
      BY <1>1, <2>2
    <3>2. SubSeq(l, 1, n) \in Seq(Arg)
      BY <1>1, <3>1
    <3> QED
      BY <1>2, <2>2, <3>2
  <2> QED
    BY <2>1, <2>2
<1>4. DOMAIN Kept(l) = 1 .. Len(Kept(l)) /\ Len(Kept(l)) \in Nat
  BY <1>3
<1>5. IsFiniteSet(1 .. Len(Kept(l)))
  BY <1>4, FS_Interval
<1> QED
  BY <1>4, <1>5 DEF l

\* What there is none of.
LEMMA NoneOf ==
  ASSUME NEW S, IsFiniteSet(S)
  PROVE  Cardinality(S) \in Nat /\ (Cardinality(S) = 0 => S = {})
  BY FS_CardinalityType, FS_EmptySet

\* The message pino makes without the hooks is what was said.
LEMMA UnhookedIsScanned ==
  ASSUME NEW c \in Calls, HasMessage(c),
         NothingRawIn(PinoLine(c.prefix, c.bindings, Unhooked(c)))
  PROVE  ~IsRaw(Whole(c), "none")
<1>1. PinoMessage(Unhooked(c)) = Said(c)
  <2>1. CASE c.first.is = "none"
    BY <2>1, UnhookedIs, PinoMessageOf
  <2>2. CASE c.first.is # "none"
    <3>1. Unhooked(c) = <<c.first, TextArg(Said(c))>>
      BY <2>2, UnhookedIs
    <3>2. c.first.is \notin {"text", "other"}
      BY CallFacts
    <3> QED
      BY <3>1, <3>2, PinoMessageOf
  <2> QED
    BY <2>1, <2>2
<1>2. c.prefix \in Text /\ c.bindings \in Seq(Token) /\ Said(c) \in Text /\ c.prefix \o Said(c) = Whole(c)
  BY CallFacts, SaidText
<1>3. ~IsRaw(c.prefix \o Said(c), "none")
  BY <1>1, <1>2, ScannedArgs, MessageNotRaw
<1> QED
  BY <1>2, <1>3

\* A line the host added nothing to is the one pino built.
LEMMA HostLineFacts ==
  ASSUME NEW l \in Seq(Token), NEW made \in HostLines(l)
  PROVE  made \in Seq(Token) /\ (NothingRawIn(made) => made = l)
<1>1. "host" \in Words /\ <<"secret">> \in Text
  BY OwnWordsAreWords, OneWord
<1>2. <<Key("host"), String(<<"secret">>)>> \in Seq(Token)
  BY <1>1, TokensAreTokens
<1>3. IsRaw(<<"secret">>, "host")
  <2>1. 1 \in DOMAIN <<"secret">> /\ <<"secret">>[1] = "secret"
    OBVIOUS
  <2> QED
    BY <2>1 DEF IsRaw, Found
<1>4. ~NothingRawIn(l \o <<Key("host"), String(<<"secret">>)>>)
  BY <1>1, <1>3, LastOfLine
<1>5. l \o <<Key("host"), String(<<"secret">>)>> \in Seq(Token)
  BY <1>2, JoinedLines
<1> QED
  BY <1>4, <1>5 DEF HostLines

\* The line put together again has no raw value, and where there was none and no
\* marker of a limit was put in, it is the line it was.
LEMMA MasksFacts ==
  ASSUME line \in Seq(Token), NEW spans
  PROVE  /\ NothingRawIn(Masks(spans))
         /\ /\ NothingRawIn(line)
            /\ {i \in DOMAIN line : Masks(spans)[i] = String(LimitMarker) /\ line[i] # Masks(spans)[i]} = {}
            => Masks(spans) = line
<1> DEFINE l == Masks(spans)
<1>1. /\ DOMAIN line = 1 .. Len(line) /\ Len(line) \in Nat
      /\ \A i \in DOMAIN line : line[i] \in Token
  OBVIOUS
<1>2. line = [i \in DOMAIN line |-> line[i]]
  OBVIOUS
<1>3. /\ l = [i \in DOMAIN line |-> l[i]]
      /\ \A i \in DOMAIN line :
           l[i] = IF line[i].is # "string" THEN line[i]
                  ELSE String(Spliced(CHOOSE n \in DOMAIN spans : spans[n] = i, i))
  BY DEF Masks
<1>4. DOMAIN l = DOMAIN line
  BY <1>3
<1>5. \A n, i : Spliced(n, i) \in {LimitMarker, MaskLeaf(line[i].text, KeyOf(line, i))}
  BY DEF Spliced, ValueOf
<1>6. ASSUME NEW i \in DOMAIN line, line[i].is = "string"
      PROVE  /\ l[i] = String(LimitMarker) \/ l[i] = String(MaskLeaf(line[i].text, KeyOf(line, i)))
             /\ line[i].text \in Text /\ line[i] = String(line[i].text)
  <2>1. l[i] = String(LimitMarker) \/ l[i] = String(MaskLeaf(line[i].text, KeyOf(line, i)))
    <3>1. l[i] = String(Spliced(CHOOSE n \in DOMAIN spans : spans[n] = i, i))
      BY <1>3, <1>6
    <3> QED
      BY <1>5, <3>1
  <2>2. line[i].text \in Text /\ line[i] = [is |-> line[i].is, text |-> line[i].text]
    BY <1>1 DEF Token
  <2> QED
    BY <1>6, <2>1, <2>2 DEF String
<1>7. \A i \in DOMAIN line : line[i].is # "string" => l[i] = line[i]
  BY <1>3
<1> HIDE DEF l
<1>8. \A t : String(t).is = "string" /\ String(t).text = t
  BY DEF String
<1>9. \A i \in DOMAIN line : l[i].is = line[i].is
  BY <1>6, <1>7, <1>8
<1>10. \A i \in DOMAIN line : KeyOf(l, i) = KeyOf(line, i)
  <2> SUFFICES ASSUME NEW i \in DOMAIN line PROVE KeyOf(l, i) = KeyOf(line, i)
    OBVIOUS
  <2>1. i > 1 => i - 1 \in DOMAIN line
    BY <1>1
  <2>2. i > 1 /\ line[i - 1].is = "key" => l[i - 1] = line[i - 1]
    BY <1>7, <2>1
  <2> QED
    BY <1>9, <2>1, <2>2 DEF KeyOf
<1>11. NothingRawIn(l)
  <2> SUFFICES ASSUME NEW i \in DOMAIN line, l[i].is = "string" PROVE ~IsRaw(l[i].text, KeyOf(line, i))
    BY <1>4, <1>10 DEF NothingRawIn
  <2>1. line[i].is = "string"
    BY <1>9
  <2>2. CASE l[i] = String(LimitMarker)
    BY <1>8, <2>2, MarkersAreNotRaw DEF LimitMarker
  <2>3. CASE l[i] = String(MaskLeaf(line[i].text, KeyOf(line, i)))
    <3>1. ~IsRaw(MaskLeaf(line[i].text, KeyOf(line, i)), KeyOf(line, i))
      BY <1>6, <2>1, MaskedLeaf
    <3> QED
      BY <1>8, <2>3, <3>1
  <2> QED
    BY <1>6, <2>1, <2>2, <2>3
<1>12. ASSUME NothingRawIn(line),
              {i \in DOMAIN line : l[i] = String(LimitMarker) /\ line[i] # l[i]} = {}
       PROVE  l = line
  <2>1. ASSUME NEW i \in DOMAIN line PROVE l[i] = line[i]
    <3>1. CASE line[i].is = "string"
      <4>1. ~IsRaw(line[i].text, KeyOf(line, i))
        BY <1>12, <3>1 DEF NothingRawIn
      <4>2. MaskLeaf(line[i].text, KeyOf(line, i)) = line[i].text
        BY <1>6, <3>1, <4>1, MaskedLeaf
      <4>3. l[i] = String(LimitMarker) => l[i] = line[i]
        BY <1>12
      <4> QED
        BY <1>6, <3>1, <4>2, <4>3
    <3>2. CASE line[i].is # "string"
      BY <1>7, <3>2
    <3> QED
      BY <3>1, <3>2
  <2> QED
    BY <1>2, <1>3, <2>1
<1> QED
  BY <1>11, <1>12 DEF l

-----------------------------------------------------------------------------
(* The record's invariant.                                                 *)

\* What pino is called with: the error marker, or the masked arguments; and those of
\* a call that holds nothing raw and met no limit are its own.
Answered ==
  \/ args = <<TextArg(ErrorMarker)>> /\ failed > 0
  \/ /\ MaskedArgs(call, args)
     /\ /\ refused = 0 /\ Len(Scanned(call)) <= limits.array
        /\ ~IsRaw(call.first.text, call.first.key)
        /\ HasMessage(call) => ~IsRaw(Whole(call), "none")
        => args = Unhooked(call)

BuiltByPino == built \in HostLines(PinoLine(call.prefix, call.bindings, args))

\* What is written is masked, and a line with nothing to mask and no limit met is
\* written as it was built.
WrittenMasked ==
  /\ NothingRawIn(line)
  /\ refused = 0 /\ failed = 0 /\ NothingRawIn(built) => line = built

RecordInv ==
  /\ call \in Calls /\ limits.array \in Nat /\ refused \in Nat /\ failed \in Nat
  /\ step \in {"called", "masked", "built", "written"}
  /\ step # "called" => Answered
  /\ step \in {"built", "written"} => BuiltByPino
  /\ step = "built" => line = built
  /\ step = "written" => WrittenMasked

LEMMA RecordInit == Init => RecordInv
<1> SUFFICES ASSUME Init PROVE RecordInv
  OBVIOUS
<1>1. limits \in [array : Arrays, spans : Lines] /\ Arrays \subseteq Nat
  BY RecordAssumption DEF Init
<1>2. limits.array \in Nat
  BY <1>1
<1> QED
  BY <1>2 DEF Init, RecordInv

\* The arguments are masked before pino sees them.
LEMMA LogMethodKeeps == RecordInv /\ LogMethod => RecordInv'
<1> SUFFICES ASSUME RecordInv, LogMethod PROVE RecordInv'
  OBVIOUS
<1> DEFINE given == Kept(WithPrefix(call))
           marked == {i \in DOMAIN given : MaskArgs(given, left)[i].text = LimitMarker}
<1>1. /\ call \in Calls /\ limits.array \in Nat /\ refused \in Nat /\ failed \in Nat
      /\ step' = "masked" /\ call' = call /\ limits' = limits
  BY DEF RecordInv, LogMethod
<1>2. \/ args' = <<TextArg(ErrorMarker)>> /\ failed' = failed + 1 /\ (refused' = refused \/ refused' = refused + 1)
      \/ /\ args' = Answer(call, given, left) /\ failed' = failed
         /\ refused' = refused + Cardinality(marked)
  BY DEF LogMethod, Answer
<1>3. given = Kept(Scanned(call))
  BY <1>1, WithPrefixIs
<1>4. IsFiniteSet(marked)
  <2>1. IsFiniteSet(DOMAIN given)
    BY <1>1, <1>3, KeptIsFinite
  <2> HIDE DEF given
  <2> QED
    BY <2>1, FS_Subset
<1>5. Cardinality(marked) \in Nat /\ (Cardinality(marked) = 0 => marked = {})
  BY <1>4, NoneOf
<1>6. /\ MaskedArgs(call, Answer(call, given, left))
      /\ /\ Len(Scanned(call)) <= limits.array
         /\ \A i \in DOMAIN given : MaskArgs(given, left)[i].text # LimitMarker
         /\ ~IsRaw(call.first.text, call.first.key) /\ (HasMessage(call) => ~IsRaw(Whole(call), "none"))
         => Answer(call, given, left) = Unhooked(call)
  <2> HIDE DEF given
  <2> QED
    BY <1>1, <1>3, AnswerFacts
<1>7. marked = {} => \A i \in DOMAIN given : MaskArgs(given, left)[i].text # LimitMarker
  <2> HIDE DEF given
  <2> QED
    OBVIOUS
<1> HIDE DEF given, marked
<1>8. refused' \in Nat /\ failed' \in Nat
  BY <1>1, <1>2, <1>5
<1>9. Answered'
  <2> DEFINE clean == /\ Len(Scanned(call)) <= limits.array
                      /\ ~IsRaw(call.first.text, call.first.key)
                      /\ HasMessage(call) => ~IsRaw(Whole(call), "none")
  <2>1. CASE args' = <<TextArg(ErrorMarker)>> /\ failed' = failed + 1
    <3>1. failed' > 0
      BY <1>1, <2>1
    <3> QED
      BY <2>1, <3>1 DEF Answered
  <2>2. CASE args' = Answer(call, given, left) /\ refused' = refused + Cardinality(marked)
    <3>1. MaskedArgs(call, args')
      BY <1>6, <2>2
    <3>2. refused' = 0 => marked = {}
      BY <1>1, <1>5, <2>2
    <3>3. refused' = 0 /\ clean => args' = Unhooked(call)
      BY <1>6, <1>7, <2>2, <3>2
    <3>4. Answered' <=> \/ args' = <<TextArg(ErrorMarker)>> /\ failed' > 0
                        \/ MaskedArgs(call, args') /\ (refused' = 0 /\ clean => args' = Unhooked(call))
      BY <1>1 DEF Answered, MaskedArgs, Hushed, Heard, HasMessage, Scanned, Unhooked, Whole, Said, Prefixed
    <3> HIDE DEF clean
    <3> QED
      BY <3>1, <3>3, <3>4
  <2> QED
    BY <1>2, <2>1, <2>2
<1> QED
  BY <1>1, <1>8, <1>9 DEF RecordInv

\* pino builds its line of what it was called with.
LEMMA BuildKeeps == RecordInv /\ Build => RecordInv'
<1> SUFFICES ASSUME RecordInv, Build PROVE RecordInv'
  OBVIOUS
<1>1. /\ call' = call /\ limits' = limits /\ refused' = refused /\ failed' = failed /\ args' = args
      /\ step' = "built" /\ line' = built' /\ step = "masked"
      /\ built' \in HostLines(PinoLine(call.prefix, call.bindings, args))
  BY DEF Build
<1>2. Answered'
  <2>1. Answered
    BY <1>1 DEF RecordInv
  <2> QED
    BY <1>1, <2>1 DEF Answered, MaskedArgs, Hushed, Heard, HasMessage, Scanned, Unhooked, Whole, Said, Prefixed
<1>3. BuiltByPino'
  BY <1>1 DEF BuiltByPino
<1> QED
  BY <1>1, <1>2, <1>3 DEF RecordInv

\* The line is masked, or replaced, before it is written.
LEMMA StreamWriteKeeps == RecordInv /\ StreamWrite => RecordInv'
<1> SUFFICES ASSUME RecordInv, StreamWrite PROVE RecordInv'
  OBVIOUS
<1> DEFINE spans == Spans(line)
           masks == Masks(spans)
           marked == {i \in DOMAIN line : masks[i] = String(LimitMarker) /\ line[i] # masks[i]}
<1>1. /\ call' = call /\ limits' = limits /\ args' = args /\ built' = built
      /\ step' = "written" /\ step = "built"
  BY DEF StreamWrite
<1>2. /\ call \in Calls /\ limits.array \in Nat /\ refused \in Nat /\ failed \in Nat
      /\ Answered /\ BuiltByPino /\ line = built
  BY <1>1 DEF RecordInv
<1>3. \/ line' = LimitLine /\ refused' = refused + 1 /\ failed' = failed
      \/ line' = ErrorLine /\ refused' = refused /\ failed' = failed + 1
      \/ line' = masks /\ refused' = refused + Cardinality(marked) /\ failed' = failed
  <2>1. CASE Refuses(spans)
    BY <2>1 DEF StreamWrite
  <2>2. CASE ~Refuses(spans) /\ shape # "json"
    BY <2>2 DEF StreamWrite
  <2>3. CASE ~Refuses(spans) /\ shape = "json" /\ left = 0
    BY <2>3 DEF StreamWrite
  <2>4. CASE ~Refuses(spans) /\ shape = "json" /\ left # 0
    <3>1. /\ line' = masks /\ failed' = failed
          /\ refused' = refused + Cardinality({i \in DOMAIN line : line'[i] = String(LimitMarker) /\ line[i] # line'[i]})
      BY <2>4 DEF StreamWrite
    <3> HIDE DEF masks
    <3> QED
      BY <3>1
  <2> QED
    BY <2>1, <2>2, <2>3, <2>4
<1>4. line \in Seq(Token)
  <2>1. args \in Seq(Arg)
    BY <1>2, HandedAreArgs DEF Answered, Handed
  <2>2. call.prefix \in Text /\ call.bindings \in Seq(Token)
    BY <1>2, CallFacts
  <2> QED
    BY <1>2, <2>1, <2>2, LineFacts, HostLineFacts DEF BuiltByPino
<1>5. NothingRawIn(masks) /\ (NothingRawIn(line) /\ marked = {} => masks = line)
  BY <1>4, MasksFacts
<1>6. Cardinality(marked) \in Nat /\ (Cardinality(marked) = 0 => marked = {})
  <2>1. DOMAIN line = 1 .. Len(line) /\ Len(line) \in Nat
    BY <1>4
  <2>2. IsFiniteSet(1 .. Len(line))
    BY <2>1, FS_Interval
  <2>3. IsFiniteSet(marked)
    BY <2>1, <2>2, FS_Subset
  <2> QED
    BY <2>3, NoneOf
<1> HIDE DEF masks, marked, spans
<1>7. refused' \in Nat /\ failed' \in Nat /\ (refused' = 0 => refused = 0) /\ (failed > 0 => failed' > 0)
  BY <1>2, <1>3, <1>6
<1>8. NothingRawIn(LimitLine) /\ NothingRawIn(ErrorLine)
  <2>1. ASSUME NEW t, ~IsRaw(t, "msg") PROVE NothingRawIn(<<Key("msg"), String(t)>>)
    <3> DEFINE l == <<Key("msg"), String(t)>>
    <3>1. DOMAIN l = 1 .. 2 /\ l[1] = Key("msg") /\ l[2] = String(t)
      OBVIOUS
    <3> HIDE DEF l
    <3>2. l[1].is # "string" /\ l[2].text = t /\ KeyOf(l, 2) = "msg"
      BY <3>1 DEF Key, String, KeyOf
    <3>3. NothingRawIn(l)
      BY <2>1, <3>1, <3>2 DEF NothingRawIn
    <3> QED
      BY <3>3 DEF l
  <2>2. ~IsRaw(LimitMarker, "msg") /\ ~IsRaw(ErrorMarker, "msg")
    BY MarkersAreNotRaw DEF LimitMarker, ErrorMarker
  <2> QED
    BY <2>1, <2>2 DEF LimitLine, ErrorLine
<1>9. Answered'
  BY <1>1, <1>2, <1>7
     DEF Answered, MaskedArgs, Hushed, Heard, HasMessage, Scanned, Unhooked, Whole, Said, Prefixed
<1>10. BuiltByPino'
  BY <1>1, <1>2 DEF BuiltByPino
<1>11. NothingRawIn(line')
  BY <1>3, <1>5, <1>8
<1>12. ASSUME refused' = 0, failed' = 0, NothingRawIn(built) PROVE line' = built
  <2>1. line' = masks /\ marked = {}
    BY <1>2, <1>3, <1>6, <1>12
  <2> QED
    BY <1>2, <1>5, <1>12, <2>1
<1>13. WrittenMasked'
  BY <1>1, <1>11, <1>12 DEF WrittenMasked, NothingRawIn, KeyOf
<1> QED
  BY <1>1, <1>2, <1>7, <1>9, <1>10, <1>13 DEF RecordInv

\* In every state of a record, RecordInv.
THEOREM RecordInvariant == RecordSpec => []RecordInv
<1>1. RecordInv /\ [Next]_recordVars => RecordInv'
  <2> SUFFICES ASSUME RecordInv, [Next]_recordVars PROVE RecordInv'
    OBVIOUS
  <2>1. CASE Next
    BY <2>1, LogMethodKeeps, BuildKeeps, StreamWriteKeeps DEF Next
  <2>2. CASE UNCHANGED recordVars
    BY <2>2 DEF recordVars, RecordInv, Answered, MaskedArgs, Hushed, Heard, HasMessage, Scanned, Unhooked, Whole,
                Said, Prefixed, BuiltByPino, WrittenMasked, NothingRawIn, KeyOf
  <2> QED
    BY <2>1, <2>2
<1> QED
  BY <1>1, RecordInit, PTL DEF RecordSpec

\* Once hooks.logMethod has run, nothing pino builds of the call is in the clear: a
\* secret that shows only after the prefix, in the format or beside another value is
\* masked with the message it is joined in, and the prefix comes off it again.
THEOREM PinoSeesMasked == RecordSpec => []PinoSeesNothingRaw
<1>1. RecordInv => PinoSeesNothingRaw
  <2> SUFFICES ASSUME RecordInv, step # "called", ~IsRaw(call.prefix, "none"),
                      ~(MessageIsTheErrors /\ call.prefix # <<>>)
               PROVE  NothingRawIn(PinoLine(call.prefix, <<>>, args))
    BY DEF PinoSeesNothingRaw
  <2>1. call \in Calls /\ Handed(call, args)
    BY DEF RecordInv, Answered, Handed
  <2> QED
    BY <2>1, SeesNothingRaw DEF MessageIsTheErrors
<1> QED
  BY <1>1, RecordInvariant, PTL

\* The line that hooks.streamWrite lets through has no value in the clear, those the
\* arguments never held included.
THEOREM WritesMasked == RecordSpec => []NothingRawIsWritten
<1>1. RecordInv => NothingRawIsWritten
  BY DEF RecordInv, WrittenMasked, NothingRawIsWritten
<1> QED
  BY <1>1, RecordInvariant, PTL

\* A record with nothing to mask that meets no limit is written as pino would have
\* written it without the hooks.
THEOREM CleanIsUntouched == RecordSpec => []CleanRecordIsUntouched
<1>1. RecordInv => CleanRecordIsUntouched
  <2> SUFFICES ASSUME RecordInv, step = "written", refused = 0, failed = 0,
                      Len(WithPrefix(call)) <= limits.array, NothingRawIn(UnhookedLine), NothingRawIn(built),
                      ~IsRaw(call.first.text, call.first.key)
               PROVE  line = UnhookedLine
    BY DEF CleanRecordIsUntouched
  <2>1. /\ call \in Calls /\ Answered /\ BuiltByPino /\ WrittenMasked
    BY DEF RecordInv
  <2>2. UnhookedLine = PinoLine(call.prefix, call.bindings, Unhooked(call))
    BY DEF UnhookedLine, Unhooked
  <2>3. HasMessage(call) => ~IsRaw(Whole(call), "none")
    BY <2>1, <2>2, UnhookedIsScanned
  <2>4. WithPrefix(call) = Scanned(call)
    BY <2>1, WithPrefixIs
  <2>5. args = Unhooked(call)
    BY <2>1, <2>3, <2>4 DEF Answered
  <2>6. line = built
    BY <2>1 DEF WrittenMasked
  <2>7. PinoLine(call.prefix, call.bindings, args) \in Seq(Token)
    <3>1. call.prefix \in Text /\ call.bindings \in Seq(Token)
      BY <2>1, CallFacts
    <3> QED
      BY <2>1, <2>5, <3>1, ScannedArgs, LineFacts
  <2>8. built = PinoLine(call.prefix, call.bindings, args)
    BY <2>1, <2>7, HostLineFacts DEF BuiltByPino
  <2> QED
    BY <2>2, <2>5, <2>6, <2>8
<1> QED
  BY <1>1, RecordInvariant, PTL
==============================================================================
