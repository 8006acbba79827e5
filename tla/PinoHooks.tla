------------------------------ MODULE PinoHooks ------------------------------
(***************************************************************************)
(* observed of the pino adapter: the two hooks of one pair share a stack   *)
(* of records in flight, so that one log record is one outcome.  pino's    *)
(* write path is synchronous and re-entrant: host code runs inside it - a  *)
(* getter or a policy while values are masked, a mixin or a serializer     *)
(* while the line is built, the destination after it, the observer of an   *)
(* outcome - and may log again through the same pair.  `frames` is the     *)
(* JavaScript stack of the hooks in progress, innermost first.             *)
(***************************************************************************)
EXTENDS Naturals, SequencesExt

CONSTANTS
  BareLines,   \* where lines without a logMethod pass are written: a subset of {"alone", "nested"}
  MaxRecords,  \* bound: records, orphan lines included
  MaxValues    \* bound: values masked for one record

ASSUME PinoAssumption ==
  /\ BareLines \subseteq {"alone", "nested"}
  /\ MaxRecords \in Nat /\ MaxValues \in Nat

VARIABLES
  stack,      \* the records in flight, the newest last, as `observed` keeps them
  reporting,  \* an observer is running
  frames,     \* the hook calls in progress, innermost first
  records,    \* every record, in the order they were opened
  outcomes    \* what onOutcome was called with, in order

pinoVars == <<stack, reporting, frames, records, outcomes>>

Stages == {"log-method", "stream-write"}

\* `masked`, `collected`, `quiet` and `orphan` are what a reader knows of the
\* record: the values masked for it, how many of its counts the caller's own
\* counter received, whether an observer was running when it was opened, and
\* whether it is a line of its own.
Record ==
  [counts : Nat, stages : Seq(Stages), reported : BOOLEAN,
   masked : Nat, collected : Nat, quiet : BOOLEAN, orphan : BOOLEAN]

\* observedLogMethod masks, lets pino build the line, has written it, and
\* reports; observedStreamWrite, for a record in flight or for a line of its
\* own, masks and reports.  `counter` is the record the running walk counts
\* onto: there always is one.
Frame ==
  [hook : {"logMethod", "streamWrite", "orphanLine"}, at : {"masking", "building", "written", "reporting"},
   record : Nat \ {0}, counter : Nat \ {0}]

Outcome == [record : Nat \ {0}, values : Nat, stages : Seq(Stages)]

-----------------------------------------------------------------------------
(* The record in flight.                                                   *)

\* stack[stack.length - 1], or 0: what `counter` and `operation` read.
Top(s) == IF s = <<>> THEN 0 ELSE s[Len(s)]

\* BUG: what returns takes the record opened first off the stack.
Removed_oldest(s, r) == IF s = <<>> THEN s ELSE Tail(s)

\* stack.splice at lastIndexOf, where there is one.
Removed(s, r) ==
  LET places == {i \in DOMAIN s : s[i] = r}
  IN  IF places = {} THEN s ELSE RemoveAt(s, Max(places))

NewRecord(orphan) ==
  [counts |-> 0, stages |-> IF orphan THEN <<"stream-write">> ELSE <<>>, reported |-> FALSE,
   masked |-> 0, collected |-> 0, quiet |-> reporting, orphan |-> orphan]

NewId == Len(records) + 1

HookFrame(hook, at, r, counter) == [hook |-> hook, at |-> at, record |-> r, counter |-> counter]

\* A hook is in progress: host code runs inside the innermost one.
InFlight == frames # <<>>

-----------------------------------------------------------------------------
(* The hooks.                                                              *)

\* observedLogMethod: a record is opened and pushed before anything is masked.
Log ==
  /\ Len(records) < MaxRecords
  /\ records' = Append(records, NewRecord(FALSE))
  /\ stack' = Append(stack, NewId)
  /\ frames' = <<HookFrame("logMethod", "masking", NewId, Top(stack'))>> \o frames
  /\ UNCHANGED <<reporting, outcomes>>

\* A value masked for record r is counted by record c.
Counted(r, c) == [records EXCEPT ![r].masked = @ + 1, ![c].counts = @ + 1]

\* One value of the innermost walk is masked and counted.
MaskValue ==
  /\ InFlight /\ Head(frames).at = "masking"
  /\ records[Head(frames).record].masked < MaxValues
  /\ records' = Counted(Head(frames).record, Head(frames).counter)
  /\ UNCHANGED <<stack, reporting, frames, outcomes>>

\* The walk throws: the hook counts one failed value, reading the counter anew.
MaskingFails ==
  /\ InFlight /\ Head(frames).at = "masking"
  /\ records[Head(frames).record].masked < MaxValues
  /\ records' = Counted(Head(frames).record, Top(stack))
  /\ UNCHANGED <<stack, reporting, frames, outcomes>>

\* afterMasking: the stage is noted and pino's own method runs.
AfterMasking ==
  /\ InFlight /\ Head(frames).hook = "logMethod" /\ Head(frames).at = "masking"
  /\ records' = [records EXCEPT ![Head(frames).record].stages = Append(@, "log-method")]
  /\ frames' = <<[Head(frames) EXCEPT !.at = "building"]>> \o Tail(frames)
  /\ UNCHANGED <<stack, reporting, outcomes>>

\* pino writes the line of the innermost record: observedStreamWrite takes the
\* record on top of the stack for it.
WriteLine ==
  /\ InFlight /\ Head(frames).at = "building"
  /\ Top(stack) # 0
  /\ frames' = <<HookFrame("streamWrite", "masking", Top(stack), Top(stack)),
                 [Head(frames) EXCEPT !.at = "written"]>> \o Tail(frames)
  /\ UNCHANGED <<stack, reporting, records, outcomes>>

\* A line no logMethod pass of this pair made.  With nothing in flight it gets
\* a record of its own; otherwise it is taken for the record on top.
WriteBareLine ==
  /\ (IF Top(stack) = 0 THEN "alone" ELSE "nested") \in BareLines
  /\ IF Top(stack) = 0
     THEN /\ Len(records) < MaxRecords
          /\ records' = Append(records, NewRecord(TRUE))
          /\ stack' = Append(stack, NewId)
          /\ frames' = <<HookFrame("orphanLine", "masking", NewId, Top(stack'))>> \o frames
     ELSE /\ frames' = <<HookFrame("streamWrite", "masking", Top(stack), Top(stack))>> \o frames
          /\ UNCHANGED <<stack, records>>
  /\ UNCHANGED <<reporting, outcomes>>

\* BUG: an observer may be called from within an observer.
MayNotify_always == TRUE

MayNotify == ~reporting

\* report or reportOrphanLine of a record whose stages are `stages`: the
\* observer is called unless one is running; then the caller's counter is added
\* to, and the hook returns.
Report(r, stages) ==
  IF MayNotify
  THEN /\ reporting' = TRUE
       /\ outcomes' = Append(outcomes, [record |-> r, values |-> records[r].counts, stages |-> stages])
       /\ records' = [records EXCEPT ![r].stages = stages, ![r].reported = TRUE]
       /\ frames' = <<[Head(frames) EXCEPT !.at = "reporting"]>> \o Tail(frames)
  ELSE /\ records' = [records EXCEPT ![r].stages = stages, ![r].reported = TRUE,
                                     ![r].collected = @ + records[r].counts]
       /\ frames' = Tail(frames)
       /\ UNCHANGED <<reporting, outcomes>>

\* The line of a record in flight is masked, and the record reported.
LineMasked ==
  /\ InFlight /\ Head(frames).hook = "streamWrite" /\ Head(frames).at = "masking"
  /\ LET r == Head(frames).record
     IN  Report(r, Append(records[r].stages, "stream-write"))
  /\ UNCHANGED stack

\* A line of its own is masked: its record leaves the stack and is reported.
OrphanLineMasked ==
  /\ InFlight /\ Head(frames).hook = "orphanLine" /\ Head(frames).at = "masking"
  /\ stack' = SubSeq(stack, 1, Len(stack) - 1)
  /\ Report(Head(frames).record, records[Head(frames).record].stages)

Unreported(r) == ~records[r].reported

\* The finally of observedLogMethod: pino's method has returned or thrown.
LogReturns ==
  /\ InFlight /\ Head(frames).hook = "logMethod" /\ Head(frames).at \in {"building", "written"}
  /\ LET r == Head(frames).record
     IN  /\ stack' = Removed(stack, r)
         /\ IF Unreported(r)
            THEN Report(r, records[r].stages)
            ELSE frames' = Tail(frames) /\ UNCHANGED <<reporting, records, outcomes>>

Collected(r) == records[r].collected + records[r].counts

\* The observer has returned, or thrown, which is swallowed.
Notified ==
  /\ InFlight /\ Head(frames).at = "reporting"
  /\ reporting' = FALSE
  /\ records' = [records EXCEPT ![Head(frames).record].collected = Collected(Head(frames).record)]
  /\ frames' = Tail(frames)
  /\ UNCHANGED <<stack, outcomes>>

-----------------------------------------------------------------------------
PinoInit ==
  /\ stack = <<>> /\ frames = <<>> /\ records = <<>> /\ outcomes = <<>>
  /\ reporting = FALSE

PinoNext ==
  \/ Log \/ WriteBareLine
  \/ MaskValue \/ MaskingFails \/ AfterMasking \/ WriteLine
  \/ LineMasked \/ OrphanLineMasked \/ LogReturns \/ Notified

PinoSpec == PinoInit /\ [][PinoNext]_pinoVars

-----------------------------------------------------------------------------
(* Properties.                                                             *)

\* Every variable stays in its type, the stack holds known records, and a walk
\* of either hook always has a record to count onto.
PinoTypeOK ==
  /\ stack \in Seq(DOMAIN records)
  /\ reporting \in BOOLEAN
  /\ frames \in Seq(Frame)
  /\ records \in Seq(Record)
  /\ outcomes \in Seq(Outcome)

\* A record is over when none of its hooks is in progress.
Over(r) == \A i \in DOMAIN frames : frames[i].record # r

OutcomesOf(r) == {i \in DOMAIN outcomes : outcomes[i].record = r}

\* Every record is reported exactly once by the time it is over, whether its
\* line was written, refused or never reached, and however deep it was nested;
\* one logged from inside an observer is not reported at all.
ReportedOnce ==
  \A r \in DOMAIN records :
    Over(r) => IF records[r].quiet THEN OutcomesOf(r) = {}
               ELSE \E i \in DOMAIN outcomes : OutcomesOf(r) = {i}

\* A value is counted onto the record it belongs to, however many records are
\* in flight, and what is reported is all of it.
CountsAreItsOwn ==
  /\ \A r \in DOMAIN records : records[r].counts = records[r].masked
  /\ \A i \in DOMAIN outcomes :
       outcomes[i].values = records[outcomes[i].record].masked

\* The caller's own counter receives every value of every record once,
\* including the records no observer was told about.
CallerCountsAll ==
  \A r \in DOMAIN records : Over(r) => records[r].collected = records[r].masked

\* The counts of a record and of its caller add up: each value is counted once,
\* for the record it belongs to, and once for the caller.
CountsAddUp == CountsAreItsOwn /\ CallerCountsAll

\* The stack of records follows the stack of calls: a hook in progress finds
\* its own record on top, and nothing is left when the last one returns.
StackFollowsCalls ==
  /\ frames = <<>> => stack = <<>> /\ ~reporting
  /\ InFlight /\ Head(frames).at # "reporting" => Top(stack) = Head(frames).record
==============================================================================
