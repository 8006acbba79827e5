--------------------------- MODULE AiContextStream ---------------------------
(***************************************************************************)
(* openStream of the AI-context boundary: one staged stream over one       *)
(* incremental core session, an optional cancellation signal, and the      *)
(* host's callbacks.  All of it is one JavaScript thread, so the host runs *)
(* only between two calls of the stream or inside a callback a call makes: *)
(* onFinding, once per finding while a result is recorded, or the core's   *)
(* policy, while the core works.  `calls` is the stack of calls in         *)
(* progress, innermost first.                                              *)
(*                                                                         *)
(* A core result is its number in the order the core returned it, how many *)
(* findings it reports and whether one of them blocks; its text is that    *)
(* number.                                                                 *)
(***************************************************************************)
EXTENDS Sequences, OperationBudget

CONSTANTS
  Callback,      \* what onFinding does to the stream it reports about: a subset of HostOps
  PolicyOps,     \* what the core's policy does: a subset of {"abort", "cancel"}
  SignalKinds,   \* the signals a host passes, a subset of AllSignalKinds
  MaxAppends,    \* bound: append calls
  MaxFinalizes,  \* bound: finalize calls
  MaxPerResult   \* bound: findings in one core result

HostOps == {"append", "finalize", "abort", "cancel"}

\* No signal; a real AbortSignal; one that is only polled (no listener, or one
\* that throws, or one whose `aborted` cannot be read, which counts as TRUE).
AllSignalKinds == {"absent", "events", "polled"}

ASSUME StreamAssumption ==
  /\ Callback \subseteq HostOps
  /\ PolicyOps \subseteq {"abort", "cancel"}
  /\ SignalKinds \subseteq AllSignalKinds
  /\ MaxAppends \in Nat /\ MaxFinalizes \in Nat /\ MaxPerResult \in Nat

VARIABLES
  stream,     \* the variables openStream closes over
  signal,     \* the kind of signal passed
  aborted,    \* what the signal says when polled
  calls,      \* the calls in progress, innermost first
  core,       \* the results of the core session that were recorded, in order
  emitted,    \* the findings handed to onFinding, in order
  answers,    \* what the finalize calls returned, in order
  made        \* how many append and finalize calls the host made

vars == <<stream, signal, aborted, calls, core, emitted, answers, made>>

CoreFailures == {"limit_exceeded", "lifecycle", "core_error"}

Refusals == {"aborted", "policy", "unsupported_value"} \cup CoreFailures

Finding == (Nat \ {0}) \X (Nat \ {0})

Stream ==
  [session : {"unopened", "absent", "open", "ended"},
   terminal : Refusals \cup {"none"},
   finalized : BOOLEAN,
   listening : BOOLEAN,             \* onAbort is attached to the signal
   staged : Seq(Nat \ {0}),
   findings : Seq(Finding),
   budget : Budget]

\* A call is inside the core, or is recording the core's result and has
\* handed its first `at` findings to onFinding, the last of which still runs.
Call == [op : {"append", "finalize"}, stage : {"core", "emit"}, result : Nat, at : Nat]

Result == [findings : 0 .. MaxPerResult, blocks : BOOLEAN]

Answer == [outcome : Refusals \cup {"ok"}, text : Seq(Nat \ {0}), findings : Seq(Finding)]

-----------------------------------------------------------------------------
(* The stream's own code: each operator gives the stream after it.         *)

\* BUG: the failed stream keeps its core session.
Failed_keepsSession(s, reason) ==
  [s EXCEPT !.terminal = IF @ = "none" THEN reason ELSE @,
            !.staged = <<>>, !.findings = <<>>, !.listening = FALSE]

\* BUG: a later failure replaces the first one.
Failed_lastWins(s, reason) ==
  [s EXCEPT !.terminal = reason, !.staged = <<>>, !.findings = <<>>, !.listening = FALSE,
            !.session = IF @ = "open" THEN "ended" ELSE @]

\* fail: the first failure decides; everything staged goes, the listener and
\* the core session with it.
Failed(s, reason) ==
  [s EXCEPT !.terminal = IF @ = "none" THEN reason ELSE @,
            !.staged = <<>>, !.findings = <<>>, !.listening = FALSE,
            !.session = IF @ = "open" THEN "ended" ELSE @]

FindingsOf(r) == [i \in 1 .. core[r].findings |-> <<r, i>>]

Staged(s, r) == [s EXCEPT !.staged = Append(@, r), !.findings = @ \o FindingsOf(r)]

\* The tail of record, after the findings have been emitted.
Recorded(s, r) == IF core[r].blocks THEN Failed(Staged(s, r), "policy") ELSE Staged(s, r)

\* BUG: what was staged is the answer even when the stream failed.
AnswerOf_ignoresFailure(s) == [outcome |-> "ok", text |-> s.staged, findings |-> s.findings]

AnswerOf(s) ==
  IF s.terminal = "none"
  THEN [outcome |-> "ok", text |-> s.staged, findings |-> s.findings]
  ELSE [outcome |-> s.terminal, text |-> <<>>, findings |-> <<>>]

\* The tail of finalize: detach and, when the answer is ok, forget what it took.
Settled(s) ==
  LET detached == [s EXCEPT !.listening = FALSE]
  IN  IF s.terminal = "none"
      THEN [detached EXCEPT !.staged = <<>>, !.findings = <<>>]
      ELSE detached

\* BUG: appends are still taken once the stream has failed.
Accepting_untilFinalized(s) == ~s.finalized

Accepting(s) == ~s.finalized /\ s.terminal = "none"

\* BUG: a result is recorded without being charged.
Affords_always(n) == TRUE

\* streamBudget.chargeFindings
Affords(n) == Fits(stream.budget, "findings", n)

-----------------------------------------------------------------------------
(* Who may run.                                                            *)

CoreCall(op) == [op |-> op, stage |-> "core", result |-> 0, at |-> 0]

EmitCall(op, r, at) == [op |-> op, stage |-> "emit", result |-> r, at |-> at]

\* Host code runs between the stream's calls, or inside onFinding.
InOnFinding == calls # <<>> /\ Head(calls).stage = "emit" /\ Head(calls).at > 0

InPolicy == calls # <<>> /\ Head(calls).stage = "core"

HostMay(op) ==
  /\ stream.session # "unopened"
  /\ calls = <<>> \/ (InOnFinding /\ op \in Callback)

\* A policy may cancel or abort; it does not re-enter the session that is
\* calling it.
HostMayCancel(op) == HostMay(op) \/ (InPolicy /\ op \in PolicyOps)

-----------------------------------------------------------------------------
(* The host's operations.                                                  *)

\* openStream: an aborted signal refuses before any session exists, a core
\* that cannot open one fails the stream, else onAbort joins the signal.
OpenStream ==
  /\ stream.session = "unopened"
  /\ LET absent == [stream EXCEPT !.session = "absent"]
     IN  \/ aborted /\ stream' = Failed(absent, "aborted")
         \/ ~aborted /\ \E reason \in CoreFailures : stream' = Failed(absent, reason)
         \/ ~aborted /\ stream' = [stream EXCEPT !.session = "open",
                                                 !.listening = (signal = "events")]
  /\ UNCHANGED <<signal, aborted, calls, core, emitted, answers, made>>

\* append of a chunk, up to the call of the core.  A stream that does not
\* accept returns at once and nothing changes.
Append_(isString) ==
  /\ HostMay("append") /\ made.append < MaxAppends
  /\ Accepting(stream)
  /\ made' = [made EXCEPT !.append = @ + 1]
  /\ IF aborted \/ ~isString
     THEN /\ stream' = Failed(stream, IF aborted THEN "aborted" ELSE "unsupported_value")
          /\ UNCHANGED calls
     ELSE calls' = <<CoreCall("append")>> \o calls /\ UNCHANGED stream
  /\ UNCHANGED <<signal, aborted, core, emitted, answers>>

\* BUG: a second finalize repeats the first answer.
FinalizedAnswer_again == AnswerOf(stream)

FinalizedAnswer == [outcome |-> "lifecycle", text |-> <<>>, findings |-> <<>>]

\* finalize, up to the call of the core or to its answer when there is none.
Finalize ==
  /\ HostMay("finalize") /\ made.finalize < MaxFinalizes
  /\ made' = [made EXCEPT !.finalize = @ + 1]
  /\ LET begun  == [stream EXCEPT !.finalized = TRUE]
         polled == IF aborted THEN Failed(begun, "aborted") ELSE begun
     IN  IF stream.finalized
         THEN /\ answers' = Append(answers, FinalizedAnswer)
              /\ UNCHANGED <<stream, calls>>
         ELSE IF polled.terminal # "none"
              THEN /\ stream' = Settled(polled)
                   /\ answers' = Append(answers, AnswerOf(polled))
                   /\ UNCHANGED calls
              ELSE /\ stream' = begun
                   /\ calls' = <<CoreCall("finalize")>> \o calls
                   /\ UNCHANGED answers
  /\ UNCHANGED <<signal, aborted, core, emitted>>

\* abort(): nothing once finalized.
Abort ==
  /\ HostMayCancel("abort")
  /\ ~stream.finalized
  /\ stream' = Failed(stream, "aborted")
  /\ UNCHANGED <<signal, aborted, calls, core, emitted, answers, made>>

\* The host aborts the signal: the listener, if attached, runs at once, and
\* once; it does nothing to a finalized stream.
Cancel ==
  /\ signal # "absent" /\ ~aborted
  /\ stream.session = "unopened" \/ HostMayCancel("cancel")
  /\ aborted' = TRUE
  /\ stream' = IF ~stream.listening THEN stream
               ELSE IF stream.finalized THEN [stream EXCEPT !.listening = FALSE]
               ELSE Failed(stream, "aborted")
  /\ UNCHANGED <<signal, calls, core, emitted, answers, made>>

-----------------------------------------------------------------------------
(* The rest of a call in progress.                                         *)

\* The innermost call returns with the stream as `s`; a finalize answers.
Return(s) ==
  /\ calls' = Tail(calls)
  /\ IF Head(calls).op = "append"
     THEN stream' = s /\ UNCHANGED answers
     ELSE stream' = Settled(s) /\ answers' = Append(answers, AnswerOf(s))

\* The core throws, or answers with something that is no result.
CoreFails ==
  /\ InPolicy
  /\ \E reason \in CoreFailures : Return(Failed(stream, reason))
  /\ UNCHANGED <<signal, aborted, core, emitted, made>>

\* The core session after a call of it returned normally.
SessionAfter(op) == IF op = "finalize" /\ stream.session = "open" THEN "ended" ELSE stream.session

\* The core returns a result, which is charged before anything else.
CoreReturns ==
  /\ InPolicy
  /\ \E r \in Result :
       LET charged == [stream EXCEPT !.session = SessionAfter(Head(calls).op),
                                     !.budget = Charged(@, "findings", r.findings)]
       IN  /\ r.blocks => r.findings > 0
           /\ IF Affords(r.findings)
              THEN /\ core' = Append(core, r)
                   /\ stream' = charged
                   /\ calls' = <<EmitCall(Head(calls).op, Len(core) + 1, 0)>> \o Tail(calls)
                   /\ UNCHANGED answers
              ELSE Return(Failed(charged, "limit_exceeded")) /\ UNCHANGED core
  /\ UNCHANGED <<signal, aborted, emitted, made>>

MoreToEmit(call) == call.at < core[call.result].findings

\* onFinding is called with the next finding; the host runs inside it until
\* the next step of this call.
EmitFinding ==
  /\ calls # <<>> /\ Head(calls).stage = "emit"
  /\ MoreToEmit(Head(calls))
  /\ emitted' = Append(emitted, <<Head(calls).result, Head(calls).at + 1>>)
  /\ calls' = <<EmitCall(Head(calls).op, Head(calls).result, Head(calls).at + 1)>> \o Tail(calls)
  /\ UNCHANGED <<stream, signal, aborted, core, answers, made>>

\* Every finding has been emitted: the result is staged and the call returns.
RecordResult ==
  /\ calls # <<>> /\ Head(calls).stage = "emit"
  /\ ~MoreToEmit(Head(calls))
  /\ Return(Recorded(stream, Head(calls).result))
  /\ UNCHANGED <<signal, aborted, core, emitted, made>>

-----------------------------------------------------------------------------
Init ==
  /\ stream = [session |-> "unopened", terminal |-> "none", finalized |-> FALSE,
               listening |-> FALSE, staged |-> <<>>, findings |-> <<>>, budget |-> FreshBudget]
  /\ signal \in SignalKinds
  /\ aborted = FALSE
  /\ calls = <<>> /\ core = <<>> /\ emitted = <<>> /\ answers = <<>>
  /\ made = [append |-> 0, finalize |-> 0]

HostStep == OpenStream \/ (\E isString \in BOOLEAN : Append_(isString)) \/ Finalize \/ Abort \/ Cancel

StreamStep == CoreFails \/ CoreReturns \/ EmitFinding \/ RecordResult

Next == HostStep \/ StreamStep

Spec == Init /\ [][Next]_vars

-----------------------------------------------------------------------------
(* Properties.                                                             *)

EmitsItsResult(call) ==
  call.stage = "emit" =>
    call.result \in DOMAIN core /\ call.at <= core[call.result].findings

\* Every variable stays in its type, and a call never claims to have emitted
\* more findings than its result reports (the loop of emit).
TypeOK ==
  /\ stream \in Stream
  /\ signal \in SignalKinds
  /\ aborted \in BOOLEAN
  /\ calls \in Seq(Call)
  /\ core \in Seq(Result)
  /\ emitted \in Seq(Finding)
  /\ answers \in Seq(Answer)
  /\ made \in [{"append", "finalize"} -> Nat]
  /\ \A i \in DOMAIN calls : EmitsItsResult(calls[i])

Releases == {i \in DOMAIN answers : answers[i].outcome = "ok"}

\* finalize releases at most once, however many finalize calls the host makes
\* and from wherever it makes them.
AtMostOneRelease == \A i, j \in Releases : i = j

\* What the variables openStream closes over say of each other: an open session
\* has not failed, a failed stream does not listen, and a session is only given
\* up by a failure or by finalize.
Coherent(s) ==
  /\ s.session = "open" => s.terminal = "none"
  /\ s.terminal # "none" => ~s.listening
  /\ s.session \in {"absent", "ended"} => s.terminal # "none" \/ s.finalized
  /\ s.session = "unopened" => s.terminal = "none" /\ ~s.finalized /\ ~s.listening

\* While a finalized stream still holds the session or the listener, finalize is
\* the innermost call: nothing the callbacks do gets in between.
FinalizeIsInnermost ==
  /\ stream.session = "unopened" => calls = <<>>
  /\ stream.finalized /\ stream.session = "open" =>
       calls # <<>> /\ Head(calls).op = "finalize" /\ Head(calls).stage = "core"
  /\ stream.finalized /\ stream.listening => calls # <<>> /\ Head(calls).op = "finalize"
  /\ \A i \in DOMAIN calls : calls[i].op = "finalize" => i = 1 /\ stream.finalized

\* The one release is the answer of the one finalize that reached the core, and
\* that call is over.
ReleasedOnce ==
  /\ AtMostOneRelease
  /\ Releases # {} => stream.finalized /\ (calls # <<>> => Head(calls).op # "finalize")

\* The inductive invariant behind the safety properties: the session, the
\* failure, the listener, the stack and the one release always agree.
StreamInv == Coherent(stream) /\ FinalizeIsInnermost /\ ReleasedOnce

\* Once a stream has failed the reason stands, and no finalize that answers
\* afterwards releases anything.
FailureIsFinal ==
  [][stream.terminal # "none" =>
       /\ stream'.terminal = stream.terminal
       /\ \A i \in DOMAIN answers' \ DOMAIN answers : answers'[i].outcome # "ok"]_vars

\* A stream that has failed, or has been finalized and has answered, holds
\* neither the core session nor the listener on the caller's signal.
EndedHoldsNothing ==
  (stream.session # "unopened" /\ ~Accepting(stream) /\ calls = <<>>) =>
    stream.session # "open" /\ ~stream.listening

\* The core session is only ever called while it is open: a call after its
\* end would raise INVALID_STATE and turn a finished stream into a failed one.
SessionCalledWhileOpen ==
  [][Len(calls') > Len(calls) => stream.session = "open"]_vars

\* No release carries more findings than the operation may accumulate.
ReleaseWithinBudget ==
  \A i \in Releases : Len(answers[i].findings) <= Limits["findings"]

\* A release is the text and the findings of every result the core returned,
\* in the order it returned them, and none of those results blocks.
ReleaseIsWhole ==
  \A i \in Releases :
    /\ answers[i].text = [r \in 1 .. Len(core) |-> r]
    /\ \A r \in DOMAIN core : ~core[r].blocks

\* onFinding saw exactly the findings the release lists, in the same order.
EventsMatchRelease ==
  \A i \in Releases : answers[i].findings = emitted

\* What a release hands over is what was scanned and what was reported.
ReleaseIsFaithful == ReleaseIsWhole /\ EventsMatchRelease

\* The stream keeps what StagedRelease promises.
Promise ==
  INSTANCE StagedRelease WITH
    phase   <- IF Releases # {} THEN "released"
               ELSE IF stream.terminal = "none" THEN "open" ELSE "refused",
    content <- IF Releases = {} /\ stream.terminal = "none" THEN stream.staged ELSE <<>>,
    output  <- IF Releases = {} THEN <<>> ELSE answers[CHOOSE i \in Releases : TRUE].text

KeepsPromise == Promise!StagedSpec

==============================================================================
