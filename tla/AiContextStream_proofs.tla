------------------------ MODULE AiContextStream_proofs ------------------------
(***************************************************************************)
(* What holds of a staged stream for every value of the constants: any     *)
(* number of calls, any findings limit, any signal, and callbacks that may *)
(* re-enter the stream in every way.                                       *)
(*                                                                         *)
(* And of the loop of sanitizeStreamedToolResult, which uses its stream as *)
(* any host may, so what is proved of the stream holds inside it: it never *)
(* returns while it still holds something, and it feeds the stream one     *)
(* chunk at a time, so `ok` is the whole output, in order, for every       *)
(* signal, limit and producer.                                             *)
(***************************************************************************)
EXTENDS McpStream, OperationBudget_proofs, SequenceTheorems, FiniteSetTheorems, TLAPS

-----------------------------------------------------------------------------
(* The stack of calls: pushing, popping and replacing its top.             *)

\* What a stack is after a call has been pushed on it.
LEMMA Push ==
  ASSUME NEW S, NEW s \in Seq(S), NEW e \in S
  PROVE  /\ <<e>> \o s \in Seq(S)
         /\ <<e>> \o s # <<>>
         /\ Len(<<e>> \o s) = Len(s) + 1
         /\ Head(<<e>> \o s) = e
         /\ \A i \in 1 .. Len(<<e>> \o s) : (<<e>> \o s)[i] = IF i = 1 THEN e ELSE s[i - 1]
<1>1. <<e>> \in Seq(S) /\ Len(<<e>>) = 1 /\ <<e>>[1] = e
  OBVIOUS
<1> DEFINE t == <<e>> \o s
<1>2. t \in Seq(S) /\ Len(t) = Len(s) + 1
  BY <1>1, ConcatProperties
<1>3. \A i \in 1 .. Len(t) : t[i] = IF i = 1 THEN e ELSE s[i - 1]
  BY <1>1, <1>2, ConcatProperties, LenProperties
<1>4. t # <<>>
  BY <1>2, EmptySeq, LenProperties
<1>5. Head(t) = e
  <2>1. Len(t) >= 1
    BY <1>2, LenProperties
  <2>2. Head(t) = t[1]
    BY <1>2, <1>4
  <2> QED
    BY <2>1, <2>2, <1>3, <1>2, LenProperties
<1> QED
  BY <1>2, <1>3, <1>4, <1>5

\* What a stack is after its innermost call has returned.
LEMMA Pop ==
  ASSUME NEW S, NEW s \in Seq(S), s # <<>>
  PROVE  /\ Head(s) \in S
         /\ Head(s) = s[1]
         /\ 1 \in DOMAIN s
         /\ Len(s) \in Nat \ {0}
         /\ Tail(s) \in Seq(S)
         /\ Len(Tail(s)) = Len(s) - 1
         /\ \A i \in DOMAIN Tail(s) : i + 1 \in DOMAIN s /\ Tail(s)[i] = s[i + 1]
<1>1. Len(s) \in Nat \ {0} /\ DOMAIN s = 1 .. Len(s)
  BY EmptySeq, LenProperties
<1>2. /\ Head(s) \in S /\ Tail(s) \in Seq(S) /\ Len(Tail(s)) = Len(s) - 1
      /\ \A i \in 1 .. Len(Tail(s)) : Tail(s)[i] = s[i + 1]
  BY HeadTailProperties
<1>3. DOMAIN Tail(s) = 1 .. Len(Tail(s))
  BY <1>2, LenProperties
<1>4. Head(s) = s[1]
  BY <1>1
<1> QED
  BY <1>1, <1>2, <1>3, <1>4

\* Appending keeps a sequence's type and its earlier elements.
LEMMA AppendFacts ==
  ASSUME NEW S, NEW s \in Seq(S), NEW e \in S
  PROVE  /\ Append(s, e) \in Seq(S)
         /\ Len(Append(s, e)) = Len(s) + 1
         /\ DOMAIN Append(s, e) = 1 .. Len(s) + 1
         /\ DOMAIN s = 1 .. Len(s)
         /\ \A i \in 1 .. Len(s) + 1 : Append(s, e)[i] = IF i <= Len(s) THEN s[i] ELSE e
  BY LenProperties

-----------------------------------------------------------------------------
(* What each operator of the stream gives back is a stream again.          *)

\* fail leaves a stream that has failed and holds no session and no listener.
LEMMA FailedType ==
  ASSUME NEW s \in Stream, NEW reason \in Refusals
  PROVE  /\ Failed(s, reason) \in Stream
         /\ Failed(s, reason).terminal # "none"
         /\ Failed(s, reason).session # "open"
         /\ ~Failed(s, reason).listening
         /\ Failed(s, reason).finalized = s.finalized
         /\ s.terminal # "none" => Failed(s, reason).terminal = s.terminal
         /\ s.session # "unopened" => Failed(s, reason).session # "unopened"
<1> DEFINE f == Failed(s, reason)
<1>1. DOMAIN s = {"session", "terminal", "finalized", "listening", "staged", "findings", "budget"}
  BY DEF Stream
<1>2. /\ f.terminal = IF s.terminal = "none" THEN reason ELSE s.terminal
      /\ f.session = IF s.session = "open" THEN "ended" ELSE s.session
      /\ f.staged = <<>> /\ f.findings = <<>> /\ f.budget = s.budget
  BY <1>1 DEF Failed
<1>3. f.listening = FALSE /\ f.finalized = s.finalized
  BY <1>1 DEF Failed
<1>4. f \in Stream
  BY EmptySeq DEF Failed, Stream, Refusals
<1>5. reason # "none"
  BY DEF Refusals, CoreFailures
<1> HIDE DEF f
<1>6. /\ f.terminal # "none" /\ f.session # "open"
      /\ s.terminal # "none" => f.terminal = s.terminal
      /\ s.session # "unopened" => f.session # "unopened"
  BY <1>2, <1>5
<1> QED
  BY <1>3, <1>4, <1>6 DEF f

\* Staging a result of the core leaves a stream.
LEMMA StagedType ==
  ASSUME NEW s \in Stream, core \in Seq(Result), NEW r \in DOMAIN core
  PROVE  /\ Staged(s, r) \in Stream
         /\ \A f \in {"session", "terminal", "finalized", "listening"} : Staged(s, r)[f] = s[f]
<1>1. r \in Nat \ {0} /\ core[r] \in Result
  BY LenProperties, ElementOfSeq
<1>2. core[r].findings \in Nat
  BY <1>1, StreamAssumption DEF Result
<1>3. FindingsOf(r) \in Seq(Finding)
  <2>1. FindingsOf(r) \in [1 .. core[r].findings -> Finding]
    BY <1>1, <1>2 DEF FindingsOf, Finding
  <2> QED
    BY <2>1, <1>2, SeqDef
<1>4. s.findings \o FindingsOf(r) \in Seq(Finding)
  BY <1>3, ConcatProperties DEF Stream
<1>5. Append(s.staged, r) \in Seq(Nat \ {0})
  BY <1>1, AppendFacts DEF Stream
<1> QED
  BY <1>4, <1>5 DEF Staged, Stream

\* The tail of record leaves a stream.
LEMMA RecordedType ==
  ASSUME NEW s \in Stream, core \in Seq(Result), NEW r \in DOMAIN core
  PROVE  /\ Recorded(s, r) \in Stream
         /\ Recorded(s, r).finalized = s.finalized
         /\ \/ /\ Recorded(s, r).session = s.session
               /\ Recorded(s, r).terminal = s.terminal
               /\ Recorded(s, r).listening = s.listening
            \/ /\ Recorded(s, r).session # "open"
               /\ Recorded(s, r).terminal # "none"
               /\ ~Recorded(s, r).listening
         /\ s.terminal # "none" => Recorded(s, r).terminal = s.terminal
         /\ s.session # "unopened" => Recorded(s, r).session # "unopened"
<1>1. Staged(s, r) \in Stream /\ \A f \in {"session", "terminal", "finalized", "listening"} : Staged(s, r)[f] = s[f]
  BY StagedType
<1>2. "policy" \in Refusals
  BY DEF Refusals
<1>3. CASE core[r].blocks
  <2>1. Recorded(s, r) = Failed(Staged(s, r), "policy")
    BY <1>3 DEF Recorded
  <2> QED
    BY <2>1, <1>1, <1>2, FailedType
<1>4. CASE ~core[r].blocks
  <2>1. Recorded(s, r) = Staged(s, r)
    BY <1>4 DEF Recorded
  <2> QED
    BY <2>1, <1>1
<1> QED
  BY <1>3, <1>4

\* The tail of finalize leaves a stream that does not listen.
LEMMA SettledType ==
  ASSUME NEW s \in Stream
  PROVE  /\ Settled(s) \in Stream
         /\ ~Settled(s).listening
         /\ \A f \in {"session", "terminal", "finalized"} : Settled(s)[f] = s[f]
<1>1. DOMAIN s = {"session", "terminal", "finalized", "listening", "staged", "findings", "budget"}
  BY DEF Stream
<1>2. \A f \in {"session", "terminal", "finalized"} : Settled(s)[f] = s[f]
  BY <1>1 DEF Settled
<1>3. Settled(s) \in Stream
  BY EmptySeq DEF Settled, Stream
<1>4. Settled(s).listening = FALSE
  BY <1>1 DEF Settled
<1> QED
  BY <1>2, <1>3, <1>4

\* finalize's outcome is an answer, and it is ok only for a stream that has not failed.
LEMMA AnswerType ==
  ASSUME NEW s \in Stream
  PROVE  /\ AnswerOf(s) \in Answer
         /\ AnswerOf(s).outcome = "ok" <=> s.terminal = "none"
  BY DEF AnswerOf, Stream, Answer, Refusals, CoreFailures

\* A second finalize gives an answer, and never a release.
LEMMA FinalizedAnswerType == FinalizedAnswer \in Answer /\ FinalizedAnswer.outcome # "ok"
  BY DEF FinalizedAnswer, Answer, Refusals, CoreFailures

-----------------------------------------------------------------------------
(* Type correctness.                                                       *)

\* A call that returns with a stream leaves a stream, an answer and a stack.
LEMMA ReturnType ==
  ASSUME TypeOK, calls # <<>>, NEW s \in Stream, Return(s)
  PROVE  /\ stream' \in Stream
         /\ answers' \in Seq(Answer)
         /\ calls' \in Seq(Call)
         /\ \A i \in DOMAIN calls' : EmitsItsResult(calls'[i])
<1>1. calls' = Tail(calls) /\ calls \in Seq(Call)
  BY DEF Return, TypeOK
<1>2. calls' \in Seq(Call) /\ \A i \in DOMAIN calls' : EmitsItsResult(calls'[i])
  BY <1>1, Pop DEF TypeOK
<1>3. CASE Head(calls).op = "append"
  BY <1>2, <1>3 DEF Return, TypeOK
<1>4. CASE Head(calls).op # "append"
  <2>1. stream' = Settled(s) /\ answers' = Append(answers, AnswerOf(s))
    BY <1>4 DEF Return
  <2>2. AnswerOf(s) \in Answer /\ answers \in Seq(Answer)
    BY AnswerType DEF TypeOK
  <2> QED
    BY <1>2, <2>1, <2>2, SettledType, AppendFacts
<1> QED
  BY <1>3, <1>4

\* The call of the core that append and finalize push on the stack.
LEMMA PushCore ==
  ASSUME TypeOK, NEW op \in {"append", "finalize"}, calls' = <<CoreCall(op)>> \o calls
  PROVE  /\ calls' \in Seq(Call)
         /\ calls' # <<>>
         /\ Len(calls') = Len(calls) + 1
         /\ Head(calls') = CoreCall(op)
         /\ \A i \in DOMAIN calls' : calls'[i] = IF i = 1 THEN CoreCall(op) ELSE calls[i - 1]
         /\ \A i \in DOMAIN calls' : EmitsItsResult(calls'[i])
<1>1. CoreCall(op) \in Call /\ EmitsItsResult(CoreCall(op))
  BY DEF CoreCall, Call, EmitsItsResult
<1>2. calls \in Seq(Call)
  BY DEF TypeOK
<1>3. /\ calls' \in Seq(Call) /\ calls' # <<>> /\ Len(calls') = Len(calls) + 1
      /\ Head(calls') = CoreCall(op)
      /\ \A i \in 1 .. Len(calls') : calls'[i] = IF i = 1 THEN CoreCall(op) ELSE calls[i - 1]
  BY <1>1, <1>2, Push
<1>4. DOMAIN calls' = 1 .. Len(calls') /\ DOMAIN calls = 1 .. Len(calls) /\ Len(calls) \in Nat
  BY <1>2, <1>3, LenProperties
<1>5. ASSUME NEW i \in DOMAIN calls' PROVE EmitsItsResult(calls'[i])
  <2>1. CASE i = 1
    BY <1>1, <1>3, <1>4, <2>1
  <2>2. CASE i # 1
    BY <1>3, <1>4, <2>2 DEF TypeOK
  <2> QED
    BY <2>1, <2>2
<1> QED
  BY <1>3, <1>4, <1>5

\* Replacing the innermost call.
LEMMA Replace ==
  ASSUME TypeOK, calls # <<>>, NEW call \in Call, calls' = <<call>> \o Tail(calls)
  PROVE  /\ calls' \in Seq(Call)
         /\ calls' # <<>>
         /\ Len(calls') = Len(calls)
         /\ Head(calls') = call
         /\ DOMAIN calls' = DOMAIN calls
         /\ \A i \in DOMAIN calls' : calls'[i] = IF i = 1 THEN call ELSE calls[i]
<1>1. calls \in Seq(Call)
  BY DEF TypeOK
<1>2. /\ Tail(calls) \in Seq(Call) /\ Len(calls) \in Nat \ {0} /\ Len(Tail(calls)) = Len(calls) - 1
      /\ \A i \in DOMAIN Tail(calls) : Tail(calls)[i] = calls[i + 1]
  BY <1>1, Pop
<1>3. /\ calls' \in Seq(Call) /\ calls' # <<>> /\ Len(calls') = Len(Tail(calls)) + 1
      /\ Head(calls') = call
      /\ \A i \in 1 .. Len(calls') : calls'[i] = IF i = 1 THEN call ELSE Tail(calls)[i - 1]
  BY <1>2, Push
<1>4. /\ DOMAIN calls' = 1 .. Len(calls') /\ DOMAIN calls = 1 .. Len(calls)
      /\ DOMAIN Tail(calls) = 1 .. Len(Tail(calls))
  BY <1>1, <1>2, <1>3, LenProperties
<1>5. ASSUME NEW i \in DOMAIN calls' PROVE calls'[i] = IF i = 1 THEN call ELSE calls[i]
  <2>1. CASE i = 1
    BY <1>3, <1>4, <2>1
  <2>2. CASE i # 1
    <3>1. i - 1 \in DOMAIN Tail(calls)
      BY <1>2, <1>3, <1>4, <2>2
    <3> QED
      BY <1>2, <1>3, <1>4, <2>2, <3>1
  <2> QED
    BY <2>1, <2>2
<1> QED
  BY <1>2, <1>3, <1>4, <1>5

\* Charging a result keeps the stream a stream.
LEMMA ChargedStreamType ==
  ASSUME NEW s \in Stream, NEW r \in Result, NEW session \in {"unopened", "absent", "open", "ended"}
  PROVE  [s EXCEPT !.session = session, !.budget = Charged(@, "findings", r.findings)] \in Stream
<1>1. r.findings \in Nat
  BY StreamAssumption DEF Result
<1>2. Charged(s.budget, "findings", r.findings) \in Budget
  BY <1>1, ChargedMeter DEF Stream, Meters
<1> QED
  BY <1>2 DEF Stream

\* TypeOK holds initially.
LEMMA InitType == Init => TypeOK
<1> SUFFICES ASSUME Init PROVE TypeOK
  OBVIOUS
<1>1. FreshBudget \in Budget
  BY DEF FreshBudget, Budget
<1>2. stream \in Stream
  BY <1>1, EmptySeq DEF Init, Stream
<1>3. /\ calls \in Seq(Call) /\ core \in Seq(Result)
      /\ emitted \in Seq(Finding) /\ answers \in Seq(Answer)
  BY EmptySeq DEF Init
<1>4. DOMAIN calls = {}
  BY <1>3, EmptySeq, LenProperties DEF Init
<1>5. made \in [{"append", "finalize"} -> Nat]
  BY DEF Init
<1> QED
  BY <1>2, <1>3, <1>4, <1>5 DEF Init, TypeOK

\* Every step keeps TypeOK.
LEMMA NextType == TypeOK /\ [Next]_vars => TypeOK'
<1> SUFFICES ASSUME TypeOK, [Next]_vars PROVE TypeOK'
  OBVIOUS
<1> DEFINE Emits == \A i \in DOMAIN calls' : EmitsItsResult(calls'[i])
<1>0. /\ stream \in Stream /\ calls \in Seq(Call) /\ core \in Seq(Result)
      /\ emitted \in Seq(Finding) /\ answers \in Seq(Answer)
      /\ aborted \in BOOLEAN /\ signal \in SignalKinds
      /\ made \in [{"append", "finalize"} -> Nat]
      /\ \A i \in DOMAIN calls : EmitsItsResult(calls[i])
  BY DEF TypeOK
<1>a. "aborted" \in Refusals /\ "unsupported_value" \in Refusals /\ CoreFailures \subseteq Refusals
      /\ "limit_exceeded" \in CoreFailures
  BY DEF Refusals, CoreFailures
<1>c. made \in [{"append", "finalize"} -> Nat]
  BY DEF TypeOK
<1>b. ASSUME stream' \in Stream, answers' \in Seq(Answer), calls' \in Seq(Call), Emits,
             made' \in [{"append", "finalize"} -> Nat], emitted' \in Seq(Finding),
             UNCHANGED <<signal, core>>, aborted' \in BOOLEAN
      PROVE  TypeOK'
  BY <1>0, <1>b DEF TypeOK, EmitsItsResult
<1>1. CASE OpenStream
  <2>1. [stream EXCEPT !.session = "absent"] \in Stream
    BY <1>0 DEF Stream
  <2>2. [stream EXCEPT !.session = "open", !.listening = (signal = "events")] \in Stream
    BY <1>0 DEF Stream
  <2>3. stream' \in Stream
    BY <1>1, <1>a, <2>1, <2>2, FailedType DEF OpenStream
  <2> QED
    BY <1>0, <1>1, <1>b, <2>3 DEF OpenStream
<1>2. ASSUME NEW isString \in BOOLEAN, Append_(isString) PROVE TypeOK'
  <2>1. made' \in [{"append", "finalize"} -> Nat]
    BY <1>c, <1>2 DEF Append_
  <2>2. CASE aborted \/ ~isString
    <3>1. stream' \in Stream
      BY <1>0, <1>2, <1>a, <2>2, FailedType DEF Append_
    <3> QED
      BY <1>0, <1>2, <1>b, <2>1, <2>2, <3>1 DEF Append_
  <2>3. CASE ~(aborted \/ ~isString)
    <3>1. calls' = <<CoreCall("append")>> \o calls
      BY <1>2, <2>3 DEF Append_
    <3>2. calls' \in Seq(Call) /\ Emits
      BY <1>0, <3>1, PushCore
    <3> QED
      BY <1>0, <1>2, <1>b, <2>1, <2>3, <3>2 DEF Append_
  <2> QED
    BY <2>2, <2>3
<1>3. CASE Finalize
  <2> DEFINE begun  == [stream EXCEPT !.finalized = TRUE]
             polled == IF aborted THEN Failed(begun, "aborted") ELSE begun
  <2>1. made' \in [{"append", "finalize"} -> Nat]
    BY <1>c, <1>3 DEF Finalize
  <2>2. begun \in Stream
    BY <1>0 DEF Stream
  <2>3. polled \in Stream
    BY <2>2, <1>a, FailedType
  <2>4. CASE stream.finalized
    <3>1. /\ answers' = Append(answers, FinalizedAnswer)
          /\ UNCHANGED <<stream, calls, signal, aborted, core, emitted>>
      BY <1>3, <2>4 DEF Finalize
    <3>2. answers' \in Seq(Answer)
      BY <1>0, <3>1, FinalizedAnswerType, AppendFacts
    <3> QED
      BY <1>0, <1>b, <2>1, <3>1, <3>2
  <2>5. CASE ~stream.finalized /\ polled.terminal # "none"
    <3>1. Settled(polled) \in Stream /\ Append(answers, AnswerOf(polled)) \in Seq(Answer)
      BY <1>0, <2>3, SettledType, AnswerType, AppendFacts
    <3> QED
      BY <1>0, <1>3, <1>b, <2>1, <2>5, <3>1 DEF Finalize
  <2>6. CASE ~stream.finalized /\ polled.terminal = "none"
    <3>1. calls' = <<CoreCall("finalize")>> \o calls /\ stream' = begun /\ answers' = answers
      BY <1>3, <2>6 DEF Finalize
    <3>2. calls' \in Seq(Call) /\ Emits
      BY <1>0, <3>1, PushCore
    <3> QED
      BY <1>0, <1>3, <1>b, <2>1, <2>2, <3>1, <3>2 DEF Finalize
  <2> QED
    BY <2>4, <2>5, <2>6
<1>4. CASE Abort
  BY <1>0, <1>4, <1>a, <1>b, FailedType DEF Abort
<1>5. CASE Cancel
  <2>1. [stream EXCEPT !.listening = FALSE] \in Stream
    BY <1>0 DEF Stream
  <2>2. stream' \in Stream
    BY <1>0, <1>5, <1>a, <2>1, FailedType DEF Cancel
  <2> QED
    BY <1>0, <1>5, <1>b, <2>2 DEF Cancel
<1>6. CASE CoreFails
  <2>1. PICK reason \in CoreFailures : Return(Failed(stream, reason))
    BY <1>6 DEF CoreFails
  <2>2. calls # <<>> /\ Failed(stream, reason) \in Stream
    BY <1>0, <1>6, <1>a, FailedType DEF CoreFails, InPolicy
  <2>3. stream' \in Stream /\ answers' \in Seq(Answer) /\ calls' \in Seq(Call) /\ Emits
    BY <2>1, <2>2, ReturnType
  <2> QED
    BY <1>0, <1>6, <1>b, <2>3 DEF CoreFails
<1>7. CASE CoreReturns
  <2> DEFINE charged(r) == [stream EXCEPT !.session = SessionAfter(Head(calls).op),
                                          !.budget = Charged(@, "findings", r.findings)]
  <2>1. PICK r \in Result :
          IF Affords(r.findings)
          THEN /\ core' = Append(core, r)
               /\ stream' = charged(r)
               /\ calls' = <<EmitCall(Head(calls).op, Len(core) + 1, 0)>> \o Tail(calls)
               /\ UNCHANGED answers
          ELSE Return(Failed(charged(r), "limit_exceeded")) /\ UNCHANGED core
    BY <1>7, Zenon DEF CoreReturns
  <2>2. calls # <<>> /\ Head(calls).stage = "core"
    BY <1>7 DEF CoreReturns, InPolicy
  <2>3. Head(calls) \in Call /\ Tail(calls) \in Seq(Call)
    BY <1>0, <2>2, Pop
  <2>4. SessionAfter(Head(calls).op) \in {"unopened", "absent", "open", "ended"}
    BY <1>0 DEF SessionAfter, Stream
  <2>5. charged(r) \in Stream
    BY <1>0, <2>4, ChargedStreamType
  <2> HIDE DEF charged
  <2>6. CASE Affords(r.findings)
    <3> DEFINE call == EmitCall(Head(calls).op, Len(core) + 1, 0)
    <3>1. core' = Append(core, r) /\ stream' = charged(r) /\ calls' = <<call>> \o Tail(calls)
          /\ UNCHANGED <<answers, signal, aborted, emitted, made>>
      BY <1>7, <2>1, <2>6 DEF CoreReturns
    <3>2. core' \in Seq(Result) /\ \A c \in DOMAIN core : c \in DOMAIN core' /\ core'[c] = core[c]
      BY <1>0, <3>1, AppendFacts, LenProperties
    <3>3. Len(core) + 1 \in DOMAIN core' /\ core'[Len(core) + 1] = r /\ Len(core) \in Nat
      BY <1>0, <3>1, AppendFacts, LenProperties
    <3>4. call \in Call /\ call.result = Len(core) + 1 /\ call.at = 0
      BY <2>3, <3>3 DEF Call, EmitCall
    <3>5. r.findings \in Nat
      BY StreamAssumption DEF Result
    <3> HIDE DEF call
    <3>6. calls' \in Seq(Call) /\ DOMAIN calls' = DOMAIN calls
          /\ \A i \in DOMAIN calls' : calls'[i] = IF i = 1 THEN call ELSE calls[i]
      BY <2>2, <3>1, <3>4, Replace
    <3>7. \A i \in DOMAIN calls : calls[i].stage = "emit" =>
             calls[i].result \in DOMAIN core' /\ calls[i].at <= core'[calls[i].result].findings
      BY <1>0, <3>2 DEF EmitsItsResult
    <3>8. \A i \in DOMAIN calls' : calls'[i].stage = "emit" =>
             calls'[i].result \in DOMAIN core' /\ calls'[i].at <= core'[calls'[i].result].findings
      BY <3>3, <3>4, <3>5, <3>6, <3>7
    <3> QED
      BY <1>0, <2>5, <3>1, <3>2, <3>6, <3>8 DEF TypeOK, EmitsItsResult
  <2>7. CASE ~Affords(r.findings)
    <3>1. Return(Failed(charged(r), "limit_exceeded")) /\ UNCHANGED <<core, signal, aborted, emitted, made>>
      BY <1>7, <2>1, <2>7 DEF CoreReturns
    <3>2. Failed(charged(r), "limit_exceeded") \in Stream
      BY <1>a, <2>5, FailedType
    <3>3. stream' \in Stream /\ answers' \in Seq(Answer) /\ calls' \in Seq(Call) /\ Emits
      BY <2>2, <3>1, <3>2, ReturnType
    <3> QED
      BY <1>0, <1>b, <3>1, <3>3
  <2> QED
    BY <2>6, <2>7
<1>8. CASE EmitFinding
  <2> DEFINE call == EmitCall(Head(calls).op, Head(calls).result, Head(calls).at + 1)
  <2>1. /\ calls # <<>> /\ Head(calls).stage = "emit" /\ MoreToEmit(Head(calls))
        /\ emitted' = Append(emitted, <<Head(calls).result, Head(calls).at + 1>>)
        /\ calls' = <<call>> \o Tail(calls)
        /\ UNCHANGED <<stream, signal, aborted, core, answers, made>>
    BY <1>8 DEF EmitFinding
  <2>2. Head(calls) \in Call /\ EmitsItsResult(Head(calls))
    BY <1>0, <2>1, Pop
  <2>3. Head(calls).result \in DOMAIN core /\ Head(calls).at \in Nat
        /\ Head(calls).at < core[Head(calls).result].findings
    BY <2>1, <2>2 DEF Call, EmitsItsResult, MoreToEmit
  <2>4. Head(calls).result \in Nat \ {0} /\ core[Head(calls).result].findings \in Nat
    <3>1. core[Head(calls).result] \in Result
      BY <1>0, <2>3, ElementOfSeq, LenProperties
    <3> QED
      BY <1>0, <2>3, <3>1, LenProperties, StreamAssumption DEF Result
  <2>5. call \in Call /\ EmitsItsResult(call)
    BY <2>2, <2>3, <2>4 DEF Call, EmitCall, EmitsItsResult
  <2>6. emitted' \in Seq(Finding)
    <3>1. <<Head(calls).result, Head(calls).at + 1>> \in Finding
      BY <2>3, <2>4 DEF Finding
    <3> QED
      BY <1>0, <2>1, <3>1, AppendFacts
  <2> HIDE DEF call
  <2>7. calls' \in Seq(Call) /\ Emits
    BY <1>0, <2>1, <2>5, Replace
  <2> QED
    BY <1>0, <1>b, <2>1, <2>6, <2>7
<1>9. CASE RecordResult
  <2>1. /\ calls # <<>> /\ Head(calls).stage = "emit"
        /\ Return(Recorded(stream, Head(calls).result))
        /\ UNCHANGED <<signal, aborted, core, emitted, made>>
    BY <1>9 DEF RecordResult
  <2>2. Head(calls).result \in DOMAIN core
    BY <1>0, <2>1, Pop DEF EmitsItsResult
  <2>3. Recorded(stream, Head(calls).result) \in Stream
    BY <1>0, <2>2, RecordedType
  <2>4. stream' \in Stream /\ answers' \in Seq(Answer) /\ calls' \in Seq(Call) /\ Emits
    BY <2>1, <2>3, ReturnType
  <2> QED
    BY <1>0, <1>b, <2>1, <2>4
<1>10. CASE UNCHANGED vars
  BY <1>0, <1>10, <1>b DEF vars
<1> QED
  BY <1>1, <1>2, <1>3, <1>4, <1>5, <1>6, <1>7, <1>8, <1>9, <1>10 DEF Next, HostStep, StreamStep

\* Every variable stays in its type, and no call emits more findings than its
\* result reports: TypeOK, for every limit, callback, signal and bound.
THEOREM TypeCorrect == Spec => []TypeOK
<1>1. Init => TypeOK
  BY InitType
<1>2. TypeOK /\ [Next]_vars => TypeOK'
  BY NextType
<1> QED
  BY <1>1, <1>2, PTL DEF Spec

-----------------------------------------------------------------------------
(* StreamInv: the session, the failure, the listener, the stack and the    *)
(* one release agree.                                                      *)

\* fail keeps the stream's variables coherent.
LEMMA FailedCoherent ==
  ASSUME NEW s \in Stream, Coherent(s), s.session # "unopened", NEW reason \in Refusals
  PROVE  Coherent(Failed(s, reason))
  BY FailedType DEF Coherent

\* record keeps the stream's variables coherent.
LEMMA RecordedCoherent ==
  ASSUME NEW s \in Stream, core \in Seq(Result), NEW r \in DOMAIN core,
         Coherent(s), s.session # "unopened"
  PROVE  Coherent(Recorded(s, r))
  BY RecordedType DEF Coherent

\* finalize's tail keeps the stream's variables coherent.
LEMMA SettledCoherent ==
  ASSUME NEW s \in Stream, Coherent(s), s.session # "unopened"
  PROVE  Coherent(Settled(s))
  BY SettledType DEF Coherent

\* One more answer is one more release exactly when it is ok.
LEMMA ReleasesAppend ==
  ASSUME TypeOK, NEW a \in Answer, answers' = Append(answers, a)
  PROVE  /\ a.outcome # "ok" => Releases' = Releases
         /\ a.outcome = "ok" => Releases' = Releases \cup {Len(answers) + 1}
<1>1. /\ DOMAIN answers' = 1 .. Len(answers) + 1 /\ DOMAIN answers = 1 .. Len(answers)
      /\ \A i \in 1 .. Len(answers) + 1 : answers'[i] = IF i <= Len(answers) THEN answers[i] ELSE a
  BY AppendFacts DEF TypeOK
<1>2. Len(answers) \in Nat
  BY LenProperties DEF TypeOK
<1> QED
  BY <1>1, <1>2 DEF Releases

\* The innermost call returns with a stream that a finalize left no session.
LEMMA ReturnInv ==
  ASSUME TypeOK, StreamInv, calls # <<>>, NEW s \in Stream, Return(s),
         Coherent(s), s.session # "unopened", s.finalized = stream.finalized,
         stream.finalized => s.session # "open",
         s.listening => stream.listening
  PROVE  StreamInv'
<1>1. /\ Head(calls) \in Call /\ Head(calls) = calls[1] /\ 1 \in DOMAIN calls
      /\ calls' = Tail(calls) /\ calls' \in Seq(Call)
      /\ \A i \in DOMAIN calls' : i + 1 \in DOMAIN calls /\ calls'[i] = calls[i + 1]
  BY Pop DEF TypeOK, Return
<1>2. DOMAIN calls' \subseteq Nat \ {0}
  BY <1>1, LenProperties
<1>3. \A i \in DOMAIN calls' : calls'[i].op # "finalize"
  BY <1>1, <1>2 DEF StreamInv, FinalizeIsInnermost
<1>4. calls' # <<>> => Head(calls').op # "finalize"
  BY <1>1, <1>3, Pop
<1>5. CASE Head(calls).op = "append"
  <2>1. stream' = s /\ answers' = answers
    BY <1>5 DEF Return
  <2>2. Coherent(stream')
    BY <2>1
  <2>3. FinalizeIsInnermost'
    BY <1>3, <1>5, <2>1 DEF StreamInv, FinalizeIsInnermost
  <2>4. ReleasedOnce'
    BY <1>4, <2>1 DEF StreamInv, ReleasedOnce, AtMostOneRelease, Releases
  <2> QED
    BY <2>2, <2>3, <2>4 DEF StreamInv, Coherent
<1>6. CASE Head(calls).op # "append"
  <2>1. stream' = Settled(s) /\ answers' = Append(answers, AnswerOf(s))
    BY <1>6 DEF Return
  <2>2. Head(calls).op = "finalize" /\ stream.finalized
    BY <1>1, <1>6 DEF Call, StreamInv, FinalizeIsInnermost
  <2>3. stream'.finalized /\ stream'.session # "open" /\ stream'.session # "unopened" /\ ~stream'.listening
    BY <2>1, <2>2, SettledType
  <2>4. Coherent(stream')
    BY <2>1, SettledCoherent
  <2>5. FinalizeIsInnermost'
    BY <1>3, <2>3 DEF FinalizeIsInnermost
  <2>6. Releases = {}
    BY <2>2 DEF StreamInv, ReleasedOnce
  <2>7. ReleasedOnce'
    BY <1>4, <2>1, <2>3, <2>6, AnswerType, ReleasesAppend DEF ReleasedOnce, AtMostOneRelease
  <2> QED
    BY <2>4, <2>5, <2>7 DEF StreamInv, Coherent
<1> QED
  BY <1>5, <1>6

\* A step of the host that leaves the stack and the answers alone, and changes
\* the stream by failing it or by detaching the listener, keeps the invariant.
LEMMA HostInv ==
  ASSUME TypeOK, StreamInv, UNCHANGED <<calls, answers>>,
         Coherent(stream'), stream'.session # "unopened", stream'.finalized = stream.finalized,
         stream'.session = "open" => stream.session = "open" \/ ~stream.finalized,
         stream'.listening => stream.listening \/ ~stream.finalized
  PROVE  StreamInv'
<1>1. FinalizeIsInnermost'
  BY DEF StreamInv, FinalizeIsInnermost
<1>2. ReleasedOnce'
  BY DEF StreamInv, ReleasedOnce, AtMostOneRelease, Releases
<1> QED
  BY <1>1, <1>2 DEF StreamInv, Coherent

\* No call is in progress, and no signal is listened to, before openStream.
LEMMA NotUnopened ==
  ASSUME StreamInv, NEW op, HostMayCancel(op)
  PROVE  stream.session # "unopened"
  BY DEF HostMayCancel, HostMay, InPolicy, StreamInv, FinalizeIsInnermost

\* The innermost call moves on and stays the same kind of call.
LEMMA ReplaceInv ==
  ASSUME TypeOK, StreamInv, calls # <<>>, NEW call \in Call, calls' = <<call>> \o Tail(calls),
         call.op = Head(calls).op, UNCHANGED answers,
         Coherent(stream'), stream'.session # "unopened", stream'.finalized = stream.finalized,
         stream'.finalized => stream'.session # "open", stream'.listening = stream.listening
  PROVE  StreamInv'
<1>1. /\ calls' # <<>> /\ Head(calls') = call /\ DOMAIN calls' = DOMAIN calls
      /\ \A i \in DOMAIN calls' : calls'[i] = IF i = 1 THEN call ELSE calls[i]
  BY Replace
<1>2. Head(calls) = calls[1] /\ 1 \in DOMAIN calls
  BY Pop DEF TypeOK
<1>3. \A i \in DOMAIN calls' : calls'[i].op = calls[i].op
  BY <1>1, <1>2
<1>4. FinalizeIsInnermost'
  BY <1>1, <1>3 DEF StreamInv, FinalizeIsInnermost
<1>5. ReleasedOnce'
  BY <1>1 DEF StreamInv, ReleasedOnce, AtMostOneRelease, Releases
<1> QED
  BY <1>4, <1>5 DEF StreamInv, Coherent

\* StreamInv holds initially.
LEMMA InitInv == Init => StreamInv
<1> SUFFICES ASSUME Init PROVE StreamInv
  OBVIOUS
<1>1. TypeOK
  BY InitType
<1>2. DOMAIN calls = {} /\ DOMAIN answers = {}
  BY <1>1, EmptySeq, LenProperties DEF Init, TypeOK
<1>3. Coherent(stream)
  BY DEF Init, Coherent
<1> QED
  BY <1>2, <1>3 DEF Init, StreamInv, FinalizeIsInnermost, ReleasedOnce, AtMostOneRelease, Releases

\* Every step keeps StreamInv.
LEMMA NextInv == TypeOK /\ TypeOK' /\ StreamInv /\ [Next]_vars => StreamInv'
<1> SUFFICES ASSUME TypeOK, TypeOK', StreamInv, [Next]_vars PROVE StreamInv'
  OBVIOUS
<1>0. stream \in Stream /\ stream' \in Stream /\ Coherent(stream)
  BY DEF TypeOK, StreamInv
<1>a. "aborted" \in Refusals /\ "unsupported_value" \in Refusals /\ "limit_exceeded" \in Refusals
      /\ CoreFailures \subseteq Refusals
  BY DEF Refusals, CoreFailures
<1>1. CASE OpenStream
  <2> DEFINE absent == [stream EXCEPT !.session = "absent"]
             opened == [stream EXCEPT !.session = "open", !.listening = (signal = "events")]
  <2>1. /\ stream.session = "unopened" /\ UNCHANGED <<calls, answers>>
        /\ \/ \E reason \in Refusals : stream' = Failed(absent, reason)
           \/ stream' = opened
    BY <1>1, <1>a DEF OpenStream
  <2>2. stream.terminal = "none" /\ ~stream.finalized /\ ~stream.listening
    BY <1>0, <2>1 DEF Coherent
  <2>3. absent \in Stream /\ absent.session = "absent" /\ ~absent.finalized
    BY <1>0, <2>2 DEF Stream
  <2>4. opened.session = "open" /\ opened.terminal = "none" /\ opened.finalized = FALSE
    BY <1>0, <2>2 DEF Stream
  <2>5. stream'.session # "unopened" /\ ~stream'.finalized /\ Coherent(stream')
    <3>1. CASE stream' = opened
      BY <2>4, <3>1 DEF Coherent
    <3>2. ASSUME NEW reason \in Refusals, stream' = Failed(absent, reason)
          PROVE  stream'.session # "unopened" /\ ~stream'.finalized /\ Coherent(stream')
      BY <2>3, <3>2, FailedType DEF Coherent
    <3> QED
      BY <2>1, <3>1, <3>2
  <2>6. stream'.finalized = stream.finalized
    BY <1>0, <2>2, <2>5 DEF Stream
  <2> QED
    BY <2>1, <2>2, <2>5, <2>6, HostInv
<1>2. ASSUME NEW isString \in BOOLEAN, Append_(isString) PROVE StreamInv'
  <2>1. stream.session # "unopened" /\ ~stream.finalized /\ UNCHANGED answers
    BY <1>2 DEF Append_, HostMay, Accepting
  <2>2. CASE aborted \/ ~isString
    <3>1. UNCHANGED calls /\ \E reason \in Refusals : stream' = Failed(stream, reason)
      BY <1>2, <1>a, <2>2 DEF Append_
    <3> QED
      BY <1>0, <2>1, <3>1, FailedType, FailedCoherent, HostInv
  <2>3. CASE ~(aborted \/ ~isString)
    <3>1. calls' = <<CoreCall("append")>> \o calls /\ stream' = stream
      BY <1>2, <2>3 DEF Append_
    <3>2. /\ calls' # <<>> /\ Head(calls') = CoreCall("append")
          /\ \A i \in DOMAIN calls' : calls'[i] = IF i = 1 THEN CoreCall("append") ELSE calls[i - 1]
          /\ \A i \in DOMAIN calls' : i # 1 => i - 1 \in DOMAIN calls
      <4>1. DOMAIN calls' = 1 .. Len(calls') /\ DOMAIN calls = 1 .. Len(calls) /\ Len(calls) \in Nat
        BY LenProperties DEF TypeOK
      <4> QED
        BY <3>1, <4>1, PushCore
    <3>3. \A i \in DOMAIN calls' : calls'[i].op # "finalize"
      BY <2>1, <3>2 DEF CoreCall, StreamInv, FinalizeIsInnermost
    <3>4. FinalizeIsInnermost'
      BY <2>1, <3>1, <3>3 DEF FinalizeIsInnermost
    <3>5. Releases' = {}
      BY <2>1 DEF StreamInv, ReleasedOnce, Releases
    <3> QED
      BY <1>0, <3>1, <3>4, <3>5 DEF StreamInv, ReleasedOnce, AtMostOneRelease, Coherent
  <2> QED
    BY <2>2, <2>3
<1>3. CASE Finalize
  <2> DEFINE begun  == [stream EXCEPT !.finalized = TRUE]
             polled == IF aborted THEN Failed(begun, "aborted") ELSE begun
  <2>1. stream.session # "unopened" /\ (calls = <<>> \/ InOnFinding)
    BY <1>3 DEF Finalize, HostMay
  <2>2. CASE stream.finalized
    <3>1. answers' = Append(answers, FinalizedAnswer) /\ UNCHANGED <<stream, calls>>
      BY <1>3, <2>2 DEF Finalize
    <3>2. Releases' = Releases
      BY <3>1, FinalizedAnswerType, ReleasesAppend
    <3> QED
      BY <3>1, <3>2 DEF StreamInv, Coherent, FinalizeIsInnermost, ReleasedOnce, AtMostOneRelease
  <2>3. CASE ~stream.finalized
    <3>1. /\ begun \in Stream /\ begun.finalized /\ begun.session # "unopened" /\ Coherent(begun)
          /\ begun.session = stream.session /\ begun.terminal = stream.terminal
      BY <1>0, <2>1 DEF Stream, Coherent
    <3>2. /\ polled \in Stream /\ polled.finalized /\ Coherent(polled)
          /\ polled.session # "unopened"
      BY <1>a, <3>1, FailedType, FailedCoherent
    <3>3. Releases = {} /\ \A i \in DOMAIN calls : calls[i].op # "finalize"
      BY <2>3 DEF StreamInv, ReleasedOnce, FinalizeIsInnermost
    <3> HIDE DEF begun, polled
    <3>4. CASE polled.terminal # "none"
      <4>1. stream' = Settled(polled) /\ answers' = Append(answers, AnswerOf(polled)) /\ UNCHANGED calls
        BY <1>3, <2>3, <3>4 DEF Finalize, begun, polled
      <4>2. Releases' = {}
        BY <3>2, <3>3, <3>4, <4>1, AnswerType, ReleasesAppend
      <4>3. /\ Coherent(stream') /\ stream'.finalized /\ ~stream'.listening
            /\ stream'.session # "open" /\ stream'.session # "unopened"
        BY <3>2, <3>4, <4>1, SettledType, SettledCoherent DEF Coherent
      <4>4. FinalizeIsInnermost'
        BY <3>3, <4>1, <4>3 DEF FinalizeIsInnermost
      <4> QED
        BY <4>2, <4>3, <4>4 DEF StreamInv, ReleasedOnce, AtMostOneRelease, Coherent
    <3>5. CASE polled.terminal = "none"
      <4>1. calls' = <<CoreCall("finalize")>> \o calls /\ stream' = begun /\ UNCHANGED answers
        BY <1>3, <2>3, <3>5 DEF Finalize, begun, polled
      <4>2. /\ calls' # <<>> /\ Head(calls') = CoreCall("finalize")
            /\ \A i \in DOMAIN calls' : calls'[i] = IF i = 1 THEN CoreCall("finalize") ELSE calls[i - 1]
            /\ \A i \in DOMAIN calls' : i # 1 => i - 1 \in DOMAIN calls
        <5>1. DOMAIN calls' = 1 .. Len(calls') /\ DOMAIN calls = 1 .. Len(calls) /\ Len(calls) \in Nat
          BY LenProperties DEF TypeOK
        <5> QED
          BY <4>1, <5>1, PushCore
      <4>3. Head(calls)'.op = "finalize" /\ Head(calls)'.stage = "core"
        BY <4>2 DEF CoreCall
      <4>4. FinalizeIsInnermost'
        BY <3>1, <3>3, <4>1, <4>2, <4>3 DEF FinalizeIsInnermost
      <4>5. Releases' = {}
        BY <3>3, <4>1 DEF Releases
      <4> QED
        BY <3>1, <4>1, <4>4, <4>5 DEF StreamInv, ReleasedOnce, AtMostOneRelease, Coherent
    <3> QED
      BY <3>4, <3>5
  <2> QED
    BY <2>2, <2>3
<1>4. CASE Abort
  <2>1. stream.session # "unopened" /\ UNCHANGED <<calls, answers>> /\ stream' = Failed(stream, "aborted")
    BY <1>4, NotUnopened DEF Abort
  <2> QED
    BY <1>0, <1>a, <2>1, FailedType, FailedCoherent, HostInv
<1>5. CASE Cancel
  <2>1. UNCHANGED <<calls, answers>>
    BY <1>5 DEF Cancel
  <2>2. CASE ~stream.listening
    <3>1. stream' = stream
      BY <1>5, <2>2 DEF Cancel
    <3> QED
      BY <2>1, <3>1 DEF StreamInv, Coherent, FinalizeIsInnermost, ReleasedOnce, AtMostOneRelease, Releases
  <2>3. CASE stream.listening /\ stream.finalized
    <3>1. stream' = [stream EXCEPT !.listening = FALSE]
      BY <1>5, <2>3 DEF Cancel
    <3>2. stream'.listening = FALSE /\ \A f \in {"session", "terminal", "finalized"} : stream'[f] = stream[f]
      BY <1>0, <3>1 DEF Stream
    <3>3. stream.session # "unopened"
      BY <1>0, <2>3 DEF Coherent
    <3>4. Coherent(stream') /\ stream'.session # "unopened" /\ stream'.finalized = stream.finalized
      BY <1>0, <3>2, <3>3 DEF Coherent
    <3> QED
      BY <2>1, <3>2, <3>4, HostInv
  <2>4. CASE stream.listening /\ ~stream.finalized
    <3>1. stream' = Failed(stream, "aborted") /\ stream.session # "unopened"
      BY <1>0, <1>5, <2>4 DEF Cancel, Coherent
    <3> QED
      BY <1>0, <1>a, <2>1, <3>1, FailedType, FailedCoherent, HostInv
  <2> QED
    BY <2>2, <2>3, <2>4
<1>6. CASE CoreFails
  <2>1. PICK reason \in CoreFailures : Return(Failed(stream, reason))
    BY <1>6 DEF CoreFails
  <2>2. calls # <<>> /\ stream.session # "unopened"
    BY <1>6 DEF CoreFails, InPolicy, StreamInv, FinalizeIsInnermost
  <2> QED
    BY <1>0, <1>a, <2>1, <2>2, FailedType, FailedCoherent, ReturnInv
<1>7. CASE CoreReturns
  <2> DEFINE session == SessionAfter(Head(calls).op)
             charged(r) == [stream EXCEPT !.session = session,
                                          !.budget = Charged(@, "findings", r.findings)]
  <2>1. PICK r \in Result :
          IF Affords(r.findings)
          THEN /\ stream' = charged(r)
               /\ calls' = <<EmitCall(Head(calls).op, Len(core) + 1, 0)>> \o Tail(calls)
               /\ UNCHANGED answers
          ELSE Return(Failed(charged(r), "limit_exceeded"))
    BY <1>7, Zenon DEF CoreReturns
  <2>2. calls # <<>> /\ Head(calls) = calls[1] /\ Head(calls) \in Call
    BY <1>7, Pop DEF CoreReturns, InPolicy, TypeOK
  <2>3. stream.session # "unopened"
    BY <2>2 DEF StreamInv, FinalizeIsInnermost
  <2>4. /\ session \in {"unopened", "absent", "open", "ended"} /\ session # "unopened"
        /\ session = stream.session \/ (session = "ended" /\ stream.finalized)
        /\ stream.finalized => session # "open"
    BY <1>0, <2>2, <2>3, Pop DEF SessionAfter, Stream, StreamInv, FinalizeIsInnermost, TypeOK
  <2>5. charged(r) \in Stream
    BY <1>0, <2>4, ChargedStreamType
  <2>6. /\ charged(r).session = session
        /\ charged(r).terminal = stream.terminal
        /\ charged(r).finalized = stream.finalized
        /\ charged(r).listening = stream.listening
    BY <1>0 DEF Stream
  <2> HIDE DEF charged, session
  <2>7. Coherent(charged(r))
    BY <1>0, <2>4, <2>6 DEF Coherent
  <2>8. CASE Affords(r.findings)
    <3> DEFINE call == EmitCall(Head(calls).op, Len(core) + 1, 0)
    <3>1. calls' = <<call>> \o Tail(calls) /\ stream' = charged(r) /\ UNCHANGED answers
      BY <2>1, <2>8
    <3>2. call \in Call /\ call.op = Head(calls).op
      <4>1. Len(core) \in Nat
        BY LenProperties DEF TypeOK
      <4> QED
        BY <2>2, <4>1 DEF EmitCall, Call
    <3> HIDE DEF call
    <3>3. /\ calls' # <<>> /\ Head(calls') = call /\ DOMAIN calls' = DOMAIN calls
          /\ \A i \in DOMAIN calls' : calls'[i] = IF i = 1 THEN call ELSE calls[i]
      BY <2>2, <3>1, <3>2, Replace
    <3> QED
      BY <2>2, <2>4, <2>6, <2>7, <3>1, <3>2, <3>3, ReplaceInv
  <2>9. CASE ~Affords(r.findings)
    <3> DEFINE s == Failed(charged(r), "limit_exceeded")
    <3>1. /\ s \in Stream /\ Coherent(s) /\ s.session # "unopened" /\ s.session # "open"
          /\ s.finalized = stream.finalized /\ ~s.listening
      BY <1>a, <2>4, <2>5, <2>6, <2>7, FailedType, FailedCoherent
    <3>2. Return(s)
      BY <2>1, <2>9
    <3> HIDE DEF s
    <3> QED
      BY <2>2, <3>1, <3>2, ReturnInv
  <2> QED
    BY <2>8, <2>9
<1>8. CASE EmitFinding
  <2> DEFINE call == EmitCall(Head(calls).op, Head(calls).result, Head(calls).at + 1)
  <2>1. calls # <<>> /\ Head(calls).stage = "emit" /\ calls' = <<call>> \o Tail(calls)
        /\ UNCHANGED <<stream, answers>>
    BY <1>8 DEF EmitFinding
  <2>2. call \in Call /\ call.op = Head(calls).op
    BY <2>1, Pop DEF TypeOK, Call, EmitCall
  <2>3. stream.session # "unopened" /\ (stream.finalized => stream.session # "open")
    BY <2>1 DEF StreamInv, FinalizeIsInnermost
  <2> HIDE DEF call
  <2> QED
    BY <1>0, <2>1, <2>2, <2>3, ReplaceInv
<1>9. CASE RecordResult
  <2>1. /\ calls # <<>> /\ Head(calls).stage = "emit"
        /\ Return(Recorded(stream, Head(calls).result))
    BY <1>9 DEF RecordResult
  <2>2. Head(calls).result \in DOMAIN core /\ core \in Seq(Result)
    BY <2>1, Pop DEF TypeOK, EmitsItsResult
  <2>3. stream.session # "unopened" /\ (stream.finalized => stream.session # "open")
    BY <2>1 DEF StreamInv, FinalizeIsInnermost
  <2> DEFINE s == Recorded(stream, Head(calls).result)
  <2>4. /\ s \in Stream /\ Coherent(s) /\ s.session # "unopened" /\ s.finalized = stream.finalized
        /\ s.session = "open" => stream.session = "open"
        /\ s.listening => stream.listening
    BY <1>0, <2>2, <2>3, RecordedType, RecordedCoherent
  <2> HIDE DEF s
  <2>5. Return(s)
    BY <2>1 DEF s
  <2> QED
    BY <2>1, <2>3, <2>4, <2>5, ReturnInv
<1>10. CASE UNCHANGED vars
  BY <1>10 DEF vars, StreamInv, Coherent, FinalizeIsInnermost, ReleasedOnce, AtMostOneRelease, Releases
<1> QED
  BY <1>1, <1>2, <1>3, <1>4, <1>5, <1>6, <1>7, <1>8, <1>9, <1>10 DEF Next, HostStep, StreamStep

\* The session, the failure, the listener, the stack of calls and the one
\* release always agree: StreamInv.
THEOREM StreamAgrees == Spec => []StreamInv
<1>1. Init => StreamInv
  BY InitInv
<1>2. TypeOK /\ TypeOK' /\ StreamInv /\ [Next]_vars => StreamInv'
  BY NextInv
<1> QED
  BY <1>1, <1>2, TypeCorrect, PTL DEF Spec

\* finalize releases at most once, from wherever and however often it is called.
THEOREM ReleasesAtMostOnce == Spec => []AtMostOneRelease
<1>1. StreamInv => AtMostOneRelease
  BY DEF StreamInv, ReleasedOnce
<1> QED
  BY <1>1, StreamAgrees, PTL

\* A failed or finalized stream that no call is using holds neither the core
\* session nor the listener on the caller's signal.
THEOREM EndedStreamHoldsNothing == Spec => []EndedHoldsNothing
<1>1. TypeOK /\ StreamInv => EndedHoldsNothing
  BY DEF TypeOK, Stream, StreamInv, Coherent, FinalizeIsInnermost, EndedHoldsNothing, Accepting
<1> QED
  BY <1>1, StreamAgrees, TypeCorrect, PTL

\* append and finalize call the core session only while it is open.
THEOREM CallsTheOpenSession == Spec => SessionCalledWhileOpen
<1> DEFINE Called == Len(calls') > Len(calls) => stream.session = "open"
<1>1. TypeOK /\ TypeOK' /\ StreamInv /\ [Next]_vars => [Called]_vars
  <2> SUFFICES ASSUME TypeOK, StreamInv, Next PROVE Called
    BY DEF vars
  <2>0. stream \in Stream /\ Len(calls) \in Nat
    BY LenProperties DEF TypeOK
  <2>1. ASSUME stream.session # "unopened", stream.terminal = "none", ~stream.finalized
        PROVE  stream.session = "open"
    BY <2>0, <2>1 DEF Stream, StreamInv, Coherent
  <2>2. ASSUME NEW isString \in BOOLEAN, Append_(isString) PROVE Called
    BY <2>1, <2>2 DEF Append_, HostMay, Accepting
  <2>3. CASE Finalize
    <3> DEFINE begun == [stream EXCEPT !.finalized = TRUE]
    <3>1. CASE calls' = calls
      BY <2>0, <3>1
    <3>2. CASE calls' # calls
      <4>1. ~stream.finalized /\ stream.session # "unopened"
            /\ (IF aborted THEN Failed(begun, "aborted") ELSE begun).terminal = "none"
        BY <2>3, <3>2 DEF Finalize, HostMay
      <4>2. begun \in Stream /\ begun.terminal = stream.terminal
        BY <2>0 DEF Stream
      <4>3. stream.terminal = "none"
        <5>1. "aborted" \in Refusals
          BY DEF Refusals
        <5> QED
          BY <4>1, <4>2, <5>1, FailedType
      <4> QED
        BY <2>1, <4>1, <4>3
    <3> QED
      BY <3>1, <3>2
  <2>4. CASE OpenStream \/ Abort \/ Cancel
    BY <2>0, <2>4 DEF OpenStream, Abort, Cancel
  <2>5. CASE EmitFinding
    <3>1. EmitCall(Head(calls).op, Head(calls).result, Head(calls).at + 1) \in Call
      <4>1. Head(calls) \in Call
        BY <2>5, Pop DEF TypeOK, EmitFinding
      <4> QED
        BY <4>1 DEF Call, EmitCall
    <3>2. Len(calls') = Len(calls)
      BY <2>5, <3>1, Replace DEF EmitFinding
    <3> QED
      BY <2>0, <3>2
  <2>6. ASSUME calls # <<>>, NEW s, Return(s) PROVE Called
    BY <2>6, Pop DEF TypeOK, Return
  <2>7. CASE CoreFails \/ RecordResult
    BY <2>6, <2>7 DEF CoreFails, RecordResult, InPolicy
  <2>8. CASE CoreReturns
    <3>1. calls # <<>>
      BY <2>8 DEF CoreReturns, InPolicy
    <3>2. EmitCall(Head(calls).op, Len(core) + 1, 0) \in Call
      <4>1. Head(calls) \in Call /\ Len(core) \in Nat
        BY <3>1, Pop, LenProperties DEF TypeOK
      <4> QED
        BY <4>1 DEF Call, EmitCall
    <3>3. \/ calls' = <<EmitCall(Head(calls).op, Len(core) + 1, 0)>> \o Tail(calls)
          \/ \E s : Return(s)
      BY <2>8 DEF CoreReturns
    <3>4. CASE calls' = <<EmitCall(Head(calls).op, Len(core) + 1, 0)>> \o Tail(calls)
      <4>1. Len(calls') = Len(calls)
        BY <3>1, <3>2, <3>4, Replace
      <4> QED
        BY <2>0, <4>1
    <3> QED
      BY <2>6, <3>1, <3>3, <3>4
  <2> QED
    BY <2>2, <2>3, <2>4, <2>5, <2>7, <2>8 DEF Next, HostStep, StreamStep
<1> QED
  BY <1>1, TypeCorrect, StreamAgrees, PTL DEF Spec, SessionCalledWhileOpen

\* Once a stream has failed the reason stands, and no answer given afterwards
\* releases anything.
THEOREM FailureStands == Spec => FailureIsFinal
<1> DEFINE Stands ==
      stream.terminal # "none" =>
        /\ stream'.terminal = stream.terminal
        /\ \A i \in DOMAIN answers' \ DOMAIN answers : answers'[i].outcome # "ok"
<1>1. TypeOK /\ StreamInv /\ [Next]_vars => [Stands]_vars
  <2> SUFFICES ASSUME TypeOK, StreamInv, Next, stream.terminal # "none" PROVE Stands
    BY DEF vars
  <2>0. stream \in Stream
    BY DEF TypeOK
  <2>a. "aborted" \in Refusals /\ "limit_exceeded" \in Refusals /\ CoreFailures \subseteq Refusals
    BY DEF Refusals, CoreFailures
  <2>b. ASSUME NEW a \in Answer, a.outcome # "ok", answers' = Append(answers, a)
        PROVE  \A i \in DOMAIN answers' \ DOMAIN answers : answers'[i].outcome # "ok"
    <3>1. answers \in Seq(Answer) /\ Len(answers) \in Nat
      BY LenProperties DEF TypeOK
    <3> QED
      BY <2>b, <3>1, AppendFacts
  <2>1. CASE OpenStream
    BY <2>1 DEF OpenStream, StreamInv, Coherent
  <2>2. ASSUME NEW isString \in BOOLEAN, Append_(isString) PROVE Stands
    BY <2>2 DEF Append_, Accepting
  <2>3. CASE Finalize
    <3> DEFINE begun  == [stream EXCEPT !.finalized = TRUE]
               polled == IF aborted THEN Failed(begun, "aborted") ELSE begun
    <3>1. begun \in Stream /\ begun.terminal = stream.terminal
      BY <2>0 DEF Stream
    <3>2. polled \in Stream /\ polled.terminal = stream.terminal
      BY <2>a, <3>1, FailedType
    <3> HIDE DEF begun, polled
    <3>3. CASE stream.finalized
      <4>1. answers' = Append(answers, FinalizedAnswer) /\ UNCHANGED stream
        BY <2>3, <3>3 DEF Finalize
      <4> QED
        BY <2>b, <4>1, FinalizedAnswerType
    <3>4. CASE ~stream.finalized
      <4>1. stream' = Settled(polled) /\ answers' = Append(answers, AnswerOf(polled))
        BY <2>3, <3>2, <3>4 DEF Finalize, begun, polled
      <4> QED
        BY <2>b, <3>2, <4>1, AnswerType, SettledType
    <3> QED
      BY <3>3, <3>4
  <2>4. CASE Abort
    BY <2>0, <2>4, <2>a, FailedType DEF Abort
  <2>5. CASE Cancel
    BY <2>5 DEF Cancel, StreamInv, Coherent
  <2>6. ASSUME NEW s \in Stream, s.terminal = stream.terminal, Return(s) PROVE Stands
    <3>1. CASE UNCHANGED answers /\ stream' = s
      BY <2>6, <3>1
    <3>2. CASE stream' = Settled(s) /\ answers' = Append(answers, AnswerOf(s))
      BY <2>6, <2>b, <3>2, AnswerType, SettledType
    <3> QED
      BY <2>6, <3>1, <3>2 DEF Return
  <2>7. CASE CoreFails
    <3>1. PICK reason \in CoreFailures : Return(Failed(stream, reason))
      BY <2>7 DEF CoreFails
    <3> QED
      BY <2>0, <2>6, <2>a, <3>1, FailedType
  <2>8. CASE CoreReturns
    <3> DEFINE session == SessionAfter(Head(calls).op)
               charged(r) == [stream EXCEPT !.session = session,
                                            !.budget = Charged(@, "findings", r.findings)]
    <3>1. PICK r \in Result :
            IF Affords(r.findings)
            THEN stream' = charged(r) /\ UNCHANGED answers
            ELSE Return(Failed(charged(r), "limit_exceeded"))
      BY <2>8, Zenon DEF CoreReturns
    <3>2. session \in {"unopened", "absent", "open", "ended"}
      BY <2>0 DEF SessionAfter, Stream
    <3>3. charged(r) \in Stream /\ charged(r).terminal = stream.terminal
      <4>1. charged(r) \in Stream
        BY <2>0, <3>2, ChargedStreamType
      <4> QED
        BY <2>0, <4>1 DEF Stream
    <3> HIDE DEF charged, session
    <3> QED
      BY <2>6, <2>a, <3>1, <3>3, FailedType
  <2>9. CASE EmitFinding
    BY <2>9 DEF EmitFinding
  <2>10. CASE RecordResult
    <3>1. calls # <<>> /\ Head(calls).stage = "emit" /\ Return(Recorded(stream, Head(calls).result))
      BY <2>10 DEF RecordResult
    <3>2. Head(calls).result \in DOMAIN core /\ core \in Seq(Result)
      BY <3>1, Pop DEF TypeOK, EmitsItsResult
    <3> QED
      BY <2>0, <2>6, <3>1, <3>2, RecordedType
  <2> QED
    BY <2>1, <2>2, <2>3, <2>4, <2>5, <2>7, <2>8, <2>9, <2>10 DEF Next, HostStep, StreamStep
<1> QED
  BY <1>1, TypeCorrect, StreamAgrees, PTL DEF Spec, FailureIsFinal

-----------------------------------------------------------------------------
(* One call at a time: what a stream whose callbacks only abort or cancel  *)
(* holds, and that it keeps the promise of StagedRelease.                  *)

\* The innermost call is recording a result.
Emitting == calls # <<>> /\ Head(calls).stage = "emit"

\* Nothing has been released, and nothing has failed.
StillOpen == Releases = {} /\ stream.terminal = "none"

\* How many of the core's results have been recorded in full.
Cleared == IF Emitting THEN Len(core) - 1 ELSE Len(core)

UpTo(n) == [r \in 1 .. n |-> r]

\* The first n findings of a result.
Told(r, n) == [i \in 1 .. n |-> <<r, i>>]

\* The findings handed over of the result that is being recorded.
Reporting == IF Emitting THEN Told(Len(core), Head(calls).at) ELSE <<>>

\* While the stream is open, what it holds is what the core returned, in that
\* order, none of it blocked, and what the host was told of; once it has
\* released, that is what it released, and no call is left in progress.
OneAtATime ==
  /\ Len(calls) <= 1
  /\ Releases # {} => calls = <<>> /\ stream.finalized
  /\ Emitting => Head(calls).result = Len(core)
  /\ StillOpen =>
       /\ stream.staged = UpTo(Cleared)
       /\ \A r \in 1 .. Cleared : ~core[r].blocks
       /\ emitted = stream.findings \o Reporting
  /\ ReleaseIsFaithful

\* A step that leaves what is held, told and released as it is.  A call of the
\* core may begin.
Quiet ==
  /\ UNCHANGED <<core, emitted>>
  /\ stream'.terminal = stream.terminal /\ stream'.staged = stream.staged
  /\ stream'.findings = stream.findings
  /\ stream.finalized => stream'.finalized
  /\ Releases' = Releases /\ \A i \in Releases : answers'[i] = answers[i]
  /\ calls' = calls \/ (calls = <<>> /\ Releases = {} /\ Len(calls') = 1 /\ ~Emitting')

\* A step that leaves the stream failed, unless it had released.
Failing ==
  /\ UNCHANGED <<core, emitted>>
  /\ Releases = {} /\ Releases' = {}
  /\ stream'.terminal # "none"
  /\ calls' = calls \/ calls' = <<>>

\* fail leaves nothing staged, and staging appends.
LEMMA StagedFields ==
  ASSUME NEW s \in Stream, NEW r
  PROVE  /\ Staged(s, r).staged = Append(s.staged, r)
         /\ Staged(s, r).findings = s.findings \o FindingsOf(r)
         /\ Staged(s, r).terminal = s.terminal
         /\ Staged(s, r).budget = s.budget
  BY DEF Staged, Stream

\* The answer of a finalize that adds no release leaves the releases alone.
LEMMA NoRelease ==
  ASSUME TypeOK, NEW a \in Answer, a.outcome # "ok", answers' = Append(answers, a)
  PROVE  Releases' = Releases /\ \A i \in Releases : answers'[i] = answers[i]
<1>1. /\ DOMAIN answers = 1 .. Len(answers) /\ Len(answers) \in Nat
      /\ \A i \in 1 .. Len(answers) + 1 : answers'[i] = IF i <= Len(answers) THEN answers[i] ELSE a
  BY AppendFacts, LenProperties DEF TypeOK
<1> QED
  BY <1>1, ReleasesAppend DEF Releases

\* Only one call is in progress, so the results are recorded one by one.
LEMMA InnermostIsOnly ==
  ASSUME TypeOK, OneAtATime, calls # <<>>
  PROVE  /\ calls \in Seq(Call) /\ Len(calls) = 1 /\ Head(calls) \in Call
         /\ Tail(calls) = <<>> /\ Releases = {}
         /\ core \in Seq(Result) /\ Len(core) \in Nat /\ DOMAIN core = 1 .. Len(core)
<1>0. calls \in Seq(Call) /\ core \in Seq(Result)
  BY DEF TypeOK
<1>1. Len(calls) \in Nat \ {0} /\ Len(calls) <= 1 /\ Releases = {}
  BY <1>0, Pop DEF OneAtATime
<1>2. Tail(calls) \in Seq(Call) /\ Len(Tail(calls)) = Len(calls) - 1 /\ Head(calls) \in Call
  BY <1>0, Pop
<1>3. Tail(calls) = <<>>
  BY <1>1, <1>2, EmptySeq
<1> QED
  BY <1>0, <1>1, <1>2, <1>3, LenProperties

\* A call that returns with a failed stream leaves it failed.
LEMMA ReturnFailed ==
  ASSUME TypeOK, OneAtATime, calls # <<>>, NEW s \in Stream, s.terminal # "none", Return(s),
         UNCHANGED <<core, emitted>>
  PROVE  Failing
<1>1. Releases = {} /\ Tail(calls) = <<>>
  BY InnermostIsOnly
<1>2. calls' = <<>>
  BY <1>1 DEF Return
<1>3. CASE Head(calls).op = "append"
  <2>1. stream' = s /\ answers' = answers
    BY <1>3 DEF Return
  <2> QED
    BY <1>1, <1>2, <2>1 DEF Failing, Releases
<1>4. CASE Head(calls).op # "append"
  <2>1. stream' = Settled(s) /\ answers' = Append(answers, AnswerOf(s))
    BY <1>4 DEF Return
  <2>2. AnswerOf(s) \in Answer /\ AnswerOf(s).outcome # "ok"
    BY AnswerType
  <2> QED
    BY <1>1, <1>2, <2>1, <2>2, NoRelease, SettledType DEF Failing
<1> QED
  BY <1>3, <1>4

\* Every step of the host and every failure of the core is quiet or failing, as
\* long as only one call is in progress.
LEMMA StepKinds ==
  ASSUME TypeOK, StreamInv, OneAtATime, Len(calls') <= 1,
         HostStep \/ CoreFails \/ UNCHANGED vars
  PROVE  Quiet \/ Failing
<1>0. stream \in Stream /\ Coherent(stream) /\ calls \in Seq(Call) /\ Len(calls) \in Nat
  BY LenProperties DEF TypeOK, StreamInv
<1>a. "aborted" \in Refusals /\ "unsupported_value" \in Refusals /\ CoreFailures \subseteq Refusals
  BY DEF Refusals, CoreFailures
<1>b. ~stream.finalized => Releases = {}
  BY DEF OneAtATime
<1>c. ASSUME UNCHANGED <<calls, core, emitted, answers>>, ~stream.finalized, stream'.terminal # "none"
      PROVE  Failing
  BY <1>b, <1>c DEF Failing, Releases
<1>d. ASSUME UNCHANGED <<calls, core, emitted, answers>>, stream'.terminal = stream.terminal,
             stream'.staged = stream.staged, stream'.findings = stream.findings,
             stream.finalized => stream'.finalized
      PROVE  Quiet
  BY <1>d DEF Quiet, Releases
<1>e. ASSUME NEW op \in {"append", "finalize"}, calls' = <<CoreCall(op)>> \o calls, Releases = {}
      PROVE  calls = <<>> /\ Len(calls') = 1 /\ ~Emitting'
  <2>1. Len(calls') = Len(calls) + 1 /\ Head(calls') = CoreCall(op)
    BY <1>e, PushCore
  <2>2. Len(calls) = 0
    BY <1>0, <2>1
  <2>3. CoreCall(op).stage # "emit"
    BY DEF CoreCall
  <2> QED
    BY <1>0, <2>1, <2>2, <2>3, EmptySeq DEF Emitting
<1>1. CASE OpenStream
  <2> DEFINE absent == [stream EXCEPT !.session = "absent"]
             opened == [stream EXCEPT !.session = "open", !.listening = (signal = "events")]
  <2>1. stream.session = "unopened" /\ UNCHANGED <<calls, core, emitted, answers>>
        /\ (stream' = opened \/ \E reason \in Refusals : stream' = Failed(absent, reason))
    BY <1>1, <1>a DEF OpenStream
  <2>2. absent \in Stream /\ ~stream.finalized
    BY <1>0, <2>1 DEF Stream, Coherent
  <2>3. CASE stream' = opened
    <3>1. /\ opened.terminal = stream.terminal /\ opened.staged = stream.staged
          /\ opened.findings = stream.findings
      BY <1>0 DEF Stream
    <3> QED
      BY <1>d, <2>1, <2>2, <2>3, <3>1
  <2>4. ASSUME NEW reason \in Refusals, stream' = Failed(absent, reason) PROVE Failing
    BY <1>c, <2>1, <2>2, <2>4, FailedType
  <2> QED
    BY <2>1, <2>3, <2>4
<1>2. ASSUME NEW isString \in BOOLEAN, Append_(isString) PROVE Quiet \/ Failing
  <2>1. ~stream.finalized /\ UNCHANGED <<core, emitted, answers>> /\ Releases = {} /\ Releases' = {}
    BY <1>2, <1>b DEF Append_, Accepting, Releases
  <2>2. CASE aborted \/ ~isString
    <3>1. UNCHANGED calls /\ \E reason \in Refusals : stream' = Failed(stream, reason)
      BY <1>2, <1>a, <2>2 DEF Append_
    <3> QED
      BY <1>0, <1>c, <2>1, <3>1, FailedType
  <2>3. CASE ~(aborted \/ ~isString)
    <3>1. calls' = <<CoreCall("append")>> \o calls /\ stream' = stream
      BY <1>2, <2>3 DEF Append_
    <3> QED
      BY <1>e, <2>1, <3>1 DEF Quiet
  <2> QED
    BY <2>2, <2>3
<1>3. CASE Finalize
  <2> DEFINE begun  == [stream EXCEPT !.finalized = TRUE]
             polled == IF aborted THEN Failed(begun, "aborted") ELSE begun
  <2>1. UNCHANGED <<core, emitted>>
    BY <1>3 DEF Finalize
  <2>2. CASE stream.finalized
    <3>1. answers' = Append(answers, FinalizedAnswer) /\ UNCHANGED <<stream, calls>>
      BY <1>3, <2>2 DEF Finalize
    <3> QED
      BY <2>1, <3>1, FinalizedAnswerType, NoRelease DEF Quiet
  <2>3. CASE ~stream.finalized
    <3>1. /\ begun \in Stream /\ begun.terminal = stream.terminal /\ begun.staged = stream.staged
          /\ begun.findings = stream.findings /\ begun.finalized = TRUE
      BY <1>0 DEF Stream
    <3>2. polled \in Stream
      BY <1>a, <3>1, FailedType
    <3>3. Releases = {}
      BY <1>b, <2>3
    <3> HIDE DEF begun, polled
    <3>4. CASE polled.terminal # "none"
      <4>1. stream' = Settled(polled) /\ answers' = Append(answers, AnswerOf(polled)) /\ UNCHANGED calls
        BY <1>3, <2>3, <3>4 DEF Finalize, begun, polled
      <4> QED
        BY <2>1, <3>2, <3>3, <3>4, <4>1, AnswerType, NoRelease, SettledType DEF Failing
    <3>5. CASE polled.terminal = "none"
      <4>1. calls' = <<CoreCall("finalize")>> \o calls /\ stream' = begun /\ UNCHANGED answers
        BY <1>3, <2>3, <3>5 DEF Finalize, begun, polled
      <4>2. Releases' = Releases
        BY <4>1 DEF Releases
      <4> QED
        BY <1>e, <2>1, <3>1, <3>3, <4>1, <4>2 DEF Quiet
    <3> QED
      BY <3>4, <3>5
  <2> QED
    BY <2>2, <2>3
<1>4. CASE Abort
  <2>1. ~stream.finalized /\ UNCHANGED <<calls, core, emitted, answers>> /\ stream' = Failed(stream, "aborted")
    BY <1>4 DEF Abort
  <2> QED
    BY <1>0, <1>a, <1>c, <2>1, FailedType
<1>5. CASE Cancel
  <2>1. UNCHANGED <<calls, core, emitted, answers>>
        /\ stream' = IF ~stream.listening THEN stream
                     ELSE IF stream.finalized THEN [stream EXCEPT !.listening = FALSE]
                     ELSE Failed(stream, "aborted")
    BY <1>5 DEF Cancel
  <2>2. CASE ~stream.listening
    BY <1>d, <2>1, <2>2
  <2>3. CASE stream.listening /\ stream.finalized
    <3>1. stream' = [stream EXCEPT !.listening = FALSE]
      BY <2>1, <2>3
    <3>2. /\ stream'.terminal = stream.terminal /\ stream'.staged = stream.staged
          /\ stream'.findings = stream.findings /\ stream'.finalized = stream.finalized
      BY <1>0, <3>1 DEF Stream
    <3> QED
      BY <1>d, <2>1, <3>2
  <2>4. CASE stream.listening /\ ~stream.finalized
    BY <1>0, <1>a, <1>c, <2>1, <2>4, FailedType
  <2> QED
    BY <2>2, <2>3, <2>4
<1>6. CASE CoreFails
  <2>1. PICK reason \in CoreFailures : Return(Failed(stream, reason))
    BY <1>6 DEF CoreFails
  <2>2. calls # <<>> /\ UNCHANGED <<core, emitted>>
    BY <1>6 DEF CoreFails, InPolicy
  <2> QED
    BY <1>0, <1>a, <2>1, <2>2, FailedType, ReturnFailed
<1>7. CASE UNCHANGED vars
  BY <1>7, <1>d DEF vars
<1> QED
  BY <1>1, <1>2, <1>3, <1>4, <1>5, <1>6, <1>7 DEF HostStep

\* A quiet or failing step keeps what holds of one call at a time.
LEMMA KindsKeep ==
  ASSUME TypeOK, OneAtATime, Len(calls') <= 1, Quiet \/ Failing
  PROVE  OneAtATime'
<1>1. CASE Failing
  <2>1. ReleaseIsFaithful'
    BY <1>1 DEF Failing, ReleaseIsFaithful, ReleaseIsWhole, EventsMatchRelease
  <2>2. Emitting' => Head(calls').result = Len(core')
    BY <1>1 DEF Failing, OneAtATime, Emitting
  <2> QED
    BY <1>1, <2>1, <2>2 DEF Failing, OneAtATime, StillOpen
<1>2. CASE Quiet
  <2>1. ReleaseIsFaithful'
    BY <1>2 DEF Quiet, OneAtATime, ReleaseIsFaithful, ReleaseIsWhole, EventsMatchRelease
  <2>2. Emitting' = Emitting /\ (Emitting => Head(calls') = Head(calls))
    BY <1>2 DEF Quiet, Emitting
  <2>3. Emitting' => Head(calls').result = Len(core')
    BY <1>2, <2>2 DEF Quiet, OneAtATime
  <2>4. Cleared' = Cleared /\ Reporting' = Reporting
    BY <1>2, <2>2 DEF Quiet, Cleared, Reporting
  <2>5. StillOpen' = StillOpen
    BY <1>2 DEF Quiet, StillOpen
  <2>6. StillOpen' =>
          /\ stream'.staged = UpTo(Cleared')
          /\ \A r \in 1 .. Cleared' : ~core'[r].blocks
          /\ emitted' = stream'.findings \o Reporting'
    BY <1>2, <2>4, <2>5 DEF Quiet, OneAtATime
  <2>7. Releases' # {} => calls' = <<>> /\ stream'.finalized
    BY <1>2 DEF Quiet, OneAtATime
  <2> QED
    BY <2>1, <2>3, <2>6, <2>7 DEF OneAtATime, StillOpen, Cleared, Emitting, Reporting, UpTo
<1> QED
  BY <1>1, <1>2

\* UpTo grows by its next number.
LEMMA UpToNext ==
  ASSUME NEW n \in Nat
  PROVE  UpTo(n) \in Seq(Nat) /\ Len(UpTo(n)) = n /\ Append(UpTo(n), n + 1) = UpTo(n + 1)
<1>1. UpTo(n) \in Seq(Nat) /\ Len(UpTo(n)) = n /\ UpTo(n + 1) \in Seq(Nat) /\ Len(UpTo(n + 1)) = n + 1
  BY DEF UpTo
<1>2. Append(UpTo(n), n + 1) \in Seq(Nat) /\ Len(Append(UpTo(n), n + 1)) = n + 1
      /\ \A i \in 1 .. n + 1 : Append(UpTo(n), n + 1)[i] = IF i <= n THEN UpTo(n)[i] ELSE n + 1
  BY <1>1, AppendFacts
<1>3. \A i \in 1 .. n + 1 : Append(UpTo(n), n + 1)[i] = UpTo(n + 1)[i]
  BY <1>2 DEF UpTo
<1> QED
  BY <1>1, <1>2, <1>3, SeqEqual

\* The core returns a result that the budget affords.
LEMMA ReturnsKeep ==
  ASSUME TypeOK, OneAtATime, CoreReturns
  PROVE  /\ OneAtATime'
         /\ Failing \/ (UNCHANGED answers /\ stream'.terminal = stream.terminal /\ stream'.staged = stream.staged)
<1>0. stream \in Stream /\ calls # <<>> /\ Head(calls).stage = "core" /\ UNCHANGED emitted
  BY DEF TypeOK, CoreReturns, InPolicy
<1>a. "limit_exceeded" \in Refusals
  BY DEF Refusals, CoreFailures
<1> DEFINE session == SessionAfter(Head(calls).op)
           charged(r) == [stream EXCEPT !.session = session, !.budget = Charged(@, "findings", r.findings)]
<1>1. PICK r \in Result :
        IF Affords(r.findings)
        THEN /\ core' = Append(core, r)
             /\ stream' = charged(r)
             /\ calls' = <<EmitCall(Head(calls).op, Len(core) + 1, 0)>> \o Tail(calls)
             /\ UNCHANGED answers
        ELSE Return(Failed(charged(r), "limit_exceeded")) /\ UNCHANGED core
  BY Zenon DEF CoreReturns
<1>2. charged(r) \in Stream
  <2>1. session \in {"unopened", "absent", "open", "ended"}
    BY <1>0 DEF SessionAfter, Stream
  <2> QED
    BY <1>0, <2>1, ChargedStreamType
<1>3. /\ charged(r).terminal = stream.terminal /\ charged(r).staged = stream.staged
      /\ charged(r).findings = stream.findings /\ charged(r).finalized = stream.finalized
  BY <1>0 DEF Stream
<1>i. /\ Releases = {} /\ Tail(calls) = <<>> /\ Head(calls) \in Call
      /\ core \in Seq(Result) /\ Len(core) \in Nat
  BY <1>0, InnermostIsOnly
<1> HIDE DEF charged, session
<1>4. CASE Affords(r.findings)
  <2> DEFINE call == EmitCall(Head(calls).op, Len(core) + 1, 0)
  <2>1. core' = Append(core, r) /\ stream' = charged(r) /\ calls' = <<call>> \o Tail(calls) /\ UNCHANGED answers
    BY <1>1, <1>4
  <2>2. call \in Call /\ call.stage = "emit" /\ call.result = Len(core) + 1 /\ call.at = 0
    BY <1>i DEF EmitCall, Call
  <2> HIDE DEF call
  <2>3. calls' # <<>> /\ Len(calls') = Len(calls) /\ Head(calls') = call
    BY <1>0, <2>1, <2>2, Replace
  <2>4. /\ Len(core') = Len(core) + 1
        /\ \A i \in 1 .. Len(core) : core'[i] = core[i]
    BY <1>i, <2>1, AppendFacts
  <2>5. Emitting' /\ ~Emitting /\ Cleared' = Cleared /\ Cleared = Len(core)
    BY <1>0, <1>i, <2>2, <2>3, <2>4 DEF Emitting, Cleared
  <2>6. Reporting' = <<>> /\ Reporting = <<>>
    <3>1. Told(Len(core'), 0) = <<>>
      BY DEF Told
    <3> QED
      BY <2>2, <2>3, <2>5, <3>1 DEF Reporting
  <2>7. Releases' = {}
    BY <1>i, <2>1 DEF Releases
  <2>8. stream'.terminal = stream.terminal /\ stream'.staged = stream.staged /\ stream'.findings = stream.findings
    BY <1>3, <2>1
  <2>9. StillOpen' =>
          /\ stream'.staged = UpTo(Cleared')
          /\ \A k \in 1 .. Cleared' : ~core'[k].blocks
          /\ emitted' = stream'.findings \o Reporting'
    BY <1>0, <1>i, <2>4, <2>5, <2>6, <2>8 DEF StillOpen, OneAtATime
  <2>10. ReleaseIsFaithful'
    BY <2>7 DEF ReleaseIsFaithful, ReleaseIsWhole, EventsMatchRelease
  <2>11. Len(calls') <= 1 /\ Head(calls').result = Len(core')
    BY <2>2, <2>3, <2>4 DEF OneAtATime
  <2>12. OneAtATime'
    BY <2>7, <2>9, <2>10, <2>11 DEF OneAtATime, StillOpen, Cleared, Emitting, Reporting, UpTo
  <2> QED
    BY <2>1, <2>8, <2>12
<1>5. CASE ~Affords(r.findings)
  <2>1. Return(Failed(charged(r), "limit_exceeded")) /\ UNCHANGED core
    BY <1>1, <1>5
  <2>2. Failing
    BY <1>0, <1>2, <1>a, <2>1, FailedType, ReturnFailed
  <2>3. Len(calls') <= 1
    BY <1>i, <2>1, EmptySeq DEF Return
  <2> QED
    BY <2>2, <2>3, KindsKeep
<1> QED
  BY <1>4, <1>5

\* The next finding of a result extends what was told of it.
LEMMA ToldNext ==
  ASSUME NEW r \in Nat \ {0}, NEW n \in Nat
  PROVE  /\ Told(r, n) \in Seq(Finding) /\ <<r, n + 1>> \in Finding
         /\ \A f \in Seq(Finding) : Append(f \o Told(r, n), <<r, n + 1>>) = f \o Told(r, n + 1)
<1>1. \A k \in Nat : Told(r, k) \in Seq(Finding) /\ Len(Told(r, k)) = k
  <2> SUFFICES ASSUME NEW k \in Nat PROVE Told(r, k) \in Seq(Finding) /\ Len(Told(r, k)) = k
    OBVIOUS
  <2>1. \A i \in 1 .. k : <<r, i>> \in Finding
    BY DEF Finding
  <2> QED
    BY <2>1 DEF Told
<1>2. <<r, n + 1>> \in Finding
  BY DEF Finding
<1> DEFINE next == <<r, n + 1>>
           longer == Append(Told(r, n), next)
<1> HIDE DEF next
<1>3. /\ longer \in Seq(Finding) /\ Len(longer) = n + 1
      /\ \A i \in 1 .. n + 1 : longer[i] = IF i <= n THEN Told(r, n)[i] ELSE next
  BY <1>1, <1>2, AppendFacts DEF next
<1> HIDE DEF longer
<1>4. \A i \in 1 .. n + 1 : longer[i] = Told(r, n + 1)[i]
  BY <1>3 DEF Told, next
<1>5. longer = Told(r, n + 1)
  BY <1>1, <1>3, <1>4, SeqEqual
<1>6. ASSUME NEW f \in Seq(Finding)
      PROVE  Append(f \o Told(r, n), next) = f \o Told(r, n + 1)
  <2>1. Told(r, n) \in Seq(Finding) /\ next \in Finding
    BY <1>1, <1>2 DEF next
  <2>2. f \o Told(r, n) \in Seq(Finding) /\ <<next>> \in Seq(Finding)
    BY <1>6, <2>1, ConcatProperties
  <2>3. Append(f \o Told(r, n), next) = (f \o Told(r, n)) \o <<next>> /\ longer = Told(r, n) \o <<next>>
    BY <2>1, <2>2, AppendIsConcat DEF longer
  <2>4. (f \o Told(r, n)) \o <<next>> = f \o (Told(r, n) \o <<next>>)
    BY <1>6, <2>1, <2>2, ConcatAssociative
  <2> QED
    BY <1>5, <2>3, <2>4
<1> QED
  BY <1>1, <1>2, <1>6 DEF next

\* onFinding is told of the next finding of the result being recorded.
LEMMA EmitKeeps ==
  ASSUME TypeOK, OneAtATime, EmitFinding
  PROVE  OneAtATime'
<1> DEFINE call == EmitCall(Head(calls).op, Head(calls).result, Head(calls).at + 1)
<1>1. /\ calls # <<>> /\ Head(calls).stage = "emit"
      /\ emitted' = Append(emitted, <<Head(calls).result, Head(calls).at + 1>>)
      /\ calls' = <<call>> \o Tail(calls)
      /\ UNCHANGED <<stream, core, answers>>
  BY DEF EmitFinding
<1>2. /\ Head(calls) \in Call /\ Head(calls).result = Len(core) /\ Head(calls).at \in Nat
      /\ Releases = {} /\ Len(core) \in Nat \ {0}
  <2>1. Head(calls) \in Call /\ Releases = {} /\ Len(core) \in Nat /\ DOMAIN core = 1 .. Len(core)
    BY <1>1, InnermostIsOnly
  <2>2. EmitsItsResult(Head(calls))
    BY <1>1, Pop DEF TypeOK
  <2>3. Head(calls).result = Len(core)
    BY <1>1 DEF OneAtATime, Emitting
  <2> QED
    BY <1>1, <2>1, <2>2, <2>3 DEF Call, EmitsItsResult
<1>3. call \in Call /\ call.stage = "emit" /\ call.result = Len(core) /\ call.at = Head(calls).at + 1
  BY <1>2 DEF EmitCall, Call
<1> HIDE DEF call
<1>4. calls' # <<>> /\ Len(calls') = Len(calls) /\ Head(calls') = call
  BY <1>1, <1>3, Replace
<1>5. Emitting /\ Emitting' /\ Cleared' = Cleared
  BY <1>1, <1>3, <1>4 DEF Emitting, Cleared
<1>6. StillOpen => emitted' = stream.findings \o Reporting'
  <2> SUFFICES ASSUME StillOpen PROVE emitted' = stream.findings \o Reporting'
    OBVIOUS
  <2> DEFINE n == Head(calls).at
  <2>1. Reporting = Told(Len(core), n) /\ Reporting' = Told(Len(core), n + 1)
    BY <1>1, <1>3, <1>4, <1>5 DEF Reporting, Told
  <2>3. emitted = stream.findings \o Told(Len(core), n) /\ stream.findings \in Seq(Finding)
    BY <2>1 DEF OneAtATime, TypeOK, Stream
  <2> QED
    BY <1>1, <1>2, <2>1, <2>3, ToldNext
<1>7. Releases' = {}
  BY <1>1, <1>2 DEF Releases
<1>8. ReleaseIsFaithful'
  BY <1>7 DEF ReleaseIsFaithful, ReleaseIsWhole, EventsMatchRelease
<1>9. StillOpen' = StillOpen
  BY <1>1, <1>2, <1>7 DEF StillOpen
<1>10. StillOpen' =>
          /\ stream'.staged = UpTo(Cleared')
          /\ \A k \in 1 .. Cleared' : ~core'[k].blocks
          /\ emitted' = stream'.findings \o Reporting'
  BY <1>1, <1>5, <1>6, <1>9 DEF OneAtATime
<1>11. Len(calls') <= 1 /\ Head(calls').result = Len(core')
  BY <1>1, <1>3, <1>4 DEF OneAtATime
<1> QED
  BY <1>7, <1>8, <1>10, <1>11 DEF OneAtATime, StillOpen, Cleared, Emitting, Reporting, UpTo

\* A step that stages the next result, or answers with it.
Taking ==
  /\ Releases = {} /\ Releases' = {}
  /\ stream.terminal = "none" /\ stream'.terminal = "none"
  /\ stream'.staged = Append(stream.staged, Len(stream.staged) + 1)

Releasing ==
  /\ Releases = {} /\ stream.terminal = "none"
  /\ \E k \in DOMAIN answers' :
       /\ Releases' = {k}
       /\ answers'[k].text = Append(stream.staged, Len(stream.staged) + 1)

\* The result whose findings have all been handed over is staged, answered
\* with, or refused.
LEMMA RecordKeeps ==
  ASSUME TypeOK, StreamInv, OneAtATime, RecordResult
  PROVE  OneAtATime' /\ (Failing \/ Taking \/ Releasing)
<1> DEFINE n == Len(core)
           s == Recorded(stream, n)
<1>1. /\ calls # <<>> /\ Head(calls).stage = "emit" /\ ~MoreToEmit(Head(calls))
      /\ Return(Recorded(stream, Head(calls).result))
      /\ UNCHANGED <<core, emitted>>
  BY DEF RecordResult
<1>2. /\ Head(calls) \in Call /\ Tail(calls) = <<>> /\ Releases = {}
      /\ core \in Seq(Result) /\ n \in Nat /\ DOMAIN core = 1 .. n
  BY <1>1, InnermostIsOnly
<1>3. Head(calls).result = n /\ Emitting
  BY <1>1 DEF OneAtATime, Emitting
<1>4. n \in DOMAIN core /\ n \in Nat \ {0} /\ Head(calls).at <= core[n].findings
  <2>1. EmitsItsResult(Head(calls))
    BY <1>1, Pop DEF TypeOK
  <2> QED
    BY <1>1, <1>2, <1>3, <2>1 DEF EmitsItsResult
<1>5. Head(calls).at = core[n].findings
  <2>1. core[n] \in Result /\ Head(calls).at \in Nat
    BY <1>2, <1>4, ElementOfSeq DEF Call
  <2>2. core[n].findings \in Nat
    BY <2>1, StreamAssumption DEF Result
  <2> QED
    BY <1>1, <1>3, <1>4, <2>1, <2>2 DEF MoreToEmit
<1>6. stream \in Stream /\ s \in Stream /\ Return(s) /\ calls' = <<>>
  <2>1. stream \in Stream
    BY DEF TypeOK
  <2> QED
    BY <1>1, <1>2, <1>3, <1>4, <2>1, RecordedType DEF Return
<1>7. Len(calls') = 0
  BY <1>6, EmptySeq
<1>8. CASE s.terminal # "none"
  <2>1. Failing
    BY <1>1, <1>6, <1>8, ReturnFailed
  <2> QED
    BY <1>7, <2>1, KindsKeep
<1>9. CASE s.terminal = "none"
  <2>1. stream.terminal = "none"
    BY <1>2, <1>4, <1>6, <1>9, RecordedType
  <2>2. ~core[n].blocks
    <3>1. SUFFICES ASSUME core[n].blocks PROVE FALSE
      OBVIOUS
    <3>2. "policy" \in Refusals /\ Staged(stream, n) \in Stream
      BY <1>2, <1>4, <1>6, StagedType DEF Refusals
    <3>3. s = Failed(Staged(stream, n), "policy")
      BY <3>1 DEF Recorded
    <3> QED
      BY <1>9, <3>2, <3>3, FailedType
  <2>3. s = Staged(stream, n)
    BY <2>2 DEF Recorded
  <2>4. /\ stream.staged = UpTo(n - 1)
        /\ \A r \in 1 .. n - 1 : ~core[r].blocks
        /\ emitted = stream.findings \o Told(n, Head(calls).at)
    BY <1>2, <1>3, <2>1 DEF OneAtATime, StillOpen, Cleared, Reporting
  <2>5. s.staged = UpTo(n) /\ s.staged = Append(stream.staged, Len(stream.staged) + 1)
    <3>1. s.staged = Append(stream.staged, n)
      BY <1>6, <2>3, StagedFields
    <3>2. Len(UpTo(n - 1)) = n - 1 /\ Append(UpTo(n - 1), n) = UpTo(n)
      <4>1. n - 1 \in Nat /\ (n - 1) + 1 = n
        BY <1>4
      <4> QED
        BY <4>1, UpToNext
    <3>3. Len(stream.staged) + 1 = n
      BY <1>4, <2>4, <3>2
    <3> QED
      BY <2>4, <3>1, <3>2, <3>3
  <2>6. s.findings = emitted
    <3>1. s.findings = stream.findings \o FindingsOf(n)
      BY <1>6, <2>3, StagedFields
    <3> QED
      BY <1>5, <2>4, <3>1 DEF FindingsOf, Told
  <2>7. \A r \in 1 .. n : ~core[r].blocks
    BY <1>4, <2>2, <2>4
  <2>8. ~Emitting' /\ Cleared' = n /\ Reporting' = <<>>
    BY <1>1, <1>6 DEF Emitting, Cleared, Reporting
  <2> HIDE DEF s
  <2>9. CASE Head(calls).op = "append"
    <3>1. stream' = s /\ answers' = answers
      BY <1>6, <2>9 DEF Return
    <3>2. Releases' = {}
      BY <1>2, <3>1 DEF Releases
    <3>3. Taking
      BY <1>2, <1>9, <2>1, <2>5, <3>1, <3>2 DEF Taking
    <3>4. ReleaseIsFaithful'
      BY <3>2 DEF ReleaseIsFaithful, ReleaseIsWhole, EventsMatchRelease
    <3>5. s.findings \o <<>> = s.findings
      BY <1>6, ConcatEmptySeq DEF Stream
    <3>6. /\ stream'.staged = UpTo(Cleared')
          /\ \A r \in 1 .. Cleared' : ~core'[r].blocks
          /\ emitted' = stream'.findings \o Reporting'
      BY <1>1, <2>5, <2>6, <2>7, <2>8, <3>1, <3>5
    <3>7. OneAtATime'
      BY <1>7, <2>8, <3>2, <3>4, <3>6 DEF OneAtATime, StillOpen, Cleared, Emitting, Reporting, UpTo
    <3> QED
      BY <3>3, <3>7
  <2>10. CASE Head(calls).op # "append"
    <3>1. stream' = Settled(s) /\ answers' = Append(answers, AnswerOf(s))
      BY <1>6, <2>10 DEF Return
    <3>2. /\ AnswerOf(s).outcome = "ok" /\ AnswerOf(s).text = s.staged /\ AnswerOf(s).findings = s.findings
          /\ AnswerOf(s) \in Answer
      BY <1>6, <1>9, AnswerType DEF AnswerOf
    <3> DEFINE k == Len(answers) + 1
    <3>3. Releases' = {k} /\ k \in DOMAIN answers' /\ answers'[k] = AnswerOf(s)
      <4>1. Len(answers) \in Nat /\ answers \in Seq(Answer)
        BY LenProperties DEF TypeOK
      <4>2. k \in DOMAIN answers' /\ answers'[k] = AnswerOf(s)
        BY <3>1, <3>2, <4>1, AppendFacts
      <4> QED
        BY <1>2, <3>1, <3>2, <4>2, ReleasesAppend
    <3> HIDE DEF k
    <3>4. Releasing
      BY <1>2, <2>1, <2>5, <3>2, <3>3 DEF Releasing
    <3>5. ReleaseIsFaithful'
      BY <1>1, <1>2, <2>5, <2>6, <2>7, <3>2, <3>3
         DEF ReleaseIsFaithful, ReleaseIsWhole, EventsMatchRelease, UpTo
    <3>6. stream'.finalized
      <4>1. stream.finalized
        BY <1>1, <1>2, <2>10, Pop DEF Call, TypeOK, StreamInv, FinalizeIsInnermost
      <4>2. s.finalized
        BY <1>2, <1>4, <1>6, <4>1, RecordedType DEF s
      <4> QED
        BY <1>6, <3>1, <4>2, SettledType
    <3>7. OneAtATime'
      BY <1>6, <1>7, <2>8, <3>3, <3>5, <3>6 DEF OneAtATime, StillOpen, Emitting
    <3> QED
      BY <3>4, <3>7
  <2> QED
    BY <2>9, <2>10
<1> QED
  BY <1>8, <1>9

\* Every step that leaves at most one call in progress keeps OneAtATime, and is
\* for the promise a stutter, a refusal, one more piece or the release.
LEMMA OneNext ==
  ASSUME TypeOK, StreamInv, OneAtATime, Len(calls') <= 1, [Next]_vars
  PROVE  OneAtATime' /\ [Promise!StagedNext]_(Promise!stagedVars)
<1> DEFINE Mapped == [Promise!StagedNext]_(Promise!stagedVars)
<1>a. ASSUME Releases' = Releases, \A i \in Releases : answers'[i] = answers[i],
             stream'.terminal = stream.terminal, stream'.staged = stream.staged
      PROVE  Mapped
  BY <1>a DEF Promise!stagedVars
<1>b. ASSUME Failing PROVE Mapped
  <2>1. CASE stream.terminal = "none"
    BY <1>b, <2>1 DEF Failing, Promise!StagedNext, Promise!Refuse
  <2>2. CASE stream.terminal # "none"
    BY <1>b, <2>2 DEF Failing, Promise!stagedVars
  <2> QED
    BY <2>1, <2>2
<1>c. ASSUME Taking PROVE Mapped
  BY <1>c DEF Taking, Promise!StagedNext, Promise!Take
<1>d. ASSUME Releasing PROVE Mapped
  BY <1>d DEF Releasing, Promise!StagedNext, Promise!Release
<1>1. CASE HostStep \/ CoreFails \/ UNCHANGED vars
  <2>1. Quiet \/ Failing
    BY <1>1, StepKinds
  <2>2. OneAtATime'
    BY <2>1, KindsKeep
  <2>3. Quiet => Mapped
    BY <1>a DEF Quiet
  <2> QED
    BY <1>b, <2>1, <2>2, <2>3
<1>2. CASE CoreReturns
  <2>1. /\ OneAtATime'
        /\ Failing \/ (UNCHANGED answers /\ stream'.terminal = stream.terminal /\ stream'.staged = stream.staged)
    BY <1>2, ReturnsKeep
  <2>2. UNCHANGED answers => Releases' = Releases /\ \A i \in Releases : answers'[i] = answers[i]
    BY DEF Releases
  <2> QED
    BY <1>a, <1>b, <2>1, <2>2
<1>3. CASE EmitFinding
  <2>1. UNCHANGED <<stream, answers>>
    BY <1>3 DEF EmitFinding
  <2>2. Releases' = Releases /\ \A i \in Releases : answers'[i] = answers[i]
    BY <2>1 DEF Releases
  <2> QED
    BY <1>3, <1>a, <2>1, <2>2, EmitKeeps
<1>4. CASE RecordResult
  BY <1>4, <1>b, <1>c, <1>d, RecordKeeps
<1> QED
  BY <1>1, <1>2, <1>3, <1>4 DEF Next, StreamStep

\* If append and finalize are only called while no call is in progress, no step
\* has a second one in progress.
LEMMA StaysSingle ==
  ASSUME TypeOK, Len(calls) <= 1, [Next]_vars,
         (\E isString \in BOOLEAN : Append_(isString)) \/ Finalize => calls = <<>>
  PROVE  Len(calls') <= 1
<1>0. calls \in Seq(Call) /\ Len(calls) \in Nat
  BY LenProperties DEF TypeOK
<1>a. ASSUME NEW op \in {"append", "finalize"}, calls = <<>>, calls' = <<CoreCall(op)>> \o calls
      PROVE  Len(calls') <= 1
  <2>1. Len(calls') = Len(calls) + 1 /\ Len(calls) = 0
    BY <1>0, <1>a, PushCore, EmptySeq
  <2> QED
    BY <2>1
<1>b. ASSUME calls # <<>>, calls' = Tail(calls) PROVE Len(calls') <= 1
  <2>1. Len(calls') = Len(calls) - 1
    BY <1>0, <1>b, Pop
  <2> QED
    BY <1>0, <2>1
<1>c. ASSUME calls # <<>>, NEW call \in Call, calls' = <<call>> \o Tail(calls) PROVE Len(calls') <= 1
  BY <1>c, Replace
<1>1. ASSUME NEW isString \in BOOLEAN, Append_(isString) PROVE Len(calls') <= 1
  BY <1>a, <1>1 DEF Append_
<1>2. CASE Finalize
  BY <1>a, <1>2 DEF Finalize
<1>3. CASE OpenStream \/ Abort \/ Cancel \/ UNCHANGED vars
  BY <1>3 DEF OpenStream, Abort, Cancel, vars
<1>4. CASE CoreFails \/ RecordResult
  BY <1>b, <1>4 DEF CoreFails, RecordResult, Return, InPolicy
<1>5. CASE CoreReturns
  <2>1. calls # <<>> /\ Head(calls) \in Call
    BY <1>0, <1>5, Pop DEF CoreReturns, InPolicy
  <2>2. EmitCall(Head(calls).op, Len(core) + 1, 0) \in Call
    <3>1. Len(core) \in Nat
      BY LenProperties DEF TypeOK
    <3> QED
      BY <2>1, <3>1 DEF EmitCall, Call
  <2>3. calls' = <<EmitCall(Head(calls).op, Len(core) + 1, 0)>> \o Tail(calls) \/ calls' = Tail(calls)
    BY <1>5 DEF CoreReturns, Return
  <2> QED
    BY <1>b, <1>c, <2>1, <2>2, <2>3
<1>6. CASE EmitFinding
  <2>1. calls # <<>> /\ Head(calls) \in Call
    BY <1>0, <1>6, Pop DEF EmitFinding
  <2>2. EmitCall(Head(calls).op, Head(calls).result, Head(calls).at + 1) \in Call
    BY <2>1 DEF EmitCall, Call
  <2> QED
    BY <1>6, <1>c, <2>1, <2>2 DEF EmitFinding
<1> QED
  BY <1>1, <1>2, <1>3, <1>4, <1>5, <1>6 DEF Next, HostStep, StreamStep

\* OneAtATime holds initially, and the promise starts open and empty.
LEMMA OneInit == Init => OneAtATime /\ Promise!StagedInit
<1> SUFFICES ASSUME Init PROVE OneAtATime /\ Promise!StagedInit
  OBVIOUS
<1>1. /\ calls = <<>> /\ core = <<>> /\ emitted = <<>> /\ answers = <<>>
      /\ stream.staged = <<>> /\ stream.findings = <<>> /\ stream.terminal = "none"
  BY DEF Init
<1>2. Len(calls) = 0 /\ Len(core) = 0 /\ DOMAIN answers = {}
  BY <1>1
<1>3. Releases = {} /\ ~Emitting
  BY <1>1, <1>2 DEF Releases, Emitting
<1>4. Cleared = 0 /\ Reporting = <<>> /\ UpTo(0) = <<>> /\ <<>> \o <<>> = <<>>
  BY <1>2, <1>3 DEF Cleared, Reporting, UpTo
<1>5. ReleaseIsFaithful
  BY <1>3 DEF ReleaseIsFaithful, ReleaseIsWhole, EventsMatchRelease
<1>6. stream.staged = UpTo(Cleared) /\ emitted = stream.findings \o Reporting
      /\ \A r \in 1 .. Cleared : ~core[r].blocks
  BY <1>1, <1>4
<1>7. OneAtATime
  BY <1>2, <1>3, <1>5, <1>6 DEF OneAtATime
<1>8. Promise!StagedInit
  BY <1>1, <1>3 DEF Promise!StagedInit
<1> QED
  BY <1>7, <1>8

\* An onFinding that neither appends nor finalizes leaves one call at a time.
LEMMA NotReentered ==
  ASSUME TypeOK, OneAtATime, [Next]_vars, Callback \subseteq {"abort", "cancel"}
  PROVE  Len(calls') <= 1
<1>1. "append" \notin Callback /\ "finalize" \notin Callback
  OBVIOUS
<1>2. (\E isString \in BOOLEAN : Append_(isString)) \/ Finalize => calls = <<>>
  BY <1>1 DEF Append_, Finalize, HostMay
<1> QED
  BY <1>2, StaysSingle DEF OneAtATime

\* A stream whose onFinding only aborts or cancels keeps the promise of
\* StagedRelease: its pieces come out in the order the core cleared them, all of
\* them and once, or not at all.
THEOREM PromiseIsKept ==
  ASSUME Callback \subseteq {"abort", "cancel"}
  PROVE  Spec => KeepsPromise
<1>1. Init => OneAtATime /\ Promise!StagedInit
  BY OneInit
<1>2. TypeOK /\ StreamInv /\ OneAtATime /\ [Next]_vars =>
        OneAtATime' /\ [Promise!StagedNext]_(Promise!stagedVars)
  BY NotReentered, OneNext
<1> QED
  BY <1>1, <1>2, TypeCorrect, StreamAgrees, PTL DEF Spec, KeepsPromise, Promise!StagedSpec

\* Under the same hypothesis a release is the text of every result the core
\* returned, in that order, none of which blocks, with the findings onFinding
\* was told of.
THEOREM FaithfulRelease ==
  ASSUME Callback \subseteq {"abort", "cancel"}
  PROVE  Spec => []ReleaseIsFaithful
<1>1. Init => OneAtATime
  BY OneInit
<1>2. TypeOK /\ StreamInv /\ OneAtATime /\ [Next]_vars => OneAtATime'
  BY NotReentered, OneNext
<1>3. OneAtATime => ReleaseIsFaithful
  BY DEF OneAtATime
<1> QED
  BY <1>1, <1>2, <1>3, TypeCorrect, StreamAgrees, PTL DEF Spec

-----------------------------------------------------------------------------
(* However the callbacks re-enter the stream, no release carries more      *)
(* findings than were charged.                                             *)

\* The findings of the results the core has returned and been charged for.
Listed == {f \in Finding : f[1] \in DOMAIN core /\ f[2] <= core[f[1]].findings}

\* A sequence of findings lists none twice and only those charged for.
EachOnce(fs) ==
  /\ \A i \in DOMAIN fs : fs[i] \in Listed
  /\ \A i, j \in DOMAIN fs : fs[i] = fs[j] => i = j

\* No two calls in progress record one result, and none records a result whose
\* findings are listed already.
Apart(cs, fs) ==
  /\ \A i, j \in DOMAIN cs :
       cs[i].stage = "emit" /\ cs[j].stage = "emit" /\ cs[i].result = cs[j].result => i = j
  /\ \A i \in DOMAIN cs, k \in DOMAIN fs : cs[i].stage = "emit" => fs[k][1] # cs[i].result

\* What was spent is what the core's results report, what is held was charged
\* for once, and what is being recorded is not held yet.
PaidFor ==
  /\ IsFiniteSet(Listed) /\ Cardinality(Listed) = stream.budget.spent["findings"]
  /\ stream.budget.spent["findings"] <= Limits["findings"]
  /\ EachOnce(stream.findings)
  /\ Apart(calls, stream.findings)
  /\ ReleaseWithinBudget

\* The first k numbers are k.
LEMMA FirstNumbers ==
  ASSUME NEW k \in Nat
  PROVE  IsFiniteSet(1 .. k) /\ Cardinality(1 .. k) = k
<1>1. k \in Int /\ 1 \in Int
  OBVIOUS
<1>2. IsFiniteSet(1 .. k) /\ Cardinality(1 .. k) = IF 1 > k THEN 0 ELSE k - 1 + 1
  BY <1>1, FS_Interval
<1> QED
  BY <1>2

\* A sequence that lists no finding twice is no longer than what was spent.
LEMMA NoLongerThanSpent ==
  ASSUME IsFiniteSet(Listed), Cardinality(Listed) <= Limits["findings"],
         NEW fs \in Seq(Finding), EachOnce(fs)
  PROVE  Len(fs) <= Limits["findings"]
<1>1. DOMAIN fs = 1 .. Len(fs) /\ Len(fs) \in Nat /\ fs \in [1 .. Len(fs) -> Finding]
  BY LenProperties
<1>2. fs \in Injection(1 .. Len(fs), Listed)
  BY <1>1 DEF EachOnce, Injection, IsInjective
<1>3. Cardinality(1 .. Len(fs)) <= Cardinality(Listed)
  BY <1>2, FS_Injection
<1>4. Cardinality(1 .. Len(fs)) = Len(fs)
  BY <1>1, FirstNumbers
<1>5. Cardinality(Listed) \in Nat /\ Limits["findings"] \in Nat
  BY FS_CardinalityType, LimitsAssumption DEF Meters
<1> QED
  BY <1>1, <1>3, <1>4, <1>5

\* A call that returns, and a call of the core that begins, leave the others
\* apart; so does holding nothing.
LEMMA ApartStack ==
  ASSUME TypeOK, NEW fs, Apart(calls, fs),
         \/ calls' = calls
         \/ calls # <<>> /\ calls' = Tail(calls)
         \/ \E op \in {"append", "finalize"} : calls' = <<CoreCall(op)>> \o calls
  PROVE  Apart(calls', fs) /\ Apart(calls', <<>>)
<1>0. calls \in Seq(Call) /\ DOMAIN calls = 1 .. Len(calls) /\ Len(calls) \in Nat
  BY LenProperties DEF TypeOK
<1>1. DOMAIN <<>> = {}
  OBVIOUS
<1> SUFFICES Apart(calls', fs)
  BY <1>1 DEF Apart
<1>2. CASE calls' = calls
  BY <1>2
<1>3. CASE calls # <<>> /\ calls' = Tail(calls)
  <2>1. \A i \in DOMAIN calls' : i \in Nat /\ i + 1 \in DOMAIN calls /\ calls'[i] = calls[i + 1]
    <3>1. Tail(calls) \in Seq(Call)
      BY <1>0, <1>3, Pop
    <3>2. \A i \in DOMAIN Tail(calls) : i \in Nat
      BY <3>1, LenProperties
    <3> QED
      BY <1>0, <1>3, <3>2, Pop
  <2>2. ASSUME NEW i \in DOMAIN calls', NEW j \in DOMAIN calls',
               calls'[i].stage = "emit", calls'[j].stage = "emit", calls'[i].result = calls'[j].result
        PROVE  i = j
    <3>1. i \in Nat /\ j \in Nat /\ i + 1 = j + 1
      BY <2>1, <2>2 DEF Apart
    <3> QED
      BY <3>1
  <2>3. ASSUME NEW i \in DOMAIN calls', NEW k \in DOMAIN fs, calls'[i].stage = "emit"
        PROVE  fs[k][1] # calls'[i].result
    BY <2>1, <2>3 DEF Apart
  <2> QED
    BY <2>2, <2>3 DEF Apart
<1>4. ASSUME NEW op \in {"append", "finalize"}, calls' = <<CoreCall(op)>> \o calls
      PROVE  Apart(calls', fs)
  <2>1. /\ calls' \in Seq(Call) /\ Len(calls') = Len(calls) + 1
        /\ \A i \in DOMAIN calls' : calls'[i] = IF i = 1 THEN CoreCall(op) ELSE calls[i - 1]
    BY <1>4, PushCore
  <2>2. DOMAIN calls' = 1 .. Len(calls) + 1
    BY <2>1, LenProperties
  <2>3. ASSUME NEW i \in DOMAIN calls', calls'[i].stage = "emit"
        PROVE  i \in Nat /\ i - 1 \in DOMAIN calls /\ calls'[i] = calls[i - 1]
    <3>1. CoreCall(op).stage # "emit"
      BY DEF CoreCall
    <3>2. i # 1 /\ calls'[i] = calls[i - 1]
      BY <2>1, <2>3, <3>1
    <3>3. i \in 1 .. Len(calls) + 1
      BY <2>2, <2>3
    <3>4. i \in Nat /\ i - 1 \in 1 .. Len(calls)
      BY <1>0, <3>2, <3>3
    <3> QED
      BY <1>0, <3>2, <3>4
  <2>4. ASSUME NEW i \in DOMAIN calls', NEW j \in DOMAIN calls',
               calls'[i].stage = "emit", calls'[j].stage = "emit", calls'[i].result = calls'[j].result
        PROVE  i = j
    <3>1. i \in Nat /\ j \in Nat /\ i - 1 = j - 1
      BY <2>3, <2>4 DEF Apart
    <3> QED
      BY <3>1
  <2>5. ASSUME NEW i \in DOMAIN calls', NEW k \in DOMAIN fs, calls'[i].stage = "emit"
        PROVE  fs[k][1] # calls'[i].result
    BY <2>3, <2>5 DEF Apart
  <2> QED
    BY <2>4, <2>5 DEF Apart
<1> QED
  BY <1>2, <1>3, <1>4

\* A call in progress that starts to record a result, or goes on recording it.
LEMMA ApartReplace ==
  ASSUME TypeOK, NEW fs, Apart(calls, fs), calls # <<>>, NEW call \in Call, calls' = <<call>> \o Tail(calls),
         call.stage = "emit",
         \A k \in DOMAIN fs : fs[k][1] # call.result,
         \A i \in DOMAIN calls : i # 1 /\ calls[i].stage = "emit" => calls[i].result # call.result
  PROVE  Apart(calls', fs)
<1>1. DOMAIN calls' = DOMAIN calls /\ \A i \in DOMAIN calls' : calls'[i] = IF i = 1 THEN call ELSE calls[i]
  BY Replace
<1> QED
  BY <1>1 DEF Apart

\* A step that neither charges nor stages: what is held stays, or goes.
LEMMA PaidQuiet ==
  ASSUME TypeOK, PaidFor, UNCHANGED core, stream'.budget.spent = stream.budget.spent,
         stream'.findings = stream.findings \/ stream'.findings = <<>>,
         ReleaseWithinBudget', Apart(calls', stream'.findings)
  PROVE  PaidFor'
<1>1. Listed' = Listed
  BY DEF Listed
<1>2. EachOnce(stream.findings) /\ EachOnce(<<>>)
  BY DEF PaidFor, EachOnce
<1>3. EachOnce(stream'.findings)
  BY <1>2
<1>4. EachOnce(stream.findings)'
  BY <1>1, <1>3 DEF EachOnce
<1> QED
  BY <1>1, <1>4 DEF PaidFor, Apart

\* One more answer stays within the budget when, if it is ok, it is short enough.
LEMMA WithinAppend ==
  ASSUME TypeOK, ReleaseWithinBudget, NEW a \in Answer, answers' = Append(answers, a),
         a.outcome = "ok" => Len(a.findings) <= Limits["findings"]
  PROVE  ReleaseWithinBudget'
<1>1. /\ DOMAIN answers = 1 .. Len(answers) /\ Len(answers) \in Nat
      /\ \A i \in 1 .. Len(answers) + 1 : answers'[i] = IF i <= Len(answers) THEN answers[i] ELSE a
      /\ DOMAIN answers' = 1 .. Len(answers) + 1
  BY AppendFacts, LenProperties DEF TypeOK
<1> QED
  BY <1>1 DEF ReleaseWithinBudget, Releases

\* fail and finalize's tail let go of the findings, and spend nothing.
LEMMA LetGo ==
  ASSUME NEW s \in Stream
  PROVE  /\ \A reason \in Refusals : Failed(s, reason).findings = <<>> /\ Failed(s, reason).budget = s.budget
         /\ Settled(s).budget = s.budget
         /\ Settled(s).findings = s.findings \/ Settled(s).findings = <<>>
  BY DEF Failed, Settled, Stream

\* A call that returns with a stream that holds nothing, or what it held, and
\* has spent the same, keeps PaidFor.
LEMMA PaidReturn ==
  ASSUME TypeOK, PaidFor, calls # <<>>, NEW s \in Stream, Return(s), UNCHANGED core,
         s.terminal # "none", s.budget.spent = stream.budget.spent, s.findings = <<>>
  PROVE  PaidFor'
<1>1. calls' = Tail(calls)
  BY DEF Return
<1>2. Apart(calls', stream.findings) /\ Apart(calls', <<>>)
  BY <1>1, ApartStack DEF PaidFor
<1>3. CASE Head(calls).op = "append"
  <2>1. stream' = s /\ answers' = answers
    BY <1>3 DEF Return
  <2>2. ReleaseWithinBudget'
    BY <2>1 DEF PaidFor, ReleaseWithinBudget, Releases
  <2> QED
    BY <1>2, <2>1, <2>2, PaidQuiet
<1>4. CASE Head(calls).op # "append"
  <2>1. stream' = Settled(s) /\ answers' = Append(answers, AnswerOf(s))
    BY <1>4 DEF Return
  <2>2. ReleaseWithinBudget'
    BY <2>1, AnswerType, WithinAppend DEF PaidFor
  <2>3. stream'.findings = <<>> /\ stream'.budget.spent = stream.budget.spent
    BY <2>1, LetGo
  <2> QED
    BY <1>2, <2>2, <2>3, PaidQuiet
<1> QED
  BY <1>3, <1>4

\* What the host does neither charges nor stages.
LEMMA PaidHost ==
  ASSUME TypeOK, PaidFor, HostStep \/ UNCHANGED vars
  PROVE  PaidFor'
<1>0. stream \in Stream
  BY DEF TypeOK
<1>a. "aborted" \in Refusals /\ "unsupported_value" \in Refusals /\ CoreFailures \subseteq Refusals
  BY DEF Refusals, CoreFailures
<1>b. ASSUME UNCHANGED <<core, answers>>, stream'.budget = stream.budget,
             stream'.findings = stream.findings \/ stream'.findings = <<>>,
             \/ calls' = calls
             \/ \E op \in {"append", "finalize"} : calls' = <<CoreCall(op)>> \o calls
      PROVE  PaidFor'
  <2>1. ReleaseWithinBudget'
    BY <1>b DEF PaidFor, ReleaseWithinBudget, Releases
  <2>2. Apart(calls', stream.findings) /\ Apart(calls', <<>>)
    BY <1>b, ApartStack DEF PaidFor
  <2> QED
    BY <1>b, <2>1, <2>2, PaidQuiet
<1>1. CASE OpenStream
  <2> DEFINE absent == [stream EXCEPT !.session = "absent"]
             opened == [stream EXCEPT !.session = "open", !.listening = (signal = "events")]
  <2>1. UNCHANGED <<calls, core, answers>>
        /\ (stream' = opened \/ \E reason \in Refusals : stream' = Failed(absent, reason))
    BY <1>1, <1>a DEF OpenStream
  <2>2. absent \in Stream /\ absent.budget = stream.budget
        /\ opened.budget = stream.budget /\ opened.findings = stream.findings
    BY <1>0 DEF Stream
  <2> HIDE DEF absent, opened
  <2> QED
    BY <1>b, <2>1, <2>2, LetGo
<1>2. ASSUME NEW isString \in BOOLEAN, Append_(isString) PROVE PaidFor'
  <2>1. UNCHANGED <<core, answers>>
        /\ \/ UNCHANGED calls /\ \E reason \in Refusals : stream' = Failed(stream, reason)
           \/ calls' = <<CoreCall("append")>> \o calls /\ UNCHANGED stream
    BY <1>2, <1>a DEF Append_
  <2> QED
    BY <1>0, <1>b, <2>1, LetGo
<1>3. CASE Finalize
  <2> DEFINE begun  == [stream EXCEPT !.finalized = TRUE]
             polled == IF aborted THEN Failed(begun, "aborted") ELSE begun
  <2>1. begun \in Stream /\ begun.budget = stream.budget /\ begun.findings = stream.findings
    BY <1>0 DEF Stream
  <2>2. polled \in Stream
    BY <1>a, <2>1, FailedType
  <2>3. polled.budget = stream.budget /\ (polled.findings = stream.findings \/ polled.findings = <<>>)
    BY <1>a, <2>1, LetGo
  <2> HIDE DEF begun, polled
  <2>4. UNCHANGED core
    BY <1>3 DEF Finalize
  <2>5. CASE calls' = <<CoreCall("finalize")>> \o calls /\ stream' = begun /\ UNCHANGED answers
    BY <1>b, <2>1, <2>4, <2>5
  <2>6. CASE stream.finalized
    <3>1. answers' = Append(answers, FinalizedAnswer) /\ UNCHANGED <<stream, calls>>
      BY <1>3, <2>6 DEF Finalize
    <3>2. ReleaseWithinBudget'
      BY <3>1, FinalizedAnswerType, WithinAppend DEF PaidFor
    <3> QED
      BY <2>4, <3>1, <3>2, PaidQuiet DEF PaidFor
  <2>7. CASE /\ polled.terminal # "none" /\ UNCHANGED calls
             /\ stream' = Settled(polled) /\ answers' = Append(answers, AnswerOf(polled))
    <3>1. ReleaseWithinBudget'
      BY <2>2, <2>7, AnswerType, WithinAppend DEF PaidFor
    <3>2. stream'.budget = stream.budget /\ (stream'.findings = stream.findings \/ stream'.findings = <<>>)
      BY <2>2, <2>3, <2>7, LetGo
    <3>3. Apart(calls', stream.findings) /\ Apart(calls', <<>>)
      BY <2>7, ApartStack DEF PaidFor
    <3> QED
      BY <2>4, <3>1, <3>2, <3>3, PaidQuiet
  <2> QED
    BY <1>3, <2>5, <2>6, <2>7 DEF Finalize, begun, polled
<1>4. CASE Abort
  <2>1. stream' = Failed(stream, "aborted") /\ UNCHANGED <<calls, core, answers>>
    BY <1>4 DEF Abort
  <2> QED
    BY <1>0, <1>a, <1>b, <2>1, LetGo
<1>5. CASE Cancel
  <2> DEFINE detached == [stream EXCEPT !.listening = FALSE]
  <2>1. UNCHANGED <<calls, core, answers>>
        /\ (stream' = stream \/ stream' = detached \/ stream' = Failed(stream, "aborted"))
    BY <1>5 DEF Cancel
  <2>2. detached.budget = stream.budget /\ detached.findings = stream.findings
    BY <1>0 DEF Stream
  <2> HIDE DEF detached
  <2> QED
    BY <1>0, <1>a, <1>b, <2>1, <2>2, LetGo
<1>6. CASE UNCHANGED vars
  BY <1>6, <1>b DEF vars
<1> QED
  BY <1>1, <1>2, <1>3, <1>4, <1>5, <1>6 DEF HostStep

\* The findings of the core's next result are charged for when it is returned.
LEMMA ListedGrows ==
  ASSUME TypeOK, PaidFor, NEW r \in Result, core' = Append(core, r)
  PROVE  /\ IsFiniteSet(Listed')
         /\ Cardinality(Listed') = Cardinality(Listed) + r.findings
         /\ Listed \subseteq Listed'
         /\ \A f \in Listed : f[1] # Len(core) + 1
<1> DEFINE n == Len(core) + 1
           new == {<<n, i>> : i \in 1 .. r.findings}
<1>1. core \in Seq(Result) /\ Len(core) \in Nat /\ DOMAIN core = 1 .. Len(core) /\ r.findings \in Nat
  BY LenProperties, StreamAssumption DEF TypeOK, Result
<1>2. DOMAIN core' = 1 .. n /\ \A i \in 1 .. n : core'[i] = IF i <= Len(core) THEN core[i] ELSE r
  BY <1>1, AppendFacts
<1>3. \A f \in Listed : f[1] # n
  BY <1>1 DEF Listed
<1>4. Listed' = Listed \cup new
  <2>1. ASSUME NEW f \in Listed' PROVE f \in Listed \cup new
    <3>1. f \in Finding /\ f[1] \in 1 .. n /\ f[2] <= core'[f[1]].findings /\ f = <<f[1], f[2]>>
          /\ f[2] \in Nat \ {0}
      BY <1>2, <2>1 DEF Listed, Finding
    <3>2. CASE f[1] = n
      <4>1. f[2] <= r.findings
        BY <1>1, <1>2, <3>1, <3>2
      <4>2. f[2] \in 1 .. r.findings
        BY <1>1, <3>1, <4>1
      <4> QED
        BY <3>1, <3>2, <4>2
    <3>3. CASE f[1] # n
      BY <1>1, <1>2, <3>1, <3>3 DEF Listed
    <3> QED
      BY <3>2, <3>3
  <2>2. ASSUME NEW f \in Listed PROVE f \in Listed'
    BY <1>1, <1>2, <2>2 DEF Listed
  <2>3. ASSUME NEW i \in 1 .. r.findings PROVE <<n, i>> \in Listed'
    BY <1>1, <1>2, <2>3 DEF Listed, Finding
  <2> QED
    BY <2>1, <2>2, <2>3
<1>5. IsFiniteSet(new) /\ Cardinality(new) = r.findings
  <2>1. IsFiniteSet(1 .. r.findings) /\ Cardinality(1 .. r.findings) = r.findings
    BY <1>1, FirstNumbers
  <2> DEFINE pair == [i \in 1 .. r.findings |-> <<n, i>>]
  <2>2. pair \in Bijection(1 .. r.findings, new)
    BY DEF Bijection, Injection, IsInjective, Surjection
  <2>3. ExistsBijection(1 .. r.findings, new)
    BY <2>2 DEF ExistsBijection
  <2> QED
    BY <2>1, <2>3, FS_Bijection
<1>6. IsFiniteSet(Listed)
  BY DEF PaidFor
<1>7. Listed \cap new = {}
  BY <1>3
<1>8. IsFiniteSet(Listed \cup new)
      /\ Cardinality(Listed \cup new) = Cardinality(Listed) + Cardinality(new) - Cardinality(Listed \cap new)
  BY <1>5, <1>6, FS_Union
<1>9. Cardinality(Listed \cap new) = 0 /\ Cardinality(Listed) \in Nat
  BY <1>6, <1>7, FS_EmptySet, FS_CardinalityType
<1> HIDE DEF new
<1> QED
  BY <1>1, <1>3, <1>4, <1>5, <1>8, <1>9

\* A result the budget affords is charged for in full; any other fails the
\* stream and costs nothing.
LEMMA PaidReturns ==
  ASSUME TypeOK, PaidFor, CoreReturns
  PROVE  PaidFor'
<1>0. stream \in Stream /\ calls # <<>> /\ Head(calls).stage = "core"
  BY DEF TypeOK, CoreReturns, InPolicy
<1>a. "limit_exceeded" \in Refusals /\ "findings" \in Meters
  BY DEF Refusals, CoreFailures, Meters
<1> DEFINE session == SessionAfter(Head(calls).op)
           budget(r) == Charged(stream.budget, "findings", r.findings)
           charged(r) == [stream EXCEPT !.session = session, !.budget = Charged(@, "findings", r.findings)]
<1>1. PICK r \in Result :
        IF Affords(r.findings)
        THEN /\ core' = Append(core, r)
             /\ stream' = charged(r)
             /\ calls' = <<EmitCall(Head(calls).op, Len(core) + 1, 0)>> \o Tail(calls)
             /\ UNCHANGED answers
        ELSE Return(Failed(charged(r), "limit_exceeded")) /\ UNCHANGED core
  BY Zenon DEF CoreReturns
<1>2. charged(r) \in Stream
  <2>1. session \in {"unopened", "absent", "open", "ended"}
    BY <1>0 DEF SessionAfter, Stream
  <2> QED
    BY <1>0, <2>1, ChargedStreamType
<1>3. charged(r).budget = budget(r) /\ charged(r).findings = stream.findings
  BY <1>0 DEF Stream
<1>4. r.findings \in Nat /\ stream.budget \in Budget /\ stream.findings \in Seq(Finding)
  BY <1>0, StreamAssumption DEF Result, Stream
<1>5. budget(r).spent["findings"] =
        IF Affords(r.findings) THEN stream.budget.spent["findings"] + r.findings
        ELSE stream.budget.spent["findings"]
  BY <1>a, <1>4, ChargedMeter DEF Affords
<1> HIDE DEF session
<1>6. CASE Affords(r.findings)
  <2> HIDE DEF charged, budget
  <2> DEFINE call == EmitCall(Head(calls).op, Len(core) + 1, 0)
  <2>1. core' = Append(core, r) /\ stream' = charged(r) /\ calls' = <<call>> \o Tail(calls) /\ UNCHANGED answers
    BY <1>1, <1>6
  <2>2. call \in Call /\ call.stage = "emit" /\ call.result = Len(core) + 1
    <3>1. Head(calls) \in Call /\ Len(core) \in Nat
      BY <1>0, Pop, LenProperties DEF TypeOK
    <3> QED
      BY <3>1 DEF EmitCall, Call
  <2> HIDE DEF call
  <2>3. /\ IsFiniteSet(Listed') /\ Cardinality(Listed') = Cardinality(Listed) + r.findings
        /\ Listed \subseteq Listed' /\ \A f \in Listed : f[1] # Len(core) + 1
    BY <2>1, ListedGrows
  <2>4. EachOnce(stream.findings) /\ Apart(calls, stream.findings)
        /\ Cardinality(Listed) = stream.budget.spent["findings"]
    BY DEF PaidFor
  <2>5. \A k \in DOMAIN stream.findings : stream.findings[k][1] # call.result
    BY <2>2, <2>3, <2>4 DEF EachOnce
  <2>6. \A i \in DOMAIN calls : i # 1 /\ calls[i].stage = "emit" => calls[i].result # call.result
    <3>1. \A i \in DOMAIN calls : calls[i].stage = "emit" => calls[i].result \in DOMAIN core
      BY DEF TypeOK, EmitsItsResult
    <3>2. Len(core) + 1 \notin DOMAIN core
      <4>1. DOMAIN core = 1 .. Len(core) /\ Len(core) \in Nat
        BY LenProperties DEF TypeOK
      <4> QED
        BY <4>1
    <3> QED
      BY <2>2, <3>1, <3>2
  <2>7. Apart(calls', stream.findings)
    BY <1>0, <2>1, <2>2, <2>4, <2>5, <2>6, ApartReplace
  <2>8. stream'.findings = stream.findings /\ stream'.budget.spent["findings"] = budget(r).spent["findings"]
    BY <1>3, <2>1
  <2>9. EachOnce(stream.findings)'
    BY <2>3, <2>4, <2>8 DEF EachOnce
  <2>10. Apart(calls, stream.findings)'
    BY <2>7, <2>8 DEF Apart
  <2>11. Cardinality(Listed') = stream'.budget.spent["findings"]
    BY <1>5, <1>6, <2>3, <2>4, <2>8
  <2>12. stream'.budget.spent["findings"] <= Limits["findings"]
    BY <1>5, <1>6, <2>8 DEF Affords, Fits
  <2>13. ReleaseWithinBudget'
    BY <2>1 DEF PaidFor, ReleaseWithinBudget, Releases
  <2> QED
    BY <2>3, <2>9, <2>10, <2>11, <2>12, <2>13 DEF PaidFor
<1>7. CASE ~Affords(r.findings)
  <2> DEFINE s == Failed(charged(r), "limit_exceeded")
  <2>1. Return(s) /\ UNCHANGED core
    BY <1>1, <1>7
  <2>2. budget(r) = Refused(stream.budget)
    BY <1>7 DEF Charged, Affords
  <2>3. budget(r).spent = stream.budget.spent
    BY <1>4, <2>2 DEF Refused, Budget
  <2>4. s \in Stream /\ s.terminal # "none" /\ s.findings = <<>> /\ s.budget = budget(r)
    BY <1>2, <1>3, <1>a, FailedType, LetGo
  <2> HIDE DEF s, charged, budget
  <2> QED
    BY <1>0, <2>1, <2>3, <2>4, PaidReturn
<1> QED
  BY <1>6, <1>7

\* The core failing costs nothing.
LEMMA PaidFails ==
  ASSUME TypeOK, PaidFor, CoreFails
  PROVE  PaidFor'
<1>1. PICK reason \in CoreFailures : Return(Failed(stream, reason))
  BY DEF CoreFails
<1>2. reason \in Refusals /\ stream \in Stream /\ calls # <<>> /\ UNCHANGED core
  BY DEF Refusals, TypeOK, CoreFails, InPolicy
<1>3. /\ Failed(stream, reason) \in Stream /\ Failed(stream, reason).terminal # "none"
      /\ Failed(stream, reason).findings = <<>> /\ Failed(stream, reason).budget = stream.budget
  BY <1>2, FailedType, LetGo
<1> QED
  BY <1>1, <1>2, <1>3, PaidReturn

\* Handing a finding over changes nothing that is held.
LEMMA PaidEmit ==
  ASSUME TypeOK, PaidFor, EmitFinding
  PROVE  PaidFor'
<1> DEFINE call == EmitCall(Head(calls).op, Head(calls).result, Head(calls).at + 1)
<1>1. calls # <<>> /\ Head(calls).stage = "emit" /\ calls' = <<call>> \o Tail(calls)
      /\ UNCHANGED <<stream, core, answers>>
  BY DEF EmitFinding
<1>2. Head(calls) \in Call /\ Head(calls) = calls[1] /\ 1 \in DOMAIN calls
  BY <1>1, Pop DEF TypeOK
<1>3. call \in Call /\ call.stage = "emit" /\ call.result = Head(calls).result
  BY <1>2 DEF EmitCall, Call
<1> HIDE DEF call
<1>4. Apart(calls, stream.findings)
  BY DEF PaidFor
<1>5. /\ \A k \in DOMAIN stream.findings : stream.findings[k][1] # call.result
      /\ \A i \in DOMAIN calls : i # 1 /\ calls[i].stage = "emit" => calls[i].result # call.result
  BY <1>1, <1>2, <1>3, <1>4 DEF Apart
<1>6. Apart(calls', stream.findings)
  BY <1>1, <1>3, <1>4, <1>5, ApartReplace
<1>7. ReleaseWithinBudget'
  BY <1>1 DEF PaidFor, ReleaseWithinBudget, Releases
<1> QED
  BY <1>1, <1>6, <1>7, PaidQuiet

\* Staging the findings of a result adds each once.
LEMMA StagedOnce ==
  ASSUME TypeOK, NEW r \in DOMAIN core, EachOnce(stream.findings),
         \A k \in DOMAIN stream.findings : stream.findings[k][1] # r
  PROVE  /\ stream.findings \o FindingsOf(r) \in Seq(Finding)
         /\ EachOnce(stream.findings \o FindingsOf(r))
         /\ \A k \in DOMAIN (stream.findings \o FindingsOf(r)) :
              \/ k \in DOMAIN stream.findings /\ (stream.findings \o FindingsOf(r))[k] = stream.findings[k]
              \/ (stream.findings \o FindingsOf(r))[k][1] = r
<1> DEFINE fs == stream.findings
           own == FindingsOf(r)
           all == fs \o own
<1>1. /\ fs \in Seq(Finding) /\ core \in Seq(Result) /\ r \in Nat \ {0} /\ core[r] \in Result
  <2>1. core \in Seq(Result) /\ stream \in Stream
    BY DEF TypeOK
  <2> QED
    BY <2>1, LenProperties, ElementOfSeq DEF Stream
<1>2. core[r].findings \in Nat
  BY <1>1, StreamAssumption DEF Result
<1>3. /\ own \in Seq(Finding) /\ Len(own) = core[r].findings
      /\ \A i \in 1 .. Len(own) : own[i] = <<r, i>> /\ own[i] \in Listed
  <2>1. \A i \in 1 .. core[r].findings : <<r, i>> \in Finding /\ <<r, i>> \in Listed
    BY <1>1, <1>2 DEF Finding, Listed
  <2>2. own \in Seq(Finding) /\ Len(own) = core[r].findings
    BY <1>2, <2>1 DEF FindingsOf
  <2> QED
    BY <2>1, <2>2 DEF FindingsOf
<1> HIDE DEF fs, own
<1>4. /\ all \in Seq(Finding) /\ Len(all) = Len(fs) + Len(own)
      /\ \A i \in 1 .. Len(fs) + Len(own) : all[i] = IF i <= Len(fs) THEN fs[i] ELSE own[i - Len(fs)]
  BY <1>1, <1>3, ConcatProperties
<1>5. DOMAIN all = 1 .. Len(fs) + Len(own) /\ DOMAIN fs = 1 .. Len(fs) /\ Len(fs) \in Nat /\ Len(own) \in Nat
  BY <1>1, <1>3, <1>4, LenProperties
<1> HIDE DEF all
<1>6. ASSUME NEW k \in DOMAIN all
      PROVE  \/ k \in DOMAIN fs /\ all[k] = fs[k]
             \/ k - Len(fs) \in 1 .. Len(own) /\ k > Len(fs) /\ all[k] = <<r, k - Len(fs)>> /\ all[k] \in Listed
  <2>1. CASE k <= Len(fs)
    BY <1>4, <1>5, <1>6, <2>1
  <2>2. CASE ~(k <= Len(fs))
    <3>1. k - Len(fs) \in 1 .. Len(own) /\ k > Len(fs)
      BY <1>5, <1>6, <2>2
    <3>2. all[k] = own[k - Len(fs)]
      BY <1>4, <1>5, <1>6, <2>2
    <3> QED
      BY <1>3, <3>1, <3>2
  <2> QED
    BY <2>1, <2>2
<1>7. EachOnce(fs) /\ \A k \in DOMAIN fs : fs[k][1] # r
  BY DEF fs
<1>8. \A k \in DOMAIN all : all[k] \in Listed
  BY <1>6, <1>7 DEF EachOnce
<1>9. ASSUME NEW i \in DOMAIN all, NEW j \in DOMAIN all, all[i] = all[j] PROVE i = j
  <2>1. CASE i \in DOMAIN fs /\ all[i] = fs[i] /\ j \in DOMAIN fs /\ all[j] = fs[j]
    BY <1>7, <1>9, <2>1 DEF EachOnce
  <2>2. CASE i - Len(fs) \in 1 .. Len(own) /\ all[i] = <<r, i - Len(fs)>>
             /\ j - Len(fs) \in 1 .. Len(own) /\ all[j] = <<r, j - Len(fs)>>
    <3>1. i \in Nat /\ j \in Nat
      BY <1>5, <1>9
    <3>2. <<r, i - Len(fs)>> = <<r, j - Len(fs)>>
      BY <1>9, <2>2
    <3>3. i - Len(fs) = j - Len(fs)
      BY <3>2
    <3> QED
      BY <1>5, <3>1, <3>3
  <2>3. CASE i \in DOMAIN fs /\ all[i] = fs[i] /\ all[j][1] = r
    BY <1>7, <1>9, <2>3
  <2>4. CASE j \in DOMAIN fs /\ all[j] = fs[j] /\ all[i][1] = r
    BY <1>7, <1>9, <2>4
  <2>5. \A k : all[k] = <<r, k - Len(fs)>> => all[k][1] = r
    OBVIOUS
  <2> QED
    BY <1>6, <1>9, <2>1, <2>2, <2>3, <2>4, <2>5
<1>10. EachOnce(all)
  BY <1>8, <1>9 DEF EachOnce
<1>11. \A k \in DOMAIN all : (k \in DOMAIN fs /\ all[k] = fs[k]) \/ all[k][1] = r
  BY <1>6
<1> QED
  BY <1>4, <1>10, <1>11 DEF all, fs, own

\* Recording a result stages its findings, lets go of everything, or hands over
\* what is held.
LEMMA PaidRecord ==
  ASSUME TypeOK, PaidFor, RecordResult
  PROVE  PaidFor'
<1> DEFINE r == Head(calls).result
           s == Recorded(stream, r)
           all == stream.findings \o FindingsOf(r)
<1>1. calls # <<>> /\ Head(calls).stage = "emit" /\ Return(s) /\ UNCHANGED core
  BY DEF RecordResult
<1>2. /\ stream \in Stream /\ core \in Seq(Result) /\ r \in DOMAIN core
      /\ Head(calls) = calls[1] /\ 1 \in DOMAIN calls
  BY <1>1, Pop DEF TypeOK, EmitsItsResult
<1>3. s \in Stream /\ Staged(stream, r) \in Stream
  BY <1>2, RecordedType, StagedType
<1>4. EachOnce(stream.findings) /\ Apart(calls, stream.findings)
  BY DEF PaidFor
<1>5. \A k \in DOMAIN stream.findings : stream.findings[k][1] # r
  BY <1>1, <1>2, <1>4 DEF Apart
<1>6. /\ all \in Seq(Finding) /\ EachOnce(all)
      /\ \A k \in DOMAIN all :
           (k \in DOMAIN stream.findings /\ all[k] = stream.findings[k]) \/ all[k][1] = r
  BY <1>2, <1>4, <1>5, StagedOnce
<1>7. Staged(stream, r).findings = all /\ Staged(stream, r).budget = stream.budget
  BY <1>2, StagedFields
<1> HIDE DEF all
<1>8. Apart(calls', all)
  <2>1. calls' = Tail(calls)
    BY <1>1 DEF Return
  <2>2. Apart(calls', stream.findings)
    BY <1>1, <1>4, <2>1, ApartStack
  <2>3. \A i \in DOMAIN calls' : calls'[i].stage = "emit" => calls'[i].result # r
    <3>1. \A i \in DOMAIN calls' : i \in Nat \ {0} /\ i + 1 \in DOMAIN calls /\ calls'[i] = calls[i + 1]
      <4>1. Tail(calls) \in Seq(Call)
        BY <1>1, Pop DEF TypeOK
      <4>2. \A i \in DOMAIN Tail(calls) : i \in Nat \ {0}
        BY <4>1, LenProperties
      <4> QED
        BY <1>1, <2>1, <4>2, Pop DEF TypeOK
    <3>2. \A i \in Nat \ {0} : i + 1 # 1
      OBVIOUS
    <3> QED
      BY <1>1, <1>2, <1>4, <3>1, <3>2 DEF Apart
  <2> QED
    BY <1>6, <2>2, <2>3 DEF Apart
<1>9. CASE core[r].blocks
  <2>1. s = Failed(Staged(stream, r), "policy") /\ "policy" \in Refusals
    BY <1>9 DEF Recorded, Refusals
  <2>2. s.terminal # "none" /\ s.findings = <<>> /\ s.budget = stream.budget
    BY <1>3, <1>7, <2>1, FailedType, LetGo
  <2> HIDE DEF s
  <2> QED
    BY <1>1, <1>3, <2>2, PaidReturn
<1>10. CASE ~core[r].blocks
  <2>1. s.findings = all /\ s.budget = stream.budget
    BY <1>7, <1>10 DEF Recorded
  <2> HIDE DEF s
  <2>2. ReleaseWithinBudget' /\ stream'.budget = stream.budget /\ stream'.findings \in {all, <<>>}
    <3>1. CASE Head(calls).op = "append"
      <4>1. stream' = s /\ answers' = answers
        BY <1>1, <3>1 DEF Return
      <4> QED
        BY <2>1, <4>1 DEF PaidFor, ReleaseWithinBudget, Releases
    <3>2. CASE Head(calls).op # "append"
      <4>1. stream' = Settled(s) /\ answers' = Append(answers, AnswerOf(s))
        BY <1>1, <3>2 DEF Return
      <4>2. Len(all) <= Limits["findings"]
        BY <1>6, NoLongerThanSpent DEF PaidFor
      <4>3. AnswerOf(s).outcome = "ok" => AnswerOf(s).findings = all
        BY <1>3, <2>1 DEF AnswerOf, Stream, Refusals, CoreFailures
      <4>4. ReleaseWithinBudget'
        BY <1>3, <4>1, <4>2, <4>3, AnswerType, WithinAppend DEF PaidFor
      <4> QED
        BY <1>3, <2>1, <4>1, <4>4, LetGo
    <3> QED
      BY <3>1, <3>2
  <2>3. Listed' = Listed
    BY <1>1 DEF Listed
  <2>4. DOMAIN <<>> = {}
    OBVIOUS
  <2>5. EachOnce(stream'.findings) /\ Apart(calls', stream'.findings)
    BY <1>6, <1>8, <2>2, <2>4 DEF EachOnce, Apart
  <2>6. EachOnce(stream.findings)' /\ Apart(calls, stream.findings)'
    BY <2>3, <2>5 DEF EachOnce, Apart
  <2> QED
    BY <2>2, <2>3, <2>6 DEF PaidFor
<1> QED
  BY <1>9, <1>10

\* Nothing is charged for initially.
LEMMA PaidInit == Init => PaidFor
<1> SUFFICES ASSUME Init PROVE PaidFor
  OBVIOUS
<1>1. /\ DOMAIN calls = {} /\ DOMAIN core = {} /\ DOMAIN answers = {} /\ DOMAIN stream.findings = {}
  BY DEF Init
<1>2. stream.budget.spent["findings"] = 0 /\ 0 <= Limits["findings"]
  BY LimitsAssumption DEF Init, FreshBudget, Meters
<1>3. Listed = {}
  BY <1>1 DEF Listed
<1>4. EachOnce(stream.findings) /\ Apart(calls, stream.findings) /\ ReleaseWithinBudget
  BY <1>1 DEF EachOnce, Apart, ReleaseWithinBudget, Releases
<1> QED
  BY <1>2, <1>3, <1>4, FS_EmptySet DEF PaidFor

\* No release carries more findings than the budget allows, whatever the
\* callbacks do to the stream that calls them.
THEOREM ReleaseIsAfforded == Spec => []ReleaseWithinBudget
<1>1. Init => PaidFor
  BY PaidInit
<1>2. TypeOK /\ PaidFor /\ [Next]_vars => PaidFor'
  BY PaidHost, PaidReturns, PaidFails, PaidEmit, PaidRecord DEF Next, StreamStep
<1>3. PaidFor => ReleaseWithinBudget
  BY DEF PaidFor
<1> QED
  BY <1>1, <1>2, <1>3, TypeCorrect, PTL DEF Spec

-----------------------------------------------------------------------------
(* Every step of the loop is a step of its stream, or leaves it alone.     *)

\* A step of the loop is a step of the stream or a stutter of it.
LEMMA McpStep == [McpNext]_allVars => [Next]_vars
<1> SUFFICES ASSUME [McpNext]_allVars PROVE [Next]_vars
  OBVIOUS
<1>1. CASE Begin \/ Pull \/ Appended \/ Answered
  BY <1>1 DEF Begin, Pull, Appended, Answered
<1>2. CASE Open
  BY <1>2 DEF Open, Next, HostStep
<1>3. CASE Rejected \/ CancelWon \/ NotAStep \/ Unreadable
  BY <1>3 DEF Rejected, CancelWon, NotAStep, Unreadable, Next, HostStep
<1>4. CASE Done \/ FinalizeRefused
  BY <1>4 DEF Done, FinalizeRefused, Next, HostStep
<1>5. ASSUME NEW isString \in BOOLEAN, Chunk(isString) PROVE [Next]_vars
  BY <1>5 DEF Chunk, Next, HostStep
<1>6. CASE InStream
  BY <1>6 DEF InStream, Next
<1>7. CASE CancelRequest
  BY <1>7 DEF CancelRequest, Next, HostStep
<1>8. ASSUME NEW step \in Steps, Settle(step) PROVE [Next]_vars
  BY <1>8 DEF Settle
<1>9. CASE UNCHANGED allVars
  BY <1>9 DEF allVars, vars
<1> QED
  BY <1>1, <1>2, <1>3, <1>4, <1>5, <1>6, <1>7, <1>8, <1>9 DEF McpNext, AdapterStep

\* The streamed tool result is a use of the staged stream: every behaviour of
\* the loop is a behaviour of AiContextStream.
THEOREM UsesTheStream == McpSpec => Spec
<1>1. McpInit => Init
  BY DEF McpInit
<1> QED
  BY <1>1, McpStep, PTL DEF McpSpec, Spec

-----------------------------------------------------------------------------
(* What the loop holds, by where it is.                                    *)

\* No call is in progress outside append and finalize, the session exists
\* between openStream and the end, and the loop ends with a stream that has
\* failed or has been finalized.
StreamAt ==
  /\ pc \in {"called", "iterating"} => stream.session = "unopened"
  /\ pc \in {"awaiting", "appending", "closing", "finalizing"} => stream.session # "unopened"
  /\ pc \notin {"appending", "finalizing"} => calls = <<>>
  /\ pc = "finalizing" => stream.finalized
  /\ pc = "returned" => stream.session = "unopened" \/ ~Accepting(stream)

\* The race listens only while it is awaited.
RaceAt == pc # "awaiting" => ~race.listening

LoopInv == pc \in Places /\ race \in Race /\ StreamAt /\ RaceAt

\* LoopInv holds initially.
LEMMA LoopInit == McpInit => LoopInv
  BY DEF McpInit, Init, LoopInv, StreamAt, RaceAt, Places, Race

\* The stream's own steps keep a session from being unopened again, and do not
\* finalize.
LEMMA StreamStepKeeps ==
  ASSUME TypeOK, StreamInv, StreamStep
  PROVE  /\ calls # <<>>
         /\ stream'.session # "unopened"
         /\ stream'.finalized = stream.finalized
<1>0. stream \in Stream
  BY DEF TypeOK
<1>a. "limit_exceeded" \in Refusals /\ CoreFailures \subseteq Refusals
  BY DEF Refusals, CoreFailures
<1>1. calls # <<>>
  BY DEF StreamStep, CoreFails, CoreReturns, EmitFinding, RecordResult, InPolicy
<1>2. stream.session # "unopened"
  BY <1>1 DEF StreamInv, FinalizeIsInnermost
<1>3. ASSUME NEW s \in Stream, s.session # "unopened", s.finalized = stream.finalized, Return(s)
      PROVE  stream'.session # "unopened" /\ stream'.finalized = stream.finalized
  <2>1. stream' = s \/ stream' = Settled(s)
    BY <1>3 DEF Return
  <2> QED
    BY <1>3, <2>1, SettledType
<1>4. CASE CoreFails
  <2>1. PICK reason \in CoreFailures : Return(Failed(stream, reason))
    BY <1>4 DEF CoreFails
  <2> QED
    BY <1>0, <1>1, <1>2, <1>3, <1>a, <2>1, FailedType
<1>5. CASE CoreReturns
  <2> DEFINE session == SessionAfter(Head(calls).op)
             charged(r) == [stream EXCEPT !.session = session,
                                          !.budget = Charged(@, "findings", r.findings)]
  <2>1. PICK r \in Result :
          IF Affords(r.findings)
          THEN stream' = charged(r)
          ELSE Return(Failed(charged(r), "limit_exceeded"))
    BY <1>5, Zenon DEF CoreReturns
  <2>2. session \in {"unopened", "absent", "open", "ended"} /\ session # "unopened"
    BY <1>0, <1>2 DEF SessionAfter, Stream
  <2>3. charged(r) \in Stream
    BY <1>0, <2>2, ChargedStreamType
  <2>4. charged(r).session = session /\ charged(r).finalized = stream.finalized
    BY <1>0 DEF Stream
  <2> HIDE DEF charged, session
  <2> QED
    BY <1>1, <1>3, <1>a, <2>1, <2>2, <2>3, <2>4, FailedType
<1>6. CASE EmitFinding
  BY <1>1, <1>2, <1>6 DEF EmitFinding
<1>7. CASE RecordResult
  <2>1. Head(calls).stage = "emit" /\ Return(Recorded(stream, Head(calls).result))
    BY <1>7 DEF RecordResult
  <2>2. Head(calls).result \in DOMAIN core /\ core \in Seq(Result)
    BY <1>1, <2>1, Pop DEF TypeOK, EmitsItsResult
  <2> QED
    BY <1>0, <1>1, <1>2, <1>3, <2>1, <2>2, RecordedType
<1> QED
  BY <1>4, <1>5, <1>6, <1>7 DEF StreamStep

\* After abort the stream does not accept, whatever it was.
LEMMA AbortedRefuses ==
  ASSUME TypeOK, Abort
  PROVE  ~Accepting(stream') /\ UNCHANGED calls
<1>1. "aborted" \in Refusals /\ stream \in Stream
  BY DEF Refusals, TypeOK
<1> QED
  BY <1>1, FailedType DEF Abort, Accepting

\* finalize leaves a finalized stream with a session that was opened.
LEMMA FinalizeKeeps ==
  ASSUME TypeOK, Finalize
  PROVE  stream'.finalized /\ stream'.session # "unopened"
<1> DEFINE begun  == [stream EXCEPT !.finalized = TRUE]
           polled == IF aborted THEN Failed(begun, "aborted") ELSE begun
<1>1. stream \in Stream /\ stream.session # "unopened" /\ "aborted" \in Refusals
  BY DEF TypeOK, Refusals, Finalize, HostMay
<1>2. begun \in Stream /\ begun.finalized /\ begun.session # "unopened"
  BY <1>1 DEF Stream
<1>3. polled \in Stream /\ polled.finalized /\ polled.session # "unopened"
  BY <1>1, <1>2, FailedType
<1>4. (stream.finalized /\ stream' = stream) \/ stream' = Settled(polled) \/ stream' = begun
  BY DEF Finalize
<1> HIDE DEF begun, polled
<1> QED
  BY <1>1, <1>2, <1>3, <1>4, SettledType

\* Every step of the loop keeps LoopInv.
LEMMA LoopNext == TypeOK /\ StreamInv /\ LoopInv /\ [McpNext]_allVars => LoopInv'
<1> SUFFICES ASSUME TypeOK, StreamInv, LoopInv, [McpNext]_allVars PROVE LoopInv'
  OBVIOUS
<1>0. /\ pc \in Places /\ race \in Race /\ StreamAt /\ RaceAt
      /\ stream \in Stream
  BY DEF LoopInv, TypeOK
<1>a. Racing \in Race /\ Left \in Race /\ Left.listening = FALSE
  BY <1>0 DEF Racing, Left, Race
<1>1. CASE Begin
  BY <1>0, <1>1 DEF Begin, Deliver, LoopInv, StreamAt, RaceAt, Places, vars
<1>2. CASE Open
  <2>1. /\ calls = <<>> /\ UNCHANGED calls /\ stream.session = "unopened"
    BY <1>0, <1>2 DEF Open, OpenStream, StreamAt
  <2>2. stream'.session # "unopened"
    <3>1. [stream EXCEPT !.session = "absent"] \in Stream
      BY <1>0 DEF Stream
    <3>2. [stream EXCEPT !.session = "absent"].session # "unopened"
      BY <1>0 DEF Stream
    <3>3. "aborted" \in Refusals /\ CoreFailures \subseteq Refusals
      BY DEF Refusals
    <3>4. CASE stream' = [stream EXCEPT !.session = "open", !.listening = (signal = "events")]
      BY <1>0, <3>4 DEF Stream
    <3>5. CASE \E reason \in Refusals : stream' = Failed([stream EXCEPT !.session = "absent"], reason)
      BY <3>1, <3>2, <3>5, FailedType
    <3> QED
      BY <1>2, <3>3, <3>4, <3>5 DEF Open, OpenStream
  <2>3. CASE pc' = "awaiting" /\ race' = Racing
    BY <1>a, <2>1, <2>2, <2>3 DEF LoopInv, StreamAt, RaceAt, Places
  <2>4. CASE pc' = "closing" /\ race' = race
    BY <1>0, <1>2, <2>1, <2>2, <2>4 DEF Open, LoopInv, StreamAt, RaceAt, Places
  <2> QED
    BY <1>2, <2>3, <2>4 DEF Open
<1>3. CASE Pull
  <2>1. race' \in Race /\ race'.listening = race.listening
    BY <1>0, <1>3 DEF Pull, Race
  <2> QED
    BY <1>0, <1>3, <2>1 DEF Pull, LoopInv, StreamAt, RaceAt, vars, Accepting
<1>4. CASE Rejected \/ CancelWon \/ NotAStep \/ Unreadable
  <2>1. Abort /\ pc = "awaiting" /\ pc' = "returned" /\ race' = Left
    BY <1>4 DEF Rejected, CancelWon, NotAStep, Unreadable, Resumed, Deliver
  <2>2. ~Accepting(stream') /\ UNCHANGED calls
    BY <2>1, AbortedRefuses
  <2>3. calls' = <<>>
    BY <1>0, <2>1, <2>2 DEF StreamAt
  <2> QED
    BY <1>a, <2>1, <2>2, <2>3 DEF LoopInv, StreamAt, RaceAt, Places, Accepting
<1>5. CASE Done
  <2>1. Finalize /\ pc' = "finalizing" /\ race' = Left
    BY <1>5 DEF Done
  <2> QED
    BY <1>a, <2>1, FinalizeKeeps DEF LoopInv, StreamAt, RaceAt, Places
<1>6. CASE FinalizeRefused
  <2>1. Finalize /\ pc = "closing" /\ pc' = "finalizing" /\ race' = race
    BY <1>6 DEF FinalizeRefused
  <2> QED
    BY <1>0, <2>1, FinalizeKeeps DEF LoopInv, StreamAt, RaceAt, Places
<1>7. ASSUME NEW isString \in BOOLEAN, Chunk(isString) PROVE LoopInv'
  <2>1. pc = "awaiting" /\ pc' = "appending" /\ race' = Left /\ stream.session # "unopened"
    BY <1>0, <1>7 DEF Chunk, Resumed, StreamAt
  <2>2. stream'.session # "unopened"
    <3>1. "aborted" \in Refusals /\ "unsupported_value" \in Refusals
      BY DEF Refusals
    <3>2. stream' = stream \/ \E reason \in Refusals : stream' = Failed(stream, reason)
      BY <1>7, <3>1 DEF Chunk, Append_, vars
    <3> QED
      BY <1>0, <2>1, <3>2, FailedType
  <2> QED
    BY <1>a, <2>1, <2>2 DEF LoopInv, StreamAt, RaceAt, Places
<1>8. CASE Appended
  <2>1. /\ calls = <<>> /\ calls' = calls /\ stream' = stream /\ pc = "appending"
        /\ \/ pc' = "awaiting" /\ race' = Racing
           \/ pc' = "closing" /\ race' = race
    BY <1>8 DEF Appended, vars
  <2> QED
    BY <1>0, <1>a, <2>1 DEF LoopInv, StreamAt, RaceAt, Places
<1>9. CASE Answered
  <2>1. pc = "finalizing" /\ pc' = "returned" /\ calls = <<>> /\ UNCHANGED <<stream, calls, race>>
    BY <1>9 DEF Answered, Deliver, vars
  <2> QED
    BY <1>0, <2>1 DEF LoopInv, StreamAt, RaceAt, Places, Accepting
<1>10. CASE InStream
  <2>1. /\ StreamStep /\ UNCHANGED <<pc, race>>
        /\ calls # <<>> /\ stream'.session # "unopened"
        /\ stream'.finalized = stream.finalized
    BY <1>10, StreamStepKeeps DEF InStream, mcpVars
  <2>2. pc \in {"appending", "finalizing"}
    BY <1>0, <2>1 DEF StreamAt
  <2> QED
    BY <1>0, <2>1, <2>2 DEF LoopInv, StreamAt, RaceAt, Places
<1>11. CASE CancelRequest
  <2>1. race' \in Race /\ race'.listening = race.listening
    BY <1>0, <1>11 DEF CancelRequest, Race
  <2>2. /\ UNCHANGED <<pc, calls>>
        /\ stream.session = "unopened" => stream' = stream
        /\ stream.session # "unopened" => stream'.session # "unopened"
        /\ stream.finalized => stream'.finalized
        /\ ~Accepting(stream) => ~Accepting(stream')
    <3>1. "aborted" \in Refusals
      BY DEF Refusals
    <3>2. UNCHANGED <<pc, calls>> /\ stream.session = "unopened" => ~stream.listening
      BY <1>11 DEF CancelRequest, StreamInv, Coherent
    <3>3. stream' = IF ~stream.listening THEN stream
                    ELSE IF stream.finalized THEN [stream EXCEPT !.listening = FALSE]
                    ELSE Failed(stream, "aborted")
      BY <1>11 DEF CancelRequest, Cancel
    <3>4. CASE ~stream.listening
      BY <1>11, <3>3, <3>4 DEF CancelRequest, Cancel
    <3>5. CASE stream.listening /\ stream.finalized
      <4>1. /\ stream'.finalized = stream.finalized /\ stream'.session = stream.session
        BY <1>0, <3>3, <3>5 DEF Stream
      <4> QED
        BY <1>11, <3>5, <4>1 DEF CancelRequest, Cancel, Accepting, StreamInv, Coherent
    <3>6. CASE stream.listening /\ ~stream.finalized
      BY <1>0, <1>11, <3>1, <3>3, <3>6, FailedType DEF CancelRequest, Cancel, Accepting, StreamInv, Coherent
    <3> QED
      BY <3>4, <3>5, <3>6
  <2> QED
    BY <1>0, <2>1, <2>2 DEF LoopInv, StreamAt, RaceAt
<1>12. ASSUME NEW step \in Steps, Settle(step) PROVE LoopInv'
  <2>1. race' \in Race /\ race'.listening = race.listening
    BY <1>0, <1>12 DEF Settle, Race
  <2> QED
    BY <1>0, <1>12, <2>1 DEF Settle, LoopInv, StreamAt, RaceAt, vars, Accepting
<1>13. CASE UNCHANGED allVars
  BY <1>0, <1>13 DEF allVars, LoopInv, StreamAt, RaceAt, Accepting
<1> QED
  BY <1>1, <1>2, <1>3, <1>4, <1>5, <1>6, <1>7, <1>8, <1>9, <1>10, <1>11, <1>12, <1>13
     DEF McpNext, AdapterStep

\* When streamOutcome has returned it has left no core session open, no call in
\* progress and no listener on the caller's signal.
THEOREM LoopHoldsNothing == McpSpec => []ReturnedHoldsNothing
<1>1. McpInit => LoopInv
  BY LoopInit
<1>2. TypeOK /\ StreamInv /\ LoopInv /\ [McpNext]_allVars => LoopInv'
  BY LoopNext
<1>3. TypeOK /\ StreamInv /\ EndedHoldsNothing /\ LoopInv => ReturnedHoldsNothing
  BY DEF StreamInv, Coherent, EndedHoldsNothing, LoopInv, StreamAt, RaceAt, ReturnedHoldsNothing
<1>4. McpSpec => [](TypeOK /\ StreamInv /\ EndedHoldsNothing)
  BY UsesTheStream, TypeCorrect, StreamAgrees, EndedStreamHoldsNothing, PTL
<1> QED
  BY <1>1, <1>2, <1>3, <1>4, PTL DEF McpSpec

\* The stream inside the loop fails for good.
COROLLARY LoopFailureStands == McpSpec => FailureIsFinal
  BY UsesTheStream, FailureStands

-----------------------------------------------------------------------------
(* The loop feeds its stream one chunk at a time, in order.                *)

\* Only the loop appends and finalizes, and only while no call is in progress.
LEMMA LoopSingle ==
  ASSUME TypeOK, LoopInv, Len(calls) <= 1, [McpNext]_allVars
  PROVE  Len(calls') <= 1
<1>0. made \in [{"append", "finalize"} -> Nat]
  BY DEF TypeOK
<1>1. (\E isString \in BOOLEAN : Append_(isString)) \/ Finalize => made' # made
  <2>1. ASSUME NEW isString \in BOOLEAN, Append_(isString) PROVE made' # made
    <3>1. made' = [made EXCEPT !.append = made.append + 1]
      BY <2>1 DEF Append_
    <3>2. made'.append = made.append + 1 /\ made.append \in Nat
      BY <1>0, <3>1
    <3> QED
      BY <3>2
  <2>2. ASSUME Finalize PROVE made' # made
    <3>1. made' = [made EXCEPT !.finalize = made.finalize + 1]
      BY <2>2 DEF Finalize
    <3>2. made'.finalize = made.finalize + 1 /\ made.finalize \in Nat
      BY <1>0, <3>1
    <3> QED
      BY <3>2
  <2> QED
    BY <2>1, <2>2
<1>2. made' # made => calls = <<>>
  <2>1. CASE Begin \/ Pull \/ Appended \/ Answered \/ UNCHANGED allVars
    BY <2>1 DEF Begin, Pull, Appended, Answered, vars, allVars
  <2>2. CASE Open \/ CancelRequest
    BY <2>2 DEF Open, OpenStream, CancelRequest, Cancel
  <2>3. CASE Rejected \/ CancelWon \/ NotAStep \/ Unreadable
    BY <2>3 DEF Rejected, CancelWon, NotAStep, Unreadable, Abort
  <2>4. CASE Done \/ FinalizeRefused
    BY <2>4 DEF Done, FinalizeRefused, Resumed, LoopInv, StreamAt
  <2>5. ASSUME NEW isString \in BOOLEAN, Chunk(isString) PROVE calls = <<>>
    BY <2>5 DEF Chunk, Resumed, LoopInv, StreamAt
  <2>6. CASE InStream
    BY <2>6 DEF InStream, StreamStep, CoreFails, CoreReturns, EmitFinding, RecordResult
  <2>7. ASSUME NEW step \in Steps, Settle(step) PROVE made' = made
    BY <2>7 DEF Settle, vars
  <2> QED
    BY <2>1, <2>2, <2>3, <2>4, <2>5, <2>6, <2>7 DEF McpNext, AdapterStep
<1> QED
  BY <1>1, <1>2, McpStep, StaysSingle

\* Every chunk the producer gave has been appended, and none is asked for.
Fed == producer.chunks = made.append /\ ~producer.pending

\* While a pull is awaited: what it has settled with says how many chunks there
\* are, and whether the producer ended.
Awaits ==
  /\ ~race.pulled => Fed /\ race.settled \notin Steps
  /\ race.pulled /\ race.settled = "none" => producer.pending /\ producer.chunks = made.append
  /\ race.settled \in Steps => ~producer.pending
  /\ race.settled \in {"chunk", "notAString"} => producer.chunks = made.append + 1
  /\ race.settled \in Steps \ {"chunk", "notAString"} => producer.chunks = made.append
  /\ race.settled \in {"done", "rejected"} => producer.ended

\* finalize is called for a producer that is done, or for a stream that refused.
Ends ==
  \/ race.settled = "done" /\ ~producer.closed /\ Fed /\ producer.ended
  \/ producer.closed /\ stream.terminal # "none" /\ Releases = {}

\* What the loop knows of its producer, by where it is.
ProducerAt ==
  /\ producer \in Producer
  /\ pc \in {"called", "iterating"} => Fed
  /\ pc \in {"called", "iterating", "awaiting", "appending"} => ~producer.closed
  /\ pc = "awaiting" => Awaits
  /\ pc = "appending" => ~producer.pending /\ (Accepting(stream) => Fed)
  /\ pc = "closing" => producer.closed /\ stream.terminal # "none"
  /\ pc = "finalizing" => Ends
  /\ pc = "returned" /\ stream.session # "unopened" =>
       producer.closed \/ ((producer.ended \/ LeftAtNoStep) /\ ~producer.pending)

\* finalize is called once, and its answer is the one delivered.
AnswersAt ==
  /\ pc \in {"called", "iterating", "awaiting", "appending", "closing"} =>
       answers = <<>> /\ ~stream.finalized
  /\ pc = "finalizing" => Len(answers) = IF calls = <<>> THEN 1 ELSE 0
  /\ pc = "finalizing" /\ calls # <<>> => Head(calls).op = "finalize"

\* What has been delivered.
OutcomeAt ==
  /\ outcome \in McpOutcomes \cup {"none"}
  /\ pc # "returned" => outcome = "none"
  /\ outcome = "ok" =>
       race.settled = "done" /\ ~producer.closed /\ Fed /\ answers[1].outcome = "ok"

FeedInv == ProducerAt /\ AnswersAt /\ OutcomeAt

\* A failure is for good, as FailureIsFinal says of every step.
FailedForGood ==
  stream.terminal # "none" =>
    /\ stream'.terminal = stream.terminal
    /\ \A i \in DOMAIN answers' \ DOMAIN answers : answers'[i].outcome # "ok"

\* FeedInv holds initially.
LEMMA FeedInit == McpInit => FeedInv
<1> SUFFICES ASSUME McpInit PROVE FeedInv
  OBVIOUS
<1>1. producer = [pulls |-> 0, pending |-> FALSE, chunks |-> 0, ended |-> FALSE, closed |-> FALSE]
      /\ made = [append |-> 0, finalize |-> 0]
  BY DEF McpInit, Init
<1>2. producer \in Producer /\ Fed /\ ~producer.closed
  BY <1>1 DEF Producer, Fed
<1>3. answers = <<>> /\ ~stream.finalized /\ pc = "called" /\ outcome = "none"
  BY DEF McpInit, Init
<1> QED
  BY <1>2, <1>3 DEF FeedInv, ProducerAt, AnswersAt, OutcomeAt

\* A step of the stream itself is one of the call in progress, which goes on or
\* returns; only finalize answers.
LEMMA InStreamStep ==
  ASSUME TypeOK, StreamInv, Len(calls) <= 1, StreamStep
  PROVE  /\ calls # <<>> /\ UNCHANGED made
         /\ stream'.finalized = stream.finalized /\ stream'.session # "unopened"
         /\ \/ calls' # <<>> /\ Head(calls').op = Head(calls).op /\ UNCHANGED answers
            \/ calls' = <<>> /\ Head(calls).op = "append" /\ UNCHANGED answers
            \/ calls' = <<>> /\ Head(calls).op = "finalize" /\ Len(answers') = Len(answers) + 1
<1>1. /\ calls # <<>> /\ stream'.finalized = stream.finalized /\ stream'.session # "unopened"
      /\ UNCHANGED made
  BY StreamStepKeeps DEF StreamStep, CoreFails, CoreReturns, EmitFinding, RecordResult
<1>2. /\ Head(calls) \in Call /\ Tail(calls) = <<>>
  <2>1. calls \in Seq(Call)
    BY DEF TypeOK
  <2>2. Len(calls) \in Nat \ {0} /\ Tail(calls) \in Seq(Call) /\ Len(Tail(calls)) = Len(calls) - 1
        /\ Head(calls) \in Call
    BY <1>1, <2>1, Pop
  <2>3. Len(Tail(calls)) = 0
    BY <2>2
  <2> QED
    BY <2>2, <2>3, EmptySeq
<1>3. ASSUME NEW s \in Stream, Return(s)
      PROVE  \/ calls' = <<>> /\ Head(calls).op = "append" /\ UNCHANGED answers
             \/ calls' = <<>> /\ Head(calls).op = "finalize" /\ Len(answers') = Len(answers) + 1
  <2>1. calls' = <<>>
    BY <1>2, <1>3 DEF Return
  <2>2. CASE Head(calls).op = "append"
    BY <1>3, <2>1, <2>2 DEF Return
  <2>3. CASE Head(calls).op # "append"
    <3>1. answers' = Append(answers, AnswerOf(s)) /\ Head(calls).op = "finalize"
      BY <1>2, <1>3, <2>3 DEF Return, Call
    <3>2. AnswerOf(s) \in Answer /\ answers \in Seq(Answer)
      BY AnswerType DEF TypeOK
    <3> QED
      BY <2>1, <3>1, <3>2, AppendFacts
  <2> QED
    BY <2>2, <2>3
<1>4. ASSUME NEW r \in Nat, NEW at \in Nat, calls' = <<EmitCall(Head(calls).op, r, at)>> \o Tail(calls)
      PROVE  calls' # <<>> /\ Head(calls').op = Head(calls).op
  <2>1. EmitCall(Head(calls).op, r, at) \in Call /\ EmitCall(Head(calls).op, r, at).op = Head(calls).op
    BY <1>2 DEF EmitCall, Call
  <2> QED
    BY <1>1, <1>4, <2>1, Replace
<1>5. CASE CoreFails
  <2>1. PICK reason \in CoreFailures : Return(Failed(stream, reason))
    BY <1>5 DEF CoreFails
  <2>2. Failed(stream, reason) \in Stream
    BY FailedType DEF Refusals, TypeOK
  <2> QED
    BY <1>1, <1>3, <2>1, <2>2
<1>6. CASE CoreReturns
  <2> DEFINE session == SessionAfter(Head(calls).op)
             charged(r) == [stream EXCEPT !.session = session,
                                          !.budget = Charged(@, "findings", r.findings)]
  <2>1. PICK r \in Result :
          \/ calls' = <<EmitCall(Head(calls).op, Len(core) + 1, 0)>> \o Tail(calls) /\ UNCHANGED answers
          \/ Return(Failed(charged(r), "limit_exceeded"))
    BY <1>6, Zenon DEF CoreReturns
  <2>2. stream \in Stream /\ Len(core) + 1 \in Nat
    BY LenProperties DEF TypeOK
  <2>3. Failed(charged(r), "limit_exceeded") \in Stream
    <3>1. session \in {"unopened", "absent", "open", "ended"}
      BY <2>2 DEF SessionAfter, Stream
    <3>2. charged(r) \in Stream
      BY <2>2, <3>1, ChargedStreamType
    <3> QED
      BY <3>2, FailedType DEF Refusals, CoreFailures
  <2> HIDE DEF charged
  <2> QED
    BY <1>1, <1>3, <1>4, <2>1, <2>2, <2>3
<1>7. CASE EmitFinding
  <2>1. Head(calls).result \in Nat /\ Head(calls).at + 1 \in Nat
    BY <1>2 DEF Call
  <2> QED
    BY <1>1, <1>4, <1>7, <2>1 DEF EmitFinding
<1>8. CASE RecordResult
  <2>1. Head(calls).stage = "emit" /\ Return(Recorded(stream, Head(calls).result))
    BY <1>8 DEF RecordResult
  <2>2. Recorded(stream, Head(calls).result) \in Stream
    BY <1>1, <2>1, Pop, RecordedType DEF TypeOK, EmitsItsResult
  <2> QED
    BY <1>1, <1>3, <2>1, <2>2
<1> QED
  BY <1>5, <1>6, <1>7, <1>8 DEF StreamStep

\* The one finalize of the loop answers at once, or calls the core.
LEMMA FinalizeStep ==
  ASSUME TypeOK, Finalize, calls = <<>>, answers = <<>>
  PROVE  /\ made'.append = made.append
         /\ \/ calls' = <<>> /\ Len(answers') = 1
            \/ calls' # <<>> /\ Head(calls').op = "finalize" /\ Len(answers') = 0
<1> DEFINE begun  == [stream EXCEPT !.finalized = TRUE]
           polled == IF aborted THEN Failed(begun, "aborted") ELSE begun
<1>1. made'.append = made.append
  BY DEF Finalize, TypeOK
<1>2. polled \in Stream
  <2>1. begun \in Stream /\ "aborted" \in Refusals
    BY DEF TypeOK, Stream, Refusals
  <2> QED
    BY <2>1, FailedType
<1> HIDE DEF begun, polled
<1>3. ASSUME NEW a \in Answer, answers' = Append(answers, a) PROVE Len(answers') = 1
  <2>1. Len(answers') = Len(answers) + 1 /\ Len(answers) = 0
    BY <1>3, AppendFacts, EmptySeq DEF TypeOK
  <2> QED
    BY <2>1
<1>4. \/ calls' = calls /\ \E a \in Answer : answers' = Append(answers, a)
      \/ calls' = <<CoreCall("finalize")>> \o calls /\ answers' = answers
  BY <1>2, AnswerType, FinalizedAnswerType DEF Finalize, begun, polled
<1>5. ASSUME calls' = <<CoreCall("finalize")>> \o calls
      PROVE  calls' # <<>> /\ Head(calls').op = "finalize"
  BY <1>5, PushCore DEF CoreCall
<1>6. Len(<<>>) = 0
  OBVIOUS
<1> QED
  BY <1>1, <1>3, <1>4, <1>5, <1>6

\* A stream with no answer yet that has failed answers nothing that releases.
LEMMA RefusedReleasesNothing ==
  ASSUME answers = <<>>, stream.terminal # "none", [FailedForGood]_vars
  PROVE  stream'.terminal # "none" /\ Releases' = {}
<1>1. CASE FailedForGood
  <2>1. DOMAIN answers = {}
    OBVIOUS
  <2>2. \A i \in DOMAIN answers' : answers'[i].outcome # "ok"
    BY <1>1, <2>1 DEF FailedForGood
  <2> QED
    BY <1>1, <2>2 DEF FailedForGood, Releases
<1>2. CASE UNCHANGED vars
  BY <1>2 DEF vars, Releases
<1> QED
  BY <1>1, <1>2

\* Every step of the loop keeps FeedInv.
LEMMA FeedNext ==
  ASSUME TypeOK, StreamInv, LoopInv, Len(calls) <= 1, FeedInv,
         [FailedForGood]_vars, [McpNext]_allVars
  PROVE  FeedInv'
<1>0. /\ pc \in Places /\ race \in Race /\ StreamAt /\ RaceAt
      /\ ProducerAt /\ AnswersAt /\ OutcomeAt /\ producer \in Producer
      /\ stream \in Stream /\ answers \in Seq(Answer)
      /\ made \in [{"append", "finalize"} -> Nat]
  BY DEF LoopInv, FeedInv, ProducerAt, TypeOK
<1>a. Closed \in Producer /\ Closed.closed
  BY <1>0 DEF Closed, Producer
<1>b. Left.settled = race.settled
  BY <1>0 DEF Left, Race
<1>c. Racing.settled = "none" /\ ~Racing.pulled
  BY DEF Racing
<1>d. stream.terminal # "none" => stream'.terminal # "none"
  BY DEF FailedForGood, vars
<1>e. \A s \in Stream : ~Accepting(s) /\ ~s.finalized => s.terminal # "none"
  BY DEF Accepting
<1>f. "aborted" \in Refusals /\ "unsupported_value" \in Refusals /\ CoreFailures \subseteq Refusals
      /\ "ok" \notin Refusals
  BY DEF Refusals, CoreFailures
<1>1. CASE Begin
  <2>1. /\ UNCHANGED <<stream, calls, answers, made, race, producer>> /\ pc = "called"
        /\ \/ pc' = "returned" /\ outcome' \in {"aborted", "tool_error", "unsupported_value"}
           \/ pc' = "iterating" /\ outcome' = outcome
    BY <1>1 DEF Begin, Deliver, vars
  <2>2. ProducerAt'
    BY <1>0, <2>1 DEF ProducerAt, StreamAt, Fed
  <2>3. AnswersAt' /\ OutcomeAt'
    BY <1>0, <1>f, <2>1 DEF AnswersAt, OutcomeAt, McpOutcomes
  <2> QED
    BY <2>2, <2>3 DEF FeedInv
<1>2. CASE Open
  <2>1. /\ UNCHANGED <<calls, answers, made, outcome>> /\ pc = "iterating"
        /\ IF Accepting(stream') THEN pc' = "awaiting" /\ race' = Racing /\ producer' = producer
           ELSE pc' = "closing" /\ producer' = Closed /\ race' = race
    BY <1>2 DEF Open, OpenStream
  <2>2. stream' \in Stream /\ ~stream'.finalized
    <3>1. ~stream.finalized
      BY <1>0, <2>1 DEF AnswersAt
    <3>2. [stream EXCEPT !.session = "absent"] \in Stream
          /\ ~[stream EXCEPT !.session = "absent"].finalized
      BY <1>0, <3>1 DEF Stream
    <3>3. CASE stream' = [stream EXCEPT !.session = "open", !.listening = (signal = "events")]
      BY <1>0, <3>1, <3>3 DEF Stream
    <3>4. CASE \E reason \in Refusals : stream' = Failed([stream EXCEPT !.session = "absent"], reason)
      <4>1. PICK reason \in Refusals :
              stream' = Failed([stream EXCEPT !.session = "absent"], reason)
        BY <3>4
      <4> DEFINE absent == [stream EXCEPT !.session = "absent"]
      <4>2. absent \in Stream /\ ~absent.finalized /\ stream' = Failed(absent, reason)
        BY <3>2, <4>1
      <4> HIDE DEF absent
      <4> QED
        BY <4>2, FailedType
    <3> QED
      BY <1>2, <1>f, <3>3, <3>4 DEF Open, OpenStream
  <2>3. CASE Accepting(stream')
    <3>1. Fed' /\ ~producer'.closed /\ race'.settled = "none" /\ ~race'.pulled
      BY <1>0, <1>c, <2>1, <2>3 DEF ProducerAt, Fed
    <3>2. Awaits'
      BY <3>1 DEF Awaits, Steps
    <3>3. ProducerAt'
      BY <1>0, <2>1, <2>3, <3>1, <3>2 DEF ProducerAt
    <3>4. AnswersAt' /\ OutcomeAt'
      BY <1>0, <2>1, <2>2, <2>3 DEF AnswersAt, OutcomeAt
    <3> QED
      BY <3>3, <3>4 DEF FeedInv
  <2>4. CASE ~Accepting(stream')
    <3>1. stream'.terminal # "none"
      BY <1>e, <2>2, <2>4
    <3>2. ProducerAt'
      BY <1>a, <2>1, <2>4, <3>1 DEF ProducerAt
    <3>3. AnswersAt' /\ OutcomeAt'
      BY <1>0, <2>1, <2>2, <2>4 DEF AnswersAt, OutcomeAt
    <3> QED
      BY <3>2, <3>3 DEF FeedInv
  <2> QED
    BY <2>3, <2>4
<1>3. CASE Pull
  <2>1. /\ UNCHANGED <<stream, calls, answers, made, pc, outcome>> /\ pc = "awaiting" /\ ~race.pulled
        /\ race' = [race EXCEPT !.pulled = TRUE]
        /\ producer' = [producer EXCEPT !.pulls = @ + 1, !.pending = TRUE]
    BY <1>3 DEF Pull, vars
  <2>2. race'.settled = race.settled /\ race'.pulled
    BY <1>0, <2>1 DEF Race
  <2>3. /\ producer' \in Producer /\ producer'.pending
        /\ producer'.chunks = producer.chunks /\ producer'.closed = producer.closed
    <3>1. producer \in Producer /\ producer' = [producer EXCEPT !.pulls = producer.pulls + 1, !.pending = TRUE]
      BY <1>0, <2>1
    <3>2. /\ producer.pulls \in Nat /\ producer.chunks \in Nat
          /\ producer.ended \in BOOLEAN /\ producer.closed \in BOOLEAN
          /\ producer = [pulls |-> producer.pulls, pending |-> producer.pending,
                         chunks |-> producer.chunks, ended |-> producer.ended,
                         closed |-> producer.closed]
      BY <3>1 DEF Producer
    <3>3. producer' = [pulls |-> producer.pulls + 1, pending |-> TRUE,
                       chunks |-> producer.chunks, ended |-> producer.ended,
                       closed |-> producer.closed]
      BY <3>1, <3>2
    <3> QED
      BY <3>2, <3>3 DEF Producer
  <2>4. Fed /\ race.settled \notin Steps /\ ~producer.closed
    BY <1>0, <2>1 DEF ProducerAt, Awaits
  <2>5. Awaits'
    BY <2>1, <2>2, <2>3, <2>4 DEF Awaits, Fed, Steps
  <2>6. ProducerAt'
    BY <2>1, <2>3, <2>4, <2>5 DEF ProducerAt
  <2>7. AnswersAt' /\ OutcomeAt'
    BY <1>0, <2>1 DEF AnswersAt, OutcomeAt
  <2> QED
    BY <2>6, <2>7 DEF FeedInv
<1>4. CASE Rejected \/ CancelWon \/ NotAStep \/ Unreadable
  <2>1. /\ pc = "awaiting" /\ pc' = "returned" /\ outcome' \in {"aborted", "tool_error"}
        /\ race' = Left /\ UNCHANGED <<calls, answers, made>>
    BY <1>4 DEF Rejected, CancelWon, NotAStep, Unreadable, Resumed, Deliver, Abort
  <2>2. \/ producer' = Closed
        \/ producer' = producer /\ race.settled \in {"rejected", "notAStep"}
    BY <1>4 DEF Rejected, CancelWon, NotAStep, Unreadable, Resumed
  <2>a. race'.settled = race.settled
    BY <1>0, <2>1 DEF Left, Race
  <2>3. /\ producer' \in Producer
        /\ producer'.closed \/ ((producer'.ended \/ LeftAtNoStep') /\ ~producer'.pending)
    BY <1>0, <1>a, <2>1, <2>2, <2>a DEF ProducerAt, Awaits, Steps, LeftAtNoStep
  <2>4. ProducerAt'
    BY <2>1, <2>3 DEF ProducerAt
  <2>5. AnswersAt' /\ OutcomeAt'
    BY <1>f, <2>1 DEF AnswersAt, OutcomeAt, McpOutcomes
  <2> QED
    BY <2>4, <2>5 DEF FeedInv
<1>5. CASE Done
  <2>1. /\ Finalize /\ pc = "awaiting" /\ pc' = "finalizing" /\ race' = Left
        /\ race.settled = "done" /\ UNCHANGED <<producer, outcome>>
    BY <1>5 DEF Done, Resumed
  <2>2. calls = <<>> /\ answers = <<>>
    BY <1>0, <2>1 DEF StreamAt, AnswersAt
  <2>3. /\ made'.append = made.append
        /\ \/ calls' = <<>> /\ Len(answers') = 1
           \/ calls' # <<>> /\ Head(calls').op = "finalize" /\ Len(answers') = 0
    BY <2>1, <2>2, FinalizeStep
  <2>4. Fed /\ producer.ended /\ ~producer.closed
    BY <1>0, <2>1 DEF ProducerAt, Awaits, Fed, Steps
  <2>5. Ends'
    BY <1>b, <2>1, <2>3, <2>4 DEF Ends, Fed
  <2>6. ProducerAt'
    BY <1>0, <2>1, <2>5 DEF ProducerAt
  <2>7. AnswersAt' /\ OutcomeAt'
    BY <1>0, <2>1, <2>3 DEF AnswersAt, OutcomeAt
  <2> QED
    BY <2>6, <2>7 DEF FeedInv
<1>6. CASE FinalizeRefused
  <2>1. /\ Finalize /\ pc = "closing" /\ pc' = "finalizing"
        /\ UNCHANGED <<race, producer, outcome>>
    BY <1>6 DEF FinalizeRefused
  <2>2. calls = <<>> /\ answers = <<>> /\ producer.closed /\ stream.terminal # "none"
    BY <1>0, <2>1 DEF StreamAt, AnswersAt, ProducerAt
  <2>3. \/ calls' = <<>> /\ Len(answers') = 1
        \/ calls' # <<>> /\ Head(calls').op = "finalize" /\ Len(answers') = 0
    BY <2>1, <2>2, FinalizeStep
  <2>4. Ends'
    BY <2>1, <2>2, RefusedReleasesNothing DEF Ends
  <2>5. ProducerAt'
    BY <1>0, <2>1, <2>4 DEF ProducerAt
  <2>6. AnswersAt' /\ OutcomeAt'
    BY <1>0, <2>1, <2>3 DEF AnswersAt, OutcomeAt
  <2> QED
    BY <2>5, <2>6 DEF FeedInv
<1>7. ASSUME NEW isString \in BOOLEAN, Chunk(isString) PROVE FeedInv'
  <2>1. /\ pc = "awaiting" /\ pc' = "appending" /\ UNCHANGED <<producer, outcome>>
        /\ race.settled \in {"chunk", "notAString"}
        /\ Append_(isString) \/ (~Accepting(stream) /\ UNCHANGED vars)
    BY <1>7 DEF Chunk, Resumed
  <2>2. producer.chunks = made.append + 1 /\ ~producer.pending /\ ~producer.closed
        /\ answers = <<>> /\ ~stream.finalized
    BY <1>0, <2>1 DEF ProducerAt, Awaits, AnswersAt, Steps
  <2>3. answers' = answers /\ ~stream'.finalized
    <3>1. stream' = stream \/ \E reason \in Refusals : stream' = Failed(stream, reason)
      BY <1>f, <2>1 DEF Append_, vars
    <3> QED
      BY <1>0, <2>1, <2>2, <3>1, FailedType DEF Append_, vars
  <2>4. Accepting(stream') => Fed'
    <3>1. CASE Append_(isString)
      <4>1. made' = [made EXCEPT !.append = made.append + 1]
        BY <3>1 DEF Append_
      <4>2. made'.append = made.append + 1
        BY <1>0, <4>1
      <4> QED
        BY <2>1, <2>2, <4>2 DEF Fed
    <3>2. CASE ~Accepting(stream) /\ UNCHANGED vars
      BY <3>2 DEF vars
    <3> QED
      BY <2>1, <3>1, <3>2
  <2>5. ProducerAt'
    BY <1>0, <2>1, <2>2, <2>4 DEF ProducerAt
  <2>6. AnswersAt' /\ OutcomeAt'
    BY <1>0, <2>1, <2>2, <2>3 DEF AnswersAt, OutcomeAt
  <2> QED
    BY <2>5, <2>6 DEF FeedInv
<1>8. CASE Appended
  <2>1. /\ UNCHANGED <<stream, calls, answers, made, outcome>> /\ pc = "appending"
        /\ IF Accepting(stream) THEN pc' = "awaiting" /\ race' = Racing /\ producer' = producer
           ELSE pc' = "closing" /\ producer' = Closed /\ race' = race
    BY <1>8 DEF Appended, vars
  <2>2. answers = <<>> /\ ~stream.finalized /\ ~producer.closed /\ ~producer.pending
        /\ (Accepting(stream) => Fed)
    BY <1>0, <2>1 DEF AnswersAt, ProducerAt
  <2>3. AnswersAt' /\ OutcomeAt'
    BY <1>0, <2>1, <2>2 DEF AnswersAt, OutcomeAt
  <2>4. CASE Accepting(stream)
    <3>1. Fed' /\ race'.settled = "none" /\ ~race'.pulled
      BY <1>c, <2>1, <2>2, <2>4 DEF Fed
    <3>2. Awaits'
      BY <3>1 DEF Awaits, Steps
    <3>3. ProducerAt'
      BY <1>0, <2>1, <2>2, <2>4, <3>2 DEF ProducerAt
    <3> QED
      BY <2>3, <3>3 DEF FeedInv
  <2>5. CASE ~Accepting(stream)
    <3>1. stream'.terminal # "none"
      BY <1>0, <1>e, <2>1, <2>2, <2>5
    <3>2. ProducerAt'
      BY <1>a, <2>1, <2>5, <3>1 DEF ProducerAt
    <3> QED
      BY <2>3, <3>2 DEF FeedInv
  <2> QED
    BY <2>4, <2>5
<1>9. CASE Answered
  <2>1. /\ pc = "finalizing" /\ calls = <<>> /\ pc' = "returned"
        /\ outcome' = answers[Len(answers)].outcome
        /\ UNCHANGED <<stream, calls, answers, made, race, producer>>
    BY <1>9 DEF Answered, Deliver, vars
  <2>2. Len(answers) = 1 /\ Ends
    BY <1>0, <2>1 DEF AnswersAt, ProducerAt
  <2>3. 1 \in DOMAIN answers /\ answers[1].outcome \in Refusals \cup {"ok"}
    <3>1. 1 \in DOMAIN answers /\ answers[1] \in Answer
      <4>1. answers \in Seq(Answer) /\ Len(answers) = 1
        BY <1>0, <2>2
      <4>2. DOMAIN answers = 1 .. 1
        BY <4>1, LenProperties
      <4> QED
        BY <4>1, <4>2, ElementOfSeq
    <3> QED
      BY <3>1 DEF Answer
  <2>4. answers[1].outcome = "ok" =>
          race.settled = "done" /\ ~producer.closed /\ Fed /\ producer.ended
    BY <2>2, <2>3 DEF Ends, Releases
  <2>5. ProducerAt'
    BY <1>0, <2>1, <2>2 DEF ProducerAt, Ends, Fed
  <2>6. AnswersAt' /\ OutcomeAt'
    BY <2>1, <2>2, <2>3, <2>4 DEF AnswersAt, OutcomeAt, McpOutcomes, Fed
  <2> QED
    BY <2>5, <2>6 DEF FeedInv
<1>10. CASE InStream
  <2>1. StreamStep /\ UNCHANGED <<pc, race, producer, outcome>>
    BY <1>10 DEF InStream, mcpVars
  <2>2. /\ calls # <<>> /\ UNCHANGED made /\ stream'.finalized = stream.finalized
        /\ \/ calls' # <<>> /\ Head(calls').op = Head(calls).op /\ UNCHANGED answers
           \/ calls' = <<>> /\ Head(calls).op = "append" /\ UNCHANGED answers
           \/ calls' = <<>> /\ Head(calls).op = "finalize" /\ Len(answers') = Len(answers) + 1
    BY <2>1, InStreamStep
  <2>3. pc \in {"appending", "finalizing"}
    BY <1>0, <2>2 DEF StreamAt
  <2>4. OutcomeAt'
    BY <1>0, <2>1, <2>3 DEF OutcomeAt
  <2>5. CASE pc = "appending"
    <3>1. answers = <<>> /\ ~stream.finalized /\ ~producer.closed /\ ~producer.pending
          /\ (Accepting(stream) => Fed)
      BY <1>0, <2>5 DEF AnswersAt, ProducerAt
    <3>2. Head(calls).op # "finalize"
      <4>1. 1 \in DOMAIN calls /\ Head(calls) = calls[1]
        BY <2>2, Pop DEF TypeOK
      <4> QED
        BY <3>1, <4>1 DEF StreamInv, FinalizeIsInnermost
    <3>3. Accepting(stream') => Accepting(stream)
      BY <1>d, <2>2 DEF Accepting
    <3>4. ProducerAt'
      BY <1>0, <2>1, <2>2, <2>5, <3>1, <3>3 DEF ProducerAt, Fed
    <3>5. AnswersAt'
      BY <2>1, <2>2, <2>5, <3>1, <3>2 DEF AnswersAt
    <3> QED
      BY <2>4, <3>4, <3>5 DEF FeedInv
  <2>6. CASE pc = "finalizing"
    <3>1. Len(answers) = 0 /\ Head(calls).op = "finalize" /\ Ends
      BY <1>0, <2>2, <2>6 DEF AnswersAt, ProducerAt
    <3>2. answers = <<>>
      BY <1>0, <3>1, EmptySeq
    <3>3. Ends'
      <4>1. producer.closed /\ stream.terminal # "none" => stream'.terminal # "none" /\ Releases' = {}
        BY <3>2, RefusedReleasesNothing
      <4> QED
        BY <2>1, <2>2, <3>1, <4>1 DEF Ends, Fed
    <3>4. ProducerAt'
      BY <1>0, <2>1, <2>6, <3>3 DEF ProducerAt
    <3>5. AnswersAt'
      BY <2>1, <2>2, <2>6, <3>1 DEF AnswersAt
    <3> QED
      BY <2>4, <3>4, <3>5 DEF FeedInv
  <2> QED
    BY <2>3, <2>5, <2>6
<1>11. CASE CancelRequest
  <2>1. /\ UNCHANGED <<calls, answers, made, pc, producer, outcome>>
        /\ race' = IF race.listening /\ race.settled = "none"
                   THEN [race EXCEPT !.settled = "abort"] ELSE race
        /\ pc \in {"called", "iterating", "awaiting", "closing"} \/ calls # <<>>
    BY <1>11 DEF CancelRequest, Cancel
  <2>2. pc # "returned"
    BY <1>0, <2>1 DEF StreamAt
  <2>3. stream'.finalized = stream.finalized
    <3>1. stream' = stream \/ stream' = [stream EXCEPT !.listening = FALSE]
          \/ stream' = Failed(stream, "aborted")
      BY <1>11 DEF CancelRequest, Cancel
    <3>2. [stream EXCEPT !.listening = FALSE].finalized = stream.finalized
      BY <1>0 DEF Stream
    <3> QED
      BY <1>0, <1>f, <3>1, <3>2, FailedType
  <2>4. Accepting(stream') => Accepting(stream)
    BY <1>d, <2>3 DEF Accepting
  <2>5. pc # "awaiting" => race' = race
    BY <1>0, <2>1 DEF RaceAt
  <2>6. pc = "awaiting" => Awaits'
    <3>1. ASSUME pc = "awaiting", race' # race
          PROVE  race.settled = "none" /\ race'.settled = "abort" /\ race'.pulled = race.pulled
      BY <1>0, <2>1, <3>1 DEF Race
    <3>2. pc = "awaiting" => Awaits
      BY <1>0 DEF ProducerAt
    <3> QED
      BY <2>1, <3>1, <3>2 DEF Awaits, Fed, Steps
  <2>7. pc = "finalizing" => Ends'
    <3>1. pc = "finalizing" => Ends
      BY <1>0 DEF ProducerAt
    <3>2. Releases' = Releases
      BY <2>1 DEF Releases
    <3> QED
      BY <1>d, <2>1, <2>5, <3>1, <3>2 DEF Ends, Fed
  <2>8. ProducerAt'
    BY <1>0, <1>d, <2>1, <2>2, <2>4, <2>6, <2>7 DEF ProducerAt, Fed
  <2>9. AnswersAt' /\ OutcomeAt'
    BY <1>0, <2>1, <2>2, <2>3 DEF AnswersAt, OutcomeAt
  <2> QED
    BY <2>8, <2>9 DEF FeedInv
<1>12. ASSUME NEW step \in Steps, Settle(step) PROVE FeedInv'
  <2>1. /\ UNCHANGED <<stream, calls, answers, made, pc, outcome>> /\ producer.pending
        /\ race' = IF race.settled = "none" THEN [race EXCEPT !.settled = step] ELSE race
    BY <1>12 DEF Settle, vars
  <2>2. /\ producer' \in Producer /\ ~producer'.pending /\ producer'.closed = producer.closed
        /\ step \in {"chunk", "notAString"} => producer'.chunks = producer.chunks + 1
        /\ step \notin {"chunk", "notAString"} => producer'.chunks = producer.chunks
        /\ step \in {"done", "rejected"} => producer'.ended
    <3>1. producer \in Producer
      BY <1>0
    <3>2. producer' =
            [producer EXCEPT !.pending = FALSE,
                             !.chunks = IF step \in {"chunk", "notAString"}
                                        THEN producer.chunks + 1 ELSE producer.chunks,
                             !.ended = step \in {"done", "rejected"}]
      BY <1>12 DEF Settle
    <3>3. /\ producer.pulls \in Nat /\ producer.chunks \in Nat /\ producer.closed \in BOOLEAN
          /\ producer = [pulls |-> producer.pulls, pending |-> producer.pending,
                         chunks |-> producer.chunks, ended |-> producer.ended,
                         closed |-> producer.closed]
      BY <3>1 DEF Producer
    <3>4. producer' = [pulls |-> producer.pulls, pending |-> FALSE,
                       chunks |-> IF step \in {"chunk", "notAString"}
                                  THEN producer.chunks + 1 ELSE producer.chunks,
                       ended |-> step \in {"done", "rejected"},
                       closed |-> producer.closed]
      BY <3>2, <3>3
    <3>5. CASE step \in {"done", "rejected"}
      <4>1. producer' = [pulls |-> producer.pulls, pending |-> FALSE, chunks |-> producer.chunks,
                         ended |-> TRUE, closed |-> producer.closed]
        BY <3>4, <3>5
      <4> QED
        BY <3>3, <3>5, <4>1 DEF Producer
    <3>6. CASE step \notin {"done", "rejected"}
      <4> DEFINE given == IF step \in {"chunk", "notAString"}
                          THEN producer.chunks + 1 ELSE producer.chunks
      <4>1. given \in Nat
        BY <3>3
      <4>2. (step \in {"done", "rejected"}) = FALSE
        BY <3>6
      <4>3. producer' = [pulls |-> producer.pulls, pending |-> FALSE, chunks |-> given,
                         ended |-> FALSE, closed |-> producer.closed]
        BY <3>4, <4>2, Zenon
      <4>4. /\ step \in {"chunk", "notAString"} => given = producer.chunks + 1
            /\ step \notin {"chunk", "notAString"} => given = producer.chunks
        OBVIOUS
      <4> HIDE DEF given
      <4> QED
        BY <3>3, <3>6, <4>1, <4>3, <4>4 DEF Producer
    <3> QED
      BY <3>5, <3>6
  <2>3. pc \notin {"called", "iterating", "appending"}
    BY <1>0, <2>1 DEF ProducerAt, Fed
  <2>4. pc = "awaiting" => Awaits'
    <3>1. pc = "awaiting" => race.pulled /\ race.settled \notin Steps /\ Awaits
      BY <1>0, <2>1 DEF ProducerAt, Awaits, Fed
    <3>2. race'.pulled = race.pulled
      BY <1>0, <2>1 DEF Race
    <3>3. CASE race.settled = "none"
      <4>1. race'.settled = step
        BY <1>0, <2>1, <3>3 DEF Race
      <4>2. pc = "awaiting" => producer.chunks = made.append
        BY <3>1, <3>3 DEF Awaits
      <4>3. step # "none"
        BY DEF Steps
      <4> QED
        BY <2>1, <2>2, <3>1, <3>2, <4>1, <4>2, <4>3 DEF Awaits, Steps
    <3>4. CASE race.settled # "none"
      BY <2>1, <3>1, <3>2, <3>4 DEF Awaits, Steps
    <3> QED
      BY <3>3, <3>4
  <2>5. pc = "finalizing" => Ends'
    <3>1. pc = "finalizing" => Ends
      BY <1>0 DEF ProducerAt
    <3>2. Releases' = Releases
      BY <2>1 DEF Releases
    <3> QED
      BY <2>1, <2>2, <3>1, <3>2 DEF Ends, Fed
  <2>6. ProducerAt'
    BY <1>0, <2>1, <2>2, <2>3, <2>4, <2>5 DEF ProducerAt
  <2>7. outcome # "ok"
    BY <1>0, <2>1 DEF OutcomeAt, Fed
  <2>8. AnswersAt' /\ OutcomeAt'
    BY <1>0, <2>1, <2>7 DEF AnswersAt, OutcomeAt
  <2> QED
    BY <2>6, <2>8 DEF FeedInv
<1>13. CASE UNCHANGED allVars
  <2>1. UNCHANGED <<stream, calls, answers, made, pc, race, producer, outcome>>
    BY <1>13 DEF allVars
  <2>2. ProducerAt'
    BY <1>0, <2>1 DEF ProducerAt, Fed, Awaits, Ends, Releases, Accepting, LeftAtNoStep
  <2>3. AnswersAt' /\ OutcomeAt'
    BY <1>0, <2>1 DEF AnswersAt, OutcomeAt, Fed
  <2> QED
    BY <2>2, <2>3 DEF FeedInv
<1> QED
  BY <1>1, <1>2, <1>3, <1>4, <1>5, <1>6, <1>7, <1>8, <1>9, <1>10, <1>11, <1>12, <1>13
     DEF McpNext, AdapterStep

\* What the loop does to its stream is one call at a time, so the stream's
\* promise holds of it whatever onFinding may do elsewhere, and the loop's own
\* account of its producer is right.
LoopAccount == LoopInv /\ OneAtATime /\ FeedInv

LEMMA LoopAccounts ==
  McpSpec => []LoopAccount /\ [][Promise!StagedNext]_(Promise!stagedVars)
<1>1. McpInit => LoopAccount
  BY LoopInit, OneInit, FeedInit DEF LoopAccount, McpInit
<1>2. TypeOK /\ StreamInv /\ LoopAccount /\ [FailedForGood]_vars /\ [McpNext]_allVars =>
        LoopAccount' /\ [Promise!StagedNext]_(Promise!stagedVars)
  <2> SUFFICES ASSUME TypeOK, StreamInv, LoopAccount, [FailedForGood]_vars, [McpNext]_allVars
               PROVE  LoopAccount' /\ [Promise!StagedNext]_(Promise!stagedVars)
    OBVIOUS
  <2>1. Len(calls) <= 1 /\ LoopInv /\ OneAtATime /\ FeedInv
    BY DEF LoopAccount, OneAtATime
  <2>2. Len(calls') <= 1
    BY <2>1, LoopSingle
  <2>3. OneAtATime' /\ [Promise!StagedNext]_(Promise!stagedVars)
    BY <2>1, <2>2, McpStep, OneNext
  <2>4. LoopInv'
    BY <2>1, LoopNext
  <2>5. FeedInv'
    BY <2>1, FeedNext
  <2> QED
    BY <2>3, <2>4, <2>5 DEF LoopAccount
<1>3. McpSpec => []TypeOK /\ []StreamInv /\ [][FailedForGood]_vars
  BY UsesTheStream, TypeCorrect, StreamAgrees, FailureStands, PTL DEF FailureIsFinal, FailedForGood
<1> QED
  BY <1>1, <1>2, <1>3, PTL DEF McpSpec

-----------------------------------------------------------------------------
(* What the loop promises.                                                 *)

\* `ok` is delivered only for a producer that was done, and for every chunk it
\* gave.
THEOREM OkIsAll == McpSpec => []OkIsTheWholeOutput
<1>1. LoopAccount => OkIsTheWholeOutput
  BY DEF LoopAccount, FeedInv, OutcomeAt, Fed, OkIsTheWholeOutput
<1> QED
  BY <1>1, LoopAccounts, PTL

\* The loop's variables stay in their types, and no producer outlives it but one
\* whose step was no object.
THEOREM LoopSound == McpSpec => []LoopIsSound
<1>1. TypeOK /\ LoopAccount => LoopIsSound
  BY DEF LoopAccount, LoopInv, FeedInv, ProducerAt, OutcomeAt, LoopIsSound, McpTypeOK,
         ProducerIsClosed, LeftAtNoStep
<1> QED
  BY <1>1, LoopAccounts, UsesTheStream, TypeCorrect, PTL

\* Only the microtask of a race pulls, and then everything pulled before has
\* been appended.
LEMMA PullsInTurn ==
  ASSUME LoopAccount, [McpNext]_allVars, producer'.pulls > producer.pulls
  PROVE  ~producer.pending /\ calls = <<>> /\ made.append = producer.chunks
<1>0. producer \in Producer /\ producer.pulls \in Nat
  BY DEF LoopAccount, FeedInv, ProducerAt, Producer
<1>1. producer'.pulls # producer.pulls
  BY <1>0
<1>2. Closed.pulls = producer.pulls
  BY <1>0 DEF Closed, Producer
<1>3. CASE Pull
  BY <1>3 DEF Pull, LoopAccount, FeedInv, ProducerAt, Awaits, Fed, LoopInv, StreamAt
<1>4. CASE \E step \in Steps : Settle(step)
  BY <1>0, <1>1, <1>4 DEF Settle, Producer
<1>5. CASE ~Pull /\ (AdapterStep \/ CancelRequest \/ UNCHANGED allVars)
  <2>1. producer' = producer \/ producer' = Closed
    BY <1>5 DEF AdapterStep, Begin, Open, Rejected, CancelWon, NotAStep, Unreadable, Done, Chunk,
                Appended, FinalizeRefused, Answered, InStream, mcpVars, CancelRequest, allVars
  <2> QED
    BY <1>1, <1>2, <2>1
<1> QED
  BY <1>3, <1>4, <1>5 DEF McpNext

\* What the loop feeds its stream comes out in the order it was pulled, whole and
\* with the findings the host was told of, or not at all; and no chunk is pulled
\* before the last one has been recorded.  The loop calls its stream one call at a
\* time, so no hypothesis on onFinding is needed.
THEOREM InOrder == McpSpec => InOrderOrNotAtAll
<1> DEFINE InTurn ==
      producer'.pulls > producer.pulls =>
        ~producer.pending /\ calls = <<>> /\ made.append = producer.chunks
<1>1. LoopAccount /\ [McpNext]_allVars => [InTurn]_allVars
  BY PullsInTurn
<1>2. McpSpec => PullsOneAtATime
  BY <1>1, LoopAccounts, PTL DEF McpSpec, PullsOneAtATime
<1>3. McpInit => Promise!StagedInit
  BY OneInit DEF McpInit
<1>4. McpSpec => KeepsPromise
  BY <1>3, LoopAccounts, PTL DEF McpSpec, KeepsPromise, Promise!StagedSpec
<1>5. LoopAccount => ReleaseIsFaithful
  BY DEF LoopAccount, OneAtATime
<1>6. McpSpec => []ReleaseIsFaithful
  BY <1>5, LoopAccounts, PTL
<1> QED
  BY <1>2, <1>4, <1>6 DEF InOrderOrNotAtAll
==============================================================================
