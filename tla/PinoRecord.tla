------------------------------ MODULE PinoRecord ------------------------------
(***************************************************************************)
(* One log call on its way through the pino adapter: hooks.logMethod joins *)
(* and masks the arguments, pino builds the line from them with what the   *)
(* hook never saw - bindings, the message prefix - and hooks.streamWrite   *)
(* lexes the finished line and masks its values in place.  Both passes     *)
(* spend the record's one budget.  What can happen between the hooks of    *)
(* several records is in PinoHooks, what a walk does with a tree of values *)
(* in ValueWalk.                                                           *)
(*                                                                         *)
(* A text is a sequence of words.  The core redacts the word "secret"      *)
(* anywhere, "bare" where "context" comes right before it, as api_key=     *)
(* does for a value, and blocks a text with the word "blocked".            *)
(***************************************************************************)
EXTENDS Naturals, Sequences, FiniteSets, SequencesExt

CONSTANTS
  Words,      \* what texts and keys are made of
  MsgPrefixes, \* the msgPrefix of the logger: texts
  Firsts,     \* the first arguments of the instance
  Messages,   \* the messages of the instance: a format, or NoText
  Values,     \* the interpolation values of the instance
  Bindings,   \* the child bindings of the instance: sequences of tokens
  Budgets,    \* how many values the record's budget allows
  Arrays,     \* limits.maxArrayLength
  Lines,      \* lineLimits.maxValueSpans
  MaxInterpolated  \* bound: interpolation values of one call

Text == Seq(Words)

\* What there is in the place of a message, or of a value, that is not there.
NoText == <<"no text">>

ValueTypes == {"string", "number", "object", "undefined", "null", "symbol"}

Token == [is : {"key", "string", "other"}, text : Text]

\* The words that pino, the adapter and the host write themselves.
OwnWords ==
  {"mask", "LIMIT_EXCEEDED", "ERROR", "BLOCKED", "%", "word", "secret", "level", "err", "type", "message", "msg", "host"}

ASSUME RecordAssumption ==
  /\ OwnWords \cup {"none"} \subseteq Words /\ NoText[1] \notin Words
  /\ MsgPrefixes \subseteq Text
  /\ Firsts \subseteq [is : {"none", "object", "error", "objectWithError"}, key : Words, text : Text]
  /\ Messages \subseteq Text \cup {NoText}
  /\ Values \subseteq [type : ValueTypes, text : Text]
  /\ Bindings \subseteq Seq(Token)
  /\ UNION {Budgets, Arrays, Lines, {MaxInterpolated}} \subseteq Nat

VARIABLES
  call,      \* the logger and the arguments
  step,      \* called, masked, built, written
  args,      \* what pino's own method is called with
  line,      \* the finished line, and then the line that is written
  built,     \* the line as the redacting streamWrite is handed it
  left,      \* what is left of the record's budget
  limits,    \* maxArrayLength and maxValueSpans
  limited, failed,  \* the counters of the record
  refused,   \* markers a reader sees put in by a limit
  shape      \* what the host's own streamWrite made of the line

recordVars == <<call, step, args, line, built, left, limits, limited, failed, refused, shape>>

-----------------------------------------------------------------------------
(* Texts, and what the core makes of one.                                  *)

Masked == "mask"
LimitMarker == <<"LIMIT_EXCEEDED">>
ErrorMarker == <<"ERROR">>
Blocked == <<"BLOCKED">>

\* Whether the i-th word is redacted in a text under a key.
Found(text, key, i) ==
  \/ text[i] = "secret"
  \/ text[i] = "bare" /\ (IF i = 1 THEN key = "context" ELSE text[i - 1] = "context")

\* maskLeafOutcomeWith: a block finding replaces the text.
MaskLeaf(text, key) ==
  IF "blocked" \in ToSet(text) THEN Blocked
  ELSE [i \in DOMAIN text |-> IF Found(text, key, i) THEN Masked ELSE text[i]]

IsRaw(text, key) == \E i \in DOMAIN text : Found(text, key, i) \/ text[i] = "blocked"

-----------------------------------------------------------------------------
(* Formatting.  A format holds directives among its words; a value is      *)
(* [type, text].                                                           *)

Directives == {"%s", "%d", "%j", "%z", "%%"}

\* What the directive writes for the value, NoText when the directive stays.
Written(directive, value) ==
  IF directive = "%s" THEN (IF value.type = "string" THEN value.text ELSE <<"word">>)
  ELSE IF directive = "%d" THEN (IF value.type \in {"undefined", "null"} THEN NoText ELSE <<"word">>)
  ELSE IF directive = "%j" THEN (IF value.type = "undefined" THEN NoText
                                 ELSE IF value.type \in {"string", "object"} THEN value.text ELSE <<"word">>)
  ELSE NoText

\* How many values the directives before the i-th word use up: any pair but %%.
UsedBefore(fmt, i) == Cardinality({h \in 1..(i - 1) : fmt[h] \in Directives \ {"%%"}})

\* What the i-th word becomes: a directive without a value, or one its value does
\* not fit, stays as it is.
Piece(fmt, values, i) ==
  IF fmt[i] \notin Directives THEN <<fmt[i]>>
  ELSE IF fmt[i] = "%%" THEN <<"%">>
  ELSE LET n == UsedBefore(fmt, i) + 1
           w == IF n <= Len(values) THEN Written(fmt[i], values[n]) ELSE NoText
       IN  IF w = NoText THEN <<fmt[i]>> ELSE w

\* formatPinoMessage
FormatPinoMessage(fmt, values) ==
  IF values = <<>> THEN fmt
  ELSE LET upTo[i \in 0..Len(fmt)] == IF i = 0 THEN <<>> ELSE upTo[i - 1] \o Piece(fmt, values, i)
       IN  upTo[Len(fmt)]

\* Number(Symbol()) throws, where a %d reaches it.
FormatThrows(fmt, values) ==
  \E i \in DOMAIN fmt :
    /\ fmt[i] = "%d" /\ UsedBefore(fmt, i) < Len(values)
    /\ values[UsedBefore(fmt, i) + 1].type = "symbol"

-----------------------------------------------------------------------------
(* The arguments.  The first is nothing, an object with one field, an      *)
(* Error, or an object that holds an Error under its field; the message    *)
(* follows, and then the values.                                           *)

TextArg(text) == [is |-> "text", key |-> "none", text |-> text]
ValueArg(value) == IF value.type = "string" THEN TextArg(value.text) ELSE [is |-> "other", key |-> "none", text |-> value.text]

ArgsOf(c) ==
  (IF c.first.is = "none" THEN <<>> ELSE <<c.first>>)
  \o (IF c.message = NoText THEN <<>> ELSE <<TextArg(c.message)>>)
  \o [i \in DOMAIN c.values |-> ValueArg(c.values[i])]

\* messageIndex: after an object, else the first argument itself.
MessageIndex(c) == IF c.first.is = "none" THEN 1 ELSE 2

HasMessage(c) == c.message # NoText

\* BUG: the format and its values are scanned apart.
Joined_apart(c) == ArgsOf(c)

\* joinInterpolatedMessage
Joined(c) ==
  IF HasMessage(c) /\ c.values # <<>>
  THEN Append(SubSeq(ArgsOf(c), 1, MessageIndex(c) - 1), TextArg(FormatPinoMessage(c.message, c.values)))
  ELSE ArgsOf(c)

Prefixed(c) == c.prefix # <<>> /\ HasMessage(c)

WithPrefix(c) ==
  IF Prefixed(c) THEN [Joined(c) EXCEPT ![MessageIndex(c)] = TextArg(c.prefix \o @.text)] ELSE Joined(c)

\* Visits of the walk: the array, then every argument and what it holds.
VisitsOf(arg) == IF arg.is \in {"object", "error", "objectWithError"} THEN 2 ELSE 1

VisitOf(as, i) == 1 + FoldLeft(LAMBDA sum, a : sum + VisitsOf(a), 0, SubSeq(as, 1, i - 1)) + 1

\* One argument of the walk, the v-th visit: a marker once the budget is spent.
MaskArg(arg, v, budget) ==
  IF v > budget THEN TextArg(LimitMarker)
  ELSE IF arg.is = "other" THEN arg
  ELSE IF arg.is = "text" THEN TextArg(MaskLeaf(arg.text, "none"))
  ELSE [arg EXCEPT !.text = IF v + 1 > budget THEN LimitMarker
                            ELSE MaskLeaf(@, IF arg.is = "object" THEN arg.key ELSE "none"),
                   !.is = CASE @ = "error" -> "plainError" [] @ = "objectWithError" -> "objectWithPlain" [] OTHER -> @]

\* Elements past maxArrayLength are dropped.
Kept(as) == IF Len(as) <= limits.array THEN as ELSE SubSeq(as, 1, limits.array)

\* maskLogValueWith over the array of arguments.
MaskArgs(as, budget) == [i \in DOMAIN as |-> MaskArg(as[i], VisitOf(as, i), budget)]

\* BUG: the message keeps the prefix pino is about to print.
WithoutPrefix_kept(c, as) == as

\* The masked message without its prefix, unless the masking reached into it.
WithoutPrefix(c, as) ==
  IF Prefixed(c) /\ MessageIndex(c) <= Len(as) /\ IsPrefix(c.prefix, as[MessageIndex(c)].text)
  THEN [as EXCEPT ![MessageIndex(c)] = TextArg(SubSeq(@.text, Len(c.prefix) + 1, Len(@.text)))]
  ELSE as

\* asMaskedError: the masked copy has the prototype of the Error it is of.
Restored(arg) ==
  [arg EXCEPT !.is = CASE @ = "plainError" -> "error" [] @ = "objectWithPlain" -> "objectWithError" [] OTHER -> @]

\* restoreErrors looks at the first argument only.
RestoreErrors(as) == IF as = <<>> THEN as ELSE [as EXCEPT ![1] = Restored(@)]

LimitsIn(as, budget) ==
  Cardinality({v \in {VisitOf(as, i) : i \in DOMAIN as} : v > budget})
  + Cardinality({i \in DOMAIN as : VisitsOf(as[i]) = 2 /\ VisitOf(as, i) = budget})

Spent(visits) == IF visits > left THEN 0 ELSE left - visits

-----------------------------------------------------------------------------
(* The line.  A token is a key, a string or something else.                *)

Key(name) == [is |-> "key", text |-> <<name>>]
String(text) == [is |-> "string", text |-> text]
Other == [is |-> "other", text |-> <<>>]

\* A string that is a value, and the key it is right under.
Spans(l) == SelectSeq([i \in DOMAIN l |-> i], LAMBDA i : l[i].is = "string")
KeyOf(l, i) == IF i > 1 /\ l[i - 1].is = "key" THEN l[i - 1].text[1] ELSE "none"

\* What pino writes of the first argument: a leading Error under errorKey, with
\* its type; a plain object has none.
FirstTokens(arg) ==
  CASE arg.is = "object" -> <<Key(arg.key), String(arg.text)>>
    [] arg.is = "error" -> <<Key("err"), Key("type"), Other, Key("message"), String(arg.text)>>
    [] arg.is = "plainError" -> <<Key("message"), String(arg.text)>>
    [] arg.is = "objectWithError" -> <<Key(arg.key), Key("type"), Other, Key("message"), String(arg.text)>>
    [] arg.is = "objectWithPlain" -> <<Key(arg.key), Key("message"), String(arg.text)>>
    [] OTHER -> <<>>

\* pino's own LOG: the message is where messageIndex says, formatted with what
\* follows it; a leading Error without one gives its own.
PinoMessage(as) ==
  LET m == IF as # <<>> /\ as[1].is \in {"text", "other"} THEN 1 ELSE 2
      values == [i \in 1..(Len(as) - m) |->
                   [type |-> IF as[m + i].is = "text" THEN "string" ELSE "number", text |-> as[m + i].text]]
  IN  IF Len(as) < m THEN (IF as # <<>> /\ as[1].is = "error" THEN as[1].text ELSE NoText)
      ELSE IF as[m].is = "text" THEN FormatPinoMessage(as[m].text, values)
      ELSE NoText

MessageTokens(prefix, message) ==
  IF message = NoText THEN <<>> ELSE <<Key("msg"), String(prefix \o message)>>

PinoLine(prefix, bindings, as) ==
  <<Key("level"), Other>> \o bindings
  \o (IF as = <<>> THEN <<>> ELSE FirstTokens(as[1])) \o MessageTokens(prefix, PinoMessage(as))

ErrorLine == <<Key("msg"), String(ErrorMarker)>>
LimitLine == <<Key("msg"), String(LimitMarker)>>

\* What the host's own streamWrite makes of pino's line: another line, or, if it
\* throws or returns no string, no other one.
HostLines(l) == {l, l \o <<Key("host"), String(<<"secret">>)>>}

\* resolveLineLimits: the ceilings on a line, all met at once or not at all.
Refuses(spans) == Len(spans) > limits.spans

-----------------------------------------------------------------------------
(* What the host's own logMethod passes on, if it continues.               *)
Calls ==
  {c \in [prefix : MsgPrefixes, first : Firsts, message : Messages,
          values : UNION {[1..n -> Values] : n \in 0..MaxInterpolated}, bindings : Bindings] :
     c.message = NoText => c.values = <<>>}

Init ==
  /\ call \in Calls
  /\ step = "called" /\ args = <<>> /\ line = <<>> /\ built = <<>>
  /\ left \in Budgets
  /\ limits \in [array : Arrays, spans : Lines]
  /\ limited = 0 /\ failed = 0 /\ refused = 0
  /\ shape = "json"

\* redactingLogMethod: the arguments are masked, or replaced by the marker when
\* formatting throws or the walk gives back no array.
LogMethod ==
  /\ step = "called"
  /\ step' = "masked"
  /\ LET as == Kept(WithPrefix(call))
         visits == VisitOf(as, Len(as) + 1) - 1
     IN  IF FormatThrows(call.message, call.values)
         THEN /\ args' = <<TextArg(ErrorMarker)>>
              /\ failed' = failed + 1
              /\ UNCHANGED <<left, limited, refused>>
         ELSE IF left = 0
         THEN /\ args' = <<TextArg(ErrorMarker)>>
              /\ failed' = failed + 1
              /\ limited' = limited + 1 /\ refused' = refused + 1
              /\ UNCHANGED left
         ELSE /\ args' = RestoreErrors(WithoutPrefix(call, MaskArgs(as, left)))
              /\ limited' = limited + LimitsIn(as, left)
              /\ refused' = refused + Cardinality({i \in DOMAIN as : MaskArgs(as, left)[i].text = LimitMarker})
              /\ left' = Spent(visits)
              /\ UNCHANGED failed
  /\ UNCHANGED <<call, line, built, limits, shape>>

\* pino, and the host's own streamWrite, which runs before the redacting one.
Build ==
  /\ step = "masked"
  /\ step' = "built"
  /\ built' \in HostLines(PinoLine(call.prefix, call.bindings, args))
  /\ line' = built'
  /\ shape' \in {"json", "not json", "unterminated"}
  /\ UNCHANGED <<call, args, left, limits, limited, failed, refused>>

\* The masked value of the n-th span; the walk drops what is past maxArrayLength.
Dropped(n) == n > limits.array
ValueOf(n, i) == IF 1 + n > left THEN LimitMarker ELSE MaskLeaf(line[i].text, KeyOf(line, i))

\* BUG: a value the walk dropped is left in the line.
Spliced_droppedKept(n, i) == IF Dropped(n) THEN line[i].text ELSE ValueOf(n, i)

\* What is written for the n-th span, the i-th token of the line.
Spliced(n, i) == IF Dropped(n) THEN LimitMarker ELSE ValueOf(n, i)

\* The values the walk never saw are counted by the caller.
CountedHere(spans) == Cardinality({n \in DOMAIN spans : Dropped(n)})

Masks(spans) ==
  [i \in DOMAIN line |->
     IF line[i].is # "string" THEN line[i]
     ELSE String(Spliced(CHOOSE n \in DOMAIN spans : spans[n] = i, i))]

\* redactingStreamWrite and redactLine: ceilings, the lexer, JSON.parse, one
\* walk over the values, and the line put together again.
StreamWrite ==
  /\ step = "built"
  /\ step' = "written"
  /\ LET spans == Spans(line)
     IN  IF Refuses(spans)
         THEN /\ line' = LimitLine
              /\ limited' = limited + 1 /\ refused' = refused + 1
              /\ UNCHANGED <<failed, left>>
         ELSE IF shape # "json"
         THEN /\ line' = ErrorLine
              /\ failed' = failed + 1
              /\ UNCHANGED <<limited, refused, left>>
         ELSE IF left = 0
         THEN /\ line' = LimitLine
              /\ limited' = limited + 1 /\ refused' = refused + 1
              /\ UNCHANGED <<failed, left>>
         ELSE /\ line' = Masks(spans)
              /\ limited' = limited + CountedHere(spans)
                            + Cardinality({n \in DOMAIN spans : ~Dropped(n) /\ 1 + n > left})
              /\ refused' = refused + Cardinality({i \in DOMAIN line : line'[i] = String(LimitMarker) /\ line[i] # line'[i]})
              /\ left' = Spent(1 + Len(spans))
              /\ UNCHANGED failed
  /\ UNCHANGED <<call, args, built, limits, shape>>

Next == LogMethod \/ Build \/ StreamWrite

RecordSpec == Init /\ [][Next]_recordVars

-----------------------------------------------------------------------------
(* Properties.                                                             *)

NothingRawIn(l) == \A i \in DOMAIN l : l[i].is = "string" => ~IsRaw(l[i].text, KeyOf(l, i))

\* pino takes the message from the leading Error: the one text that is scanned
\* without the prefix it is printed after.
MessageIsTheErrors == Len(args) = 1 /\ args[1].is = "error"

\* Once logMethod has run, nothing pino's serializers, formatters or the host's
\* own streamWrite see of the call is in the clear, a secret that only the
\* prefix, the format or its neighbour value makes detectable included; what is
\* in the prefix by itself is pino's to print.
PinoSeesNothingRaw ==
  step # "called" /\ ~IsRaw(call.prefix, "none") /\ ~(MessageIsTheErrors /\ call.prefix # <<>>) =>
    NothingRawIn(PinoLine(call.prefix, <<>>, args))

\* Every value of the line that is written is masked, those the arguments never
\* held and those past a limit of the walk included, or the line is replaced.
NothingRawIsWritten == step = "written" => NothingRawIn(line)

\* What pino would write without the hooks.
UnhookedLine ==
  PinoLine(call.prefix, call.bindings,
           (IF call.first.is = "none" THEN <<>> ELSE <<call.first>>)
           \o (IF HasMessage(call) THEN <<TextArg(FormatPinoMessage(call.message, call.values))>> ELSE <<>>))

\* A record that holds nothing to mask and meets no limit is written as if there
\* were no hooks: the message once, after its prefix, formatted once, and an
\* Error still an Error.
CleanRecordIsUntouched ==
  step = "written" /\ refused = 0 /\ failed = 0 /\ Len(WithPrefix(call)) <= limits.array
    /\ NothingRawIn(UnhookedLine) /\ NothingRawIn(built)
    /\ ~IsRaw(call.first.text, call.first.key)
    => line = UnhookedLine
=============================================================================
