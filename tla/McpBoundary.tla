----------------------------- MODULE McpBoundary -----------------------------
(***************************************************************************)
(* One crossing of the MCP boundary: a tool result, a tool call with or    *)
(* without its arguments, a resource read, or a wrapped server handler.    *)
(* Each is one or two stages.  A stage sanitizes one value: its shape is   *)
(* prepared block by block, the AI-context boundary sanitizes the whole as *)
(* one value, and the key-context backstop scans every sanitized part once *)
(* more as text.  Every stage ends in one outcome, which is audited.       *)
(*                                                                         *)
(* sanitizeText and sanitizeValue are the calls of AiContextOperation: they *)
(* poll the signal when they begin and before they answer ok.  A signal is *)
(* whatever answers `aborted`; it may be a deadline, so it may turn at any *)
(* moment.  Two parts that serialize to the same text are the same member  *)
(* of Serialized, and the core's verdict on it is `known` once asked.      *)
(***************************************************************************)
EXTENDS Naturals, SequencesExt

CONSTANTS
  Serialized,  \* the texts parts serialize to
  MaxBlocks    \* bound: content blocks of one result

ASSUME McpBoundaryAssumption == MaxBlocks \in Nat

VARIABLES
  mode,      \* binaryContent
  crossing,  \* what the crossing's call closes over
  known,     \* the core's verdict on each serialized part it was asked about
  told,      \* how many parts of this stage's backstop onFinding heard of
  aborted,   \* what the signal says when polled
  audits,    \* the audit records, in order
  handed,    \* what the handler was called with, once it was
  answer     \* what the caller is given

boundaryVars == <<mode, crossing, known, told, aborted, audits, handed, answer>>

CoreFailures == {"limit_exceeded", "lifecycle", "core_error"}

BlockReasons == {"policy", "unsupported_value"} \cup CoreFailures

\* tool_error and read_error: the host's own call failed.
Outcomes == BlockReasons \cup {"ok", "aborted", "error"}

Verdicts == {"clean", "warn", "redact", "block"}

\* sanitizeToolResult, sanitizeToolArguments, sanitizeToolCall,
\* sanitizeResourceResult, sanitizeResourceRead, wrapToolHandler,
\* wrapStreamedToolHandler and wrapResourceReadHandler.
Kinds ==
  {"toolResult", "toolArguments", "toolCall", "resourceResult", "resourceRead",
   "toolHandler", "streamHandler", "readHandler"}

Invokes == {"toolCall", "resourceRead", "toolHandler", "streamHandler", "readHandler"}

AsksArguments == {"toolCall", "toolHandler", "streamHandler"}

OfResource == {"resourceResult", "resourceRead", "readHandler"}

Places ==
  {"idle", "arguments", "invoke", "awaiting", "result", "blocks", "value",
   "in value", "backstop", "in part", "streaming", "answered"}

\* A payload is the value one read of it gave, numbered by the read; 0 is none.
Block == [raw : Nat, payload : Nat]

Crossing ==
  [kind : Kinds, at : Places, stage : {"arguments", "result", "resource"},
   asks : BOOLEAN,                          \* the arguments are to be sanitized
   blocks : Seq(Block),                     \* the blocks prepared
   parts : Seq(Serialized), next : Nat,     \* the backstop's loop
   clean : SUBSET Serialized, verdict : Verdicts]

Answers == {"none", "value", "blocked", "error", "nothing"}

Answer == [is : Answers, blocks : Seq(Block)]

StageOf(kind) == IF kind \in OfResource THEN "resource" ELSE "result"

NewCrossing(kind, asks, at, stage) ==
  [kind |-> kind, at |-> at, stage |-> stage, asks |-> asks, blocks |-> <<>>,
   parts |-> <<>>, next |-> 1, clean |-> {}, verdict |-> "clean"]

-----------------------------------------------------------------------------
(* The end of a stage.                                                     *)

\* toCallToolResult, toReadResourceResponse, wire, and what the wrapped read
\* throws: a failure carries nothing but which of the fixed answers it is.
Wire(kind, outcome) ==
  CASE outcome = "ok" -> "value"
    [] outcome = "error" -> "error"
    [] outcome = "aborted" -> IF kind \in {"toolHandler", "streamHandler", "readHandler"} THEN "blocked" ELSE "nothing"
    [] outcome \in BlockReasons -> "blocked"

\* restore: every detached payload is put back, as it was read, in its own block.
Reassembled(blocks) == blocks

\* BUG: a refused argument stage leaves no record.
AuditRecords_resultOnly(stage, outcome) ==
  IF stage = "arguments" /\ outcome # "ok" THEN <<>> ELSE <<[stage |-> stage, outcome |-> outcome]>>

\* mcpAuditRecord
AuditRecords(stage, outcome) == <<[stage |-> stage, outcome |-> outcome]>>

\* A crossing goes on to invoke once its arguments are sanitized.
GoesOn(outcome) == crossing.stage = "arguments" /\ crossing.kind \in Invokes /\ outcome = "ok"

\* The stage has its outcome, which is audited; then the handler is invoked, or
\* the caller answered.
Conclude(outcome) ==
  /\ audits' = audits \o AuditRecords(crossing.stage, outcome)
  /\ IF GoesOn(outcome)
     THEN crossing' = [crossing EXCEPT !.at = "invoke"] /\ UNCHANGED answer
     ELSE /\ crossing' = [crossing EXCEPT !.at = "answered"]
          /\ answer' = [is |-> Wire(crossing.kind, outcome),
                        blocks |-> IF outcome = "ok" THEN Reassembled(crossing.blocks) ELSE <<>>]

Goto(place) == crossing' = [crossing EXCEPT !.at = place] /\ UNCHANGED <<audits, answer>>

At(place) == crossing.at = place

CancelledAtSkip == aborted

-----------------------------------------------------------------------------
(* The start of a crossing.                                                *)

\* The public operations.  A handler without arguments has none to sanitize; a
\* context whose signal cannot be read counts as a cancelled one.
StartCrossing(kind, asks) ==
  /\ At("idle")
  /\ asks => kind \in AsksArguments
  /\ kind = "toolArguments" => ~asks
  /\ crossing' =
       IF asks \/ kind = "toolArguments" THEN NewCrossing(kind, asks, "arguments", "arguments")
       ELSE NewCrossing(kind, asks, IF kind \in Invokes THEN "invoke" ELSE "result", StageOf(kind))
  /\ \/ UNCHANGED aborted
     \/ kind \in {"toolHandler", "streamHandler", "readHandler"} /\ aborted' = TRUE
  /\ UNCHANGED <<mode, known, told, audits, handed, answer>>

\* argumentsOutcome up to sanitizeValue.
ReadArguments ==
  /\ At("arguments")
  /\ \/ aborted /\ Conclude("aborted")
     \/ ~aborted /\ Conclude("ok")                 \* there are none
     \/ ~aborted /\ Conclude("unsupported_value")  \* no plain object
     \/ ~aborted /\ Goto("value")
  /\ UNCHANGED <<mode, known, told, aborted, handed>>

\* BUG: the handler gets the arguments it was called with.
Forwarded_raw == "raw"

Forwarded == IF crossing.asks THEN "sanitized" ELSE "raw"

\* callOutcome and readOutcome up to the call of the host's function, and
\* wrapStreamedToolHandler's own.
Invoke ==
  /\ At("invoke")
  /\ LET stage == StageOf(crossing.kind)
         begun == NewCrossing(crossing.kind, crossing.asks, "awaiting", stage)
         End(outcome) ==
           /\ audits' = audits \o AuditRecords(stage, outcome)
           /\ crossing' = [begun EXCEPT !.at = "answered"]
           /\ answer' = [is |-> Wire(crossing.kind, outcome), blocks |-> <<>>]
           /\ UNCHANGED handed
     IN  \/ aborted /\ End("aborted")
         \/ ~aborted /\ crossing.kind \in {"toolCall", "resourceRead"} /\ End("error")  \* no function
         \/ ~aborted /\ crossing' = begun /\ handed' = Forwarded /\ UNCHANGED <<audits, answer>>
  /\ told' = 0
  /\ UNCHANGED <<mode, known, aborted>>

Thrown == IF aborted THEN "aborted" ELSE "error"

\* The host's function throws or rejects; its error is not read.
HandlerThrows ==
  /\ At("awaiting")
  /\ Conclude(Thrown)
  /\ UNCHANGED <<mode, known, told, aborted, handed>>

HandlerReturns ==
  /\ At("awaiting")
  /\ Goto(IF crossing.kind = "streamHandler" THEN "streaming" ELSE "result")
  /\ UNCHANGED <<mode, known, told, aborted, handed>>

\* streamOutcome, which McpStream models.
Stream ==
  /\ At("streaming")
  /\ \E outcome \in Outcomes : (aborted => outcome = "aborted") /\ Conclude(outcome)
  /\ UNCHANGED <<mode, known, told, aborted, handed>>

-----------------------------------------------------------------------------
(* resultOutcome and resourceOutcome.                                      *)

\* Up to the first block: a result may have no content, a resource must have
\* contents.
ReadResult ==
  /\ At("result")
  /\ \/ aborted /\ Conclude("aborted")
     \/ ~aborted /\ Conclude("unsupported_value")
     \/ ~aborted /\ crossing.stage = "result" /\ Goto("value")
     \/ ~aborted /\ Goto("blocks")
  /\ UNCHANGED <<mode, known, told, aborted, handed>>

\* prepareBlock, prepareResourceContents: a block without a base64 payload, or
\* one whose payload is detached, read once, where payloads are to pass.
PrepareBlock ==
  /\ At("blocks") /\ Len(crossing.blocks) < MaxBlocks
  /\ \E payload \in IF mode = "pass" THEN {0, 1} ELSE {0} :
       crossing' = [crossing EXCEPT
         !.blocks = Append(@, [raw |-> Len(@) + 1, payload |-> payload * (Len(@) + 1)])]
  /\ UNCHANGED <<mode, known, told, aborted, audits, handed, answer>>

\* A block that is malformed or cannot be read, or a payload that may not pass.
BlockFails ==
  /\ At("blocks")
  /\ Conclude("unsupported_value")
  /\ UNCHANGED <<mode, known, told, aborted, handed>>

BlocksEnd ==
  /\ At("blocks")
  /\ Goto("value")
  /\ UNCHANGED <<mode, known, told, aborted, handed>>

\* The whole value, to the first part of the backstop.
BeginValue ==
  /\ At("value")
  /\ IF aborted THEN Conclude("aborted") ELSE Goto("in value")
  /\ UNCHANGED <<mode, known, told, aborted, handed>>

ValueFails ==
  /\ At("in value")
  /\ \E reason \in BlockReasons : Conclude(reason)
  /\ UNCHANGED <<mode, known, told, aborted, handed>>

\* BUG: the backstop scans the structured fields and leaves out the blocks.
PartCount_topOnly == 1

\* keyContextParts: the value without its blocks, and every block.
PartCount == IF crossing.stage = "arguments" THEN 1 ELSE 1 + Len(crossing.blocks)

ValueEnds ==
  /\ At("in value")
  /\ \/ aborted /\ Conclude("aborted")
     \/ /\ ~aborted
        /\ \E parts \in [1 .. PartCount -> Serialized] :
             crossing' = [crossing EXCEPT !.at = "backstop", !.parts = parts]
        /\ UNCHANGED <<audits, answer>>
  /\ UNCHANGED <<mode, known, told, aborted, handed>>

-----------------------------------------------------------------------------
(* checkKeyContext.                                                        *)

Part == crossing.parts[crossing.next]

\* The loop goes on to the next part, or every part has passed.
Pass(clean) ==
  IF crossing.next = Len(crossing.parts) THEN Conclude("ok")
  ELSE /\ crossing' = [crossing EXCEPT !.at = "backstop", !.next = @ + 1, !.clean = clean]
       /\ UNCHANGED <<audits, answer>>

\* A part that serializes to a text already found clean is only polled for.
SkipPart ==
  /\ At("backstop") /\ Part \in crossing.clean
  /\ IF CancelledAtSkip THEN Conclude("aborted") ELSE Pass(crossing.clean)
  /\ UNCHANGED <<mode, known, told, aborted, handed>>

VerdictsOn(part) == IF part \in DOMAIN known THEN {known[part]} ELSE Verdicts

\* sanitizeText of a part, up to its last poll.  What is found is reported.
ScanPart ==
  /\ At("backstop") /\ Part \notin crossing.clean
  /\ \/ /\ aborted /\ Conclude("aborted")
        /\ UNCHANGED <<known, told>>
     \/ /\ ~aborted
        /\ \E v \in VerdictsOn(Part) :
             /\ known' = [p \in DOMAIN known \cup {Part} |-> IF p = Part THEN v ELSE known[p]]
             /\ told' = IF v = "clean" THEN told ELSE told + 1
             /\ IF v = "block" THEN Conclude("policy")
                ELSE crossing' = [crossing EXCEPT !.at = "in part", !.verdict = v]
                     /\ UNCHANGED <<audits, answer>>
  /\ UNCHANGED <<mode, aborted, handed>>

PartFails ==
  /\ At("backstop") /\ Part \notin crossing.clean /\ ~aborted
  /\ \E reason \in {"limit_exceeded", "lifecycle", "core_error"} : Conclude(reason)
  /\ UNCHANGED <<mode, known, told, aborted, handed>>

PartRefused(v) == v \in {"redact", "block"}

IsClean(v) == v = "clean"

\* sanitizeText has returned: what it would redact has no leaf to be mapped to.
EndPart ==
  /\ At("in part")
  /\ \/ aborted /\ Conclude("aborted")
     \/ ~aborted /\ PartRefused(crossing.verdict) /\ Conclude("policy")
     \/ /\ ~aborted /\ ~PartRefused(crossing.verdict)
        /\ Pass(crossing.clean \cup IF IsClean(crossing.verdict) THEN {Part} ELSE {})
  /\ UNCHANGED <<mode, known, told, aborted, handed>>

Cancel ==
  /\ ~aborted
  /\ aborted' = TRUE
  /\ UNCHANGED <<mode, crossing, known, told, audits, handed, answer>>

-----------------------------------------------------------------------------
BoundaryInit ==
  /\ mode \in {"block", "pass"}
  /\ crossing = NewCrossing("toolResult", FALSE, "idle", "result")
  /\ known = [p \in {} |-> "clean"]
  /\ told = 0
  /\ aborted = FALSE
  /\ audits = <<>>
  /\ handed = "none"
  /\ answer = [is |-> "none", blocks |-> <<>>]

HandlerStep == Invoke \/ HandlerThrows \/ HandlerReturns \/ Stream

ShapeStep == ReadArguments \/ ReadResult \/ PrepareBlock \/ BlockFails \/ BlocksEnd

ValueStep == BeginValue \/ ValueFails \/ ValueEnds

BackstopStep == SkipPart \/ ScanPart \/ PartFails \/ EndPart

BoundaryNext ==
  \/ \E kind \in Kinds, asks \in BOOLEAN : StartCrossing(kind, asks)
  \/ HandlerStep \/ ShapeStep \/ ValueStep \/ BackstopStep \/ Cancel

BoundarySpec == BoundaryInit /\ [][BoundaryNext]_boundaryVars

-----------------------------------------------------------------------------
(* Properties.                                                             *)

AuditRecord == [stage : {"arguments", "result", "resource"}, outcome : Outcomes]

\* Every variable stays in its type.
BoundaryTypeOK ==
  /\ mode \in {"block", "pass"}
  /\ crossing \in Crossing
  /\ known \in UNION {[D -> Verdicts] : D \in SUBSET Serialized}
  /\ told \in Nat
  /\ aborted \in BOOLEAN
  /\ audits \in Seq(AuditRecord)
  /\ handed \in {"none", "raw", "sanitized"}
  /\ answer \in Answer

ArgumentsPassed == audits # <<>> /\ Head(audits) = [stage |-> "arguments", outcome |-> "ok"]

\* The handler runs at most once, on a request not yet cancelled; where its
\* arguments were to be sanitized it runs only after they were, and on the
\* sanitized ones.
HandlerRunsCleared ==
  [][handed' # handed =>
       /\ handed = "none" /\ ~aborted
       /\ crossing.asks => ArgumentsPassed /\ handed' = "sanitized"]_boundaryVars

\* The audit trail tells what happened: one record of the arguments where they
\* were asked for, one of the result unless the arguments ended the crossing,
\* and the answer is the one the last record calls for; a value is never the
\* answer of a handler that did not run.
AuditedAsAnswered ==
  crossing.at = "answered" =>
    LET stages == [i \in DOMAIN audits |-> audits[i].stage]
        refusedArguments == Len(audits) = 1 /\ audits[1].outcome # "ok"
    IN  /\ IF crossing.kind = "toolArguments" \/ (crossing.asks /\ refusedArguments)
           THEN stages = <<"arguments">>
           ELSE IF crossing.asks THEN stages = <<"arguments", "result">>
           ELSE stages = <<StageOf(crossing.kind)>>
        /\ answer.is = Wire(crossing.kind, Last(audits).outcome)
        /\ answer.is = "value" /\ crossing.kind \in Invokes => handed # "none"

SanitizedOk ==
  crossing.at \in {"answered", "invoke"} /\ audits # <<>> /\ Last(audits).outcome = "ok"
    /\ crossing.kind # "streamHandler"

\* What the backstop passes, it has a verdict on, for every block as for the
\* rest, and none that redacts or blocks.
PassedBackstop ==
  SanitizedOk /\ crossing.parts # <<>> =>
    /\ Len(crossing.parts) = IF crossing.stage = "arguments" THEN 1 ELSE 1 + Len(crossing.blocks)
    /\ \A i \in DOMAIN crossing.parts :
         crossing.parts[i] \in DOMAIN known /\ known[crossing.parts[i]] \in {"clean", "warn"}

\* Every part with a finding is reported, however often the same text comes
\* back; no part without one is.
ReportedPerPart ==
  SanitizedOk =>
    told = Cardinality({i \in DOMAIN crossing.parts : known[crossing.parts[i]] # "clean"})

\* A payload is delivered only where payloads pass, in the block it was
\* detached from, and it is the value whose type was checked.
PayloadsAreTheirs ==
  /\ mode = "block" => \A i \in DOMAIN answer.blocks : answer.blocks[i].payload = 0
  /\ answer.is = "value" => answer.blocks = crossing.blocks

\* A request cancelled before its result is decided is not answered with a
\* value; a streamed one has its own last poll.
ValueIsNotCancelled ==
  [][answer'.is = "value" /\ answer.is # "value" =>
       ~aborted \/ crossing.kind = "streamHandler"]_boundaryVars

\* What is delivered has passed the backstop whole: every part with its verdict,
\* every finding reported, every payload in the block it came from.
DeliveredPassed == PassedBackstop /\ ReportedPerPart /\ PayloadsAreTheirs

\* A refusal or a cancellation is the end of a crossing: no handler runs after
\* one, and no value is answered.
NothingPastARefusal == HandlerRunsCleared /\ ValueIsNotCancelled
==============================================================================
