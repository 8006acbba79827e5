# redact-secret-adapters in TLA+

`redact-secret-adapters` puts one secret scanner, `@redact-secret/core`, behind
the places where text leaves a process: log records (pino, Python `logging`),
spans and log records of OpenTelemetry, and the text an application hands to a
model or an MCP tool returns. The scanner is not in this repository. What is
here is the code around it: what is scanned, under which limits, what becomes of
a value that fails, and what a host's own code (callbacks, policies, getters,
signals, producers, other threads) can do while the adapters run. That is what
these modules model, and with it the release train that publishes the packages.

Paths below are relative to the repository; `ai-context/boundary.ts` is short for
`packages/adapter-ai-context/src/boundary.ts`, and so on.

Contents: [the system](#the-system) · [the modules](#the-modules) ·
[how the models correspond to the code](#how-the-models-correspond-to-the-code) ·
[what is checked](#what-is-checked) · [what disagrees with the
documentation](#what-disagrees-with-the-documentation) · [what is
proved](#what-is-proved) · [what is only
model-checked](#what-is-only-model-checked) · [what is not
modelled](#what-is-not-modelled) · [plan](#plan) · [running it](#running-it).

## The system

| Part | State it keeps | Operations | Hard behaviour | What makes it correct |
| --- | --- | --- | --- | --- |
| **Operation budget**, `adapter/budget.ts`, `python/.../budget.py` | six meters and a sticky flag, one set per host operation | `chargeNode`, `chargeKey`, `chargeLeaf`, `chargeScan`, `chargeFindings` | one budget is spent by several passes, some nested in each other | no meter passes its limit; a refusal is final; a refused charge spends nothing |
| **Core activation**, `adapter/activation.ts`, the live factories, `python/.../_activation.py` | `observedActivation`; the core's one-shot PII selection is outside | `activateCore`, `checkAiContextReady`, `createAiContextBoundary`, `createMaskSecrets`, `resolve_live_scan_and_redact` | many callers wait in `await core.initialize()` at once; the first selection wins; initialization fails and is tried again | nobody runs under a selection they did not ask for; a refusal is told, for a reason of the caller's own, or the boundary fails closed |
| **Scan options**, `adapter/scan-options.ts`, `python/.../scan_options.py` | a frozen snapshot per host | `resolveScanConfig`, `bindScanConfig`, `verifyScanOptions`, `withResolvedScanConfig` | the options stay the caller's, who may change them while a factory awaits the core and ever after | what was verified is what is sent; nothing given is ignored (each with the exceptions below) |
| **Staged stream**, `openStream` of `ai-context/boundary.ts` | `session`, `terminal`, `finalized`, `staged`, `findings`, a budget, a listener on the caller's signal | `append`, `finalize`, `abort`, `accepting`, `onAbort` | `onFinding` and the core's policy are host code in the middle of a call; they may call the stream again or cancel it | at most one release, whole and in order; a failure stands; nothing is held afterwards |
| **AI-context operations**, the same file, `defaults.ts` and `adapter/walk-strict.ts` | one `Operation` (budget, memo, findings) per call | `sanitizeText`, `sanitizeValue`, `buildContext` | the signal is polled between the parts; the parts share one budget and one memo; the value is full of getters | all or nothing; a finding for every occurrence; one budget; it returns |
| **MCP streamed result**, `streamOutcome` of `mcp/boundary.ts` | the loop's place, the race of one pull against the signal | `streamOutcome`, `nextOrAbort`, `close` | a producer that never settles, settles late or misbehaves; a pull that races the signal | the request is answered; `ok` means all of the output; the producer is closed (but for one that yields no step), no listener is left |
| **MCP crossings**, the rest of that file | what one crossing's call closes over | arguments, results, resources, calls, reads, three wrapped handlers | a refusal or a cancellation in one stage, and the next would still run; a part of a result fails after others passed | no handler runs past a refusal; the audit agrees with the answer; what is delivered passed the backstop |
| **pino hook pair**, `pino/hooks.ts`, `log-method.ts` | `stack` of records in flight, `reporting` | `logMethod`, `streamWrite`, `onOutcome` | a getter, mixin, serializer, destination or observer logs again in the middle | one outcome per record, with its own counts |
| **pino line masking**, `log-method.ts`, `format-message.ts`, `stream-write.ts` | the record's budget, shared by both hooks | join and mask the message and its values, lex and mask the finished line | a secret that only the prefix, the format or a neighbour makes detectable; a limit in the middle of a line | no raw text reaches a serializer or the line; a clean record is written as if there were no hooks |
| **Span processor**, `otel-trace/span-processor.ts`, `python/.../otel.py` | the counter and budget of the span in progress, `reporting`, a warning flag | `onEnd`; `onStart`, `onEnding`, `forceFlush`, `shutdown` delegate | a policy, exporter or observer that ends another span re-enters `onEnd`; in Python, threads | a span that could not be masked is not exported; each span has its own counts and its own budget |
| **Log processor**, `otel-logs/log-record-processor.ts`, and **logging filter**, `python/.../logging_filter.py` | the same, per record; thread-local in Python | `onEmit`; `filter` | a write that does not stick, and may look as if it did; one Python record is filtered by several handlers and formatted by others | nothing raw is passed on; one report per pass, of its own counts |
| **Walks and leaf masking**, `adapter/walk.ts`, `mask-leaf.ts`, `key-context.ts`, `RecordMasker` and their Python mirrors | the path of a walk, its limits | `walkValue`, `_Walk`, `maskLeaf` | cycles, limits, throwing getters, findings that lie in the key and not in the value | every leaf is masked or replaced; the limits hold; what is put out is counted |
| **Release train**, `.github/workflows/`, `scripts/release-plan.mjs`, `release-notes.mjs` | branches, registries, tags, notes, the runs of five workflows | cut, rehearse, publish, finalize, reconcile, sync | jobs fail and are re-run; registries serve late; two workflows run at once; people step in | nothing is published over a dependency that is not; `main` is what is published; every train comes back |

How they interact. Every factory resolves its **scan options**, goes through
**core activation** once and then holds a `scanAndRedact` function of the core.
The adapters call it synchronously, through `maskLeaf` and a **walk** (logs and
spans) or directly (AI-context); every such call charges the **operation budget**
of the host operation it belongs to. The **MCP boundary** is a client of the
AI-context boundary, and its streamed results drive one **staged stream**. The host
is called back from everywhere: the core's policy in the middle of a scan,
`onFinding`, `onOutcome`, getters and serializers, the next processor of a
pipeline.

All of the JavaScript is one thread. "Interleaving" there means host code that
runs inside a call of the adapter, and code that runs while an `await` waits.
Only the Python modules meet threads; their state is thread-local but for
`_warned`. The release train is the one part that is distributed.

## The modules

| Module | Models | Builds on |
| --- | --- | --- |
| `OperationBudget` | the budget as a value, a charge as an operator from a budget to a budget | |
| `StagedRelease` | what a staged operation promises, and nothing about how | |
| `AiContextStream` | `openStream`: its variables, its signal, its callbacks, the core session it drives | `OperationBudget`; implements `StagedRelease` |
| `McpStream` | `streamOutcome`, `nextOrAbort` and `close` around that stream | `AiContextStream` |
| `AiContextOperation` | `sanitizeText`, `sanitizeValue`, `buildContext` and the strict walk | `OperationBudget`; implements `StagedRelease` |
| `McpBoundary` | every other crossing of the MCP boundary, stage by stage | calls what `AiContextOperation` models, as steps |
| `PinoHooks` | `observed`: both hooks and the stack they share | |
| `PinoRecord` | what both hooks do to one record | |
| `Activation` | the application and every live factory, racing for the core's selection | |
| `ScanOptions` | options and prepared configurations, from the caller to what a scan sends | |
| `SpanProcessor` | `onEnd` of the span processors, JavaScript and Python | `OperationBudget` |
| `LogRecords` | `onEmit` of the log processor and `filter` of the logging filter | `OperationBudget` |
| `ValueWalk` | `walkValue`, `_Walk` and `RecordMasker` with the leaf masker and the key context | `OperationBudget` |
| `ReleaseTrain` | the five workflows of a release, the plan and the notes | |
| `MC...` | values of the constants for TLC | |
| `..._proofs` | theorems and their proofs | |

An operator whose comment begins with `BUG:` is a plausible mistake in the
definition after it. No specification uses it; the mutants in `PROJECT.json` put
it in the place of the right one, and the property named there must then fail.

## How the models correspond to the code

`PROJECT.json` maps each definition to its lines. This section says what the
state stands for and where the models are coarser than the code.

**OperationBudget.** A budget is the record the closures of
`createOperationBudget` share: `spent` per meter and `exhausted`. `Charged` is the
four single-meter charges, `ChargedScan` the one that needs two meters at once.
The size of a text in bytes is an input.

**AiContextStream.** `stream` holds the variables `openStream` closes over, under
their own names; `session` is `unopened` before the call, `absent` if the core
could not open one. `calls` is the JavaScript stack of `append` and `finalize` calls
in progress. A call is in stage `core` while the core works (the only host code
there is the policy) and in stage `emit` while it hands findings to `onFinding`;
`at` is how many. So `Append_` and `Finalize` are the code up to the call of the
core, `CoreReturns` and `CoreFails` what happens when the core comes back,
`EmitFinding` one turn of the loop in `emit`, and `RecordResult` the tail of
`record` and of the caller. Between two of these steps host code may run, and only
there. A core result is a number; its text is that number; what the code asks of
it (how many findings, does one block) is kept. `core`, `emitted`, `answers` and
`made` are history. `signal` distinguishes a real `AbortSignal` from one that can
only be polled and from none, because `onAbort` joins only the first.
Detecting a call into the core session after its end is the property
`SessionCalledWhileOpen`, not a guard. A policy that re-enters the session calling
it is left out: what the core does then is not in this repository.

**StagedRelease.** For the stream, the refinement maps `released` to "an answer is
ok", `refused` to a `terminal`, `content` to `staged`, `output` to the text of the
ok answer. For an operation, `content` is the visits of the leaves staged so far
and `output` those of the leaves delivered.

**McpStream.** `pc` is the place in `streamOutcome`, `race` what `nextOrAbort` closes
over, `producer` the iterator. The pull is a step of its own (`Pull`) because
`iterator.next()` is called in a microtask after the race has begun. `Settle` is
the producer, with every way a pull can settle, including after the signal has
won. It is over when it says so, or, by the iteration protocol, when a pull of it
rejects; a step that is no object leaves it as alive as it was, and the loop does not
close it (`NotAStep`, excepted by name in `ProducerIsClosed`: `LeftAtNoStep`).
`CancelRequest` is the host, wherever its code runs: before a step of the
loop, during an `await`, or inside a callback of the stream. The steps of
`AiContextStream` are used as they are, through `InStream`.

**AiContextOperation.** `op` is the closure of one operation and the place of its
walk. A value is not a tree given beforehand: every visit chooses what reading it
gives next, which is what a host full of getters and `toJSON` can do, and it may
unfold without end. The core is a pure function of its input; `known` is what it
has answered so far, so a memo that answers something else shows. A string is
given to it alone or in its key-context view, `<<key, text>>`. A result reports no
finding or one; a real one may report several, which are charged and emitted the
same way one by one. `called`, `emitted` and each leaf's `verdict` are history.

**McpBoundary.** A crossing is one or two stages (arguments; result or resource);
`at` is the place in the functions that `argumentsOutcome`, `callOutcome`,
`resultOutcome` and `checkKeyContext` are. A block is its raw content and the
payload detached from it, numbered by the read that gave it, so a payload that
was read twice or put into another block shows. `known` is the core's verdict on
each serialized part it was asked about. `sanitizeValue` and `sanitizeText` are
single steps here, which poll the signal where those of `AiContextOperation` do.
Coarser than the code: getters that change a block's type or keys between two
reads; a handler's promise is not raced against the signal (in the code, too).

**PinoHooks.** `stack` and `reporting` are the variables of `observed`; `frames` is
the JavaScript stack of its hooks. What is masked is abstracted to one counted
value (`MaskValue`) or a walk that throws (`MaskingFails`), which is where the code
reads the counter anew. A record's `masked`, `collected`, `quiet` and `orphan` are
history.

**PinoRecord.** A text is a sequence of abstract words; the core redacts one word
anywhere, one only where its context comes right before it, and blocks a text with
a third: enough for a secret that only the join of prefix, format and values makes
detectable. `PinoLine` is pino (external): what its own method makes of the
arguments it is handed. Coarser than the code: `maxLineLength` and
`maxDecodeLength` are folded into one ceiling on the spans of a line; messages
that are no strings are left out; the charges are visits; the per-walk limits that
refuse a whole root are in `ValueWalk`; the host's own `streamWrite` returns pino's
line or that line with one value changed. The message of a leading Error is scanned
without the prefix pino prints before it; `PinoSeesNothingRaw` excepts that case
by name (`MessageIsTheErrors`), and the line it ends in is masked all the same.

**Activation.** A caller is one factory call, or the application calling
`core.initialize` itself. Its `phase` is the `await` it waits in. The core is
external: `cell` is its one-shot selection, `CoreSettles` resolves, conflicts or
fails; a core without `piiActivation()` (`reports = FALSE`) ignores selections, as
`activateCore`'s own guard assumes. `observed` is `observedActivation`. JavaScript
and Python differ in who initializes and who remembers; `runtime` chooses.

**ScanOptions.** `given`, `form` and `content` are the caller's options, the kind of
value each holds and what that value holds now; two values differ if their `content`
does. `checked` is the configuration read before the core was touched, `config` the
one the host scans with, `source` what the host was built from (history). Versions
are compared as the code compares them, phase and number, for eleven releases in
both spellings. One host per behaviour, and `kind` says which. What matters of a
JavaScript host is whether it copies its options or keeps them, and whether it is
live: the pair of pino hooks and both processors copy (`Copying`: a rest pattern and
a spread, which see own keys only), a single pino hook and `createMaskSecrets` keep
the object (`Keeping`), a plain call (`"call"`) reads it and is over. `inherited`
are the options the object has from its prototype: the factories verify them with
the rest, and a copying host finds none of them (`Visible`, `VisibleConfig`). A
keeping host whose options have a `scanConfig` works on the caller's own object
(`retained`) and reads the option again on every walk. Both properties name what
follows from that: `Replaced`, a `scanConfig` set or removed later on an object the
host keeps, and `LosesInherited`, what a copying host loses, which still honours all
its options have of their own. Coarser: an accessor on the options that answers
differently each time is a change by the caller; which options come from a prototype
is settled at the start.

**SpanProcessor.** `held` is `#counter` and `#budget`, named by the span they were
made for; `call` is the `onEnd` of each span, and `caller` links the calls of one
thread. `Masked` is the leaf masker and the write with its read-back. Both languages
are one module: JavaScript is one thread whose warning never raises. What is coarser
than the code: a text costs one scan (a secret that needs a second, key-context
scan is the same text here); the charge of a key is folded into that of its node,
attributes that are no strings and the nodes they cost are left out; a write that
does not stick is noticed at once, where Python checks a whole bag after writing
it (a span is dropped either way, and no further text is exported); an outcome
observer is always there; a hook that replaces `warnings.showwarning` is no host
code of the adapter.

**LogRecords.** A record is its fields, each of which holds a text the core changes,
one it leaves alone, one past the limit, something unreadable, an object that shows
a secret but has no keys of its own (`opaque`: an Error, a Map), or a mask, which a
store may have shortened (`cut`) and which for an object is a new one (`rebuilt`).
`calls` is, per thread, the `onEmit` or `filter` calls in progress. JavaScript
writes a field through a setter that may shorten it or, on a record that is
read-only (`readOnly`, a frozen attribute bag included), leave what was there or
throw (`Stored`, `Tells`); it reads the write back and drops the record if that is
not what was written. `Reflects` is the comparison as the code makes it: exact for
`severityText` and `eventName`; in a body or an attribute also what shortening makes
of the value; and of an object only that every key it has is as written, which one
without keys answers. So a read-only record may keep an opaque object and be
forwarded, the one case `NothingRawIsPassedOn` excepts (`SeemsTaken`). Python never
drops a record, and its units are what a formatter would make: the merged message,
the exception, the cached text. `passes`, `loud` and `outcomes` are history.
Coarser: the attributes are one unit; values that are no strings are not counted; a
finding in plain text charges nothing; an observer is always there; a getter of the
record itself does not throw and answers the same until it is written; `exc_info` of
three `None`s is an absent one.

**ValueWalk.** `path` is the recursion of a walk, innermost first; each container
counts in `out` what its copy holds so far, with `raw` for what should have been
masked. As in an operation, the value unfolds while it is read, may hold itself
and may throw. Three walkers share the module: the two that copy and share the
budget of their operation, and `RecordMasker`, which returns what did not change
as it is and has a budget of its own. Coarser: the counters of scans and findings
(the budget's are kept); a boxed string is a string; getters of an original that is
kept are not read again; one child past `MaxWidth` stands for any number.

**ReleaseTrain.** A branch is the set of commits it holds; `trees[t]` is `release`
once it held train `t`, and a version is the number of the bump that declares it.
`run` is the one Release run at work with its plan and the result of each publish
job, `reconcile` the one reconcile run; `accepted` and `served` are what the
registries have taken and what they let read, `tags`, `trainTags` and `notes` what
the finalize job leaves. The module's `Cuttable`, `Plan`, `Needs`, `ToTag` and
`Notes` are the conditions of the workflows and scripts. A cut takes two steps: the
checkout fetches the branches and tests that develop holds what release has
(`CheckOut`), and the steps after it ask whether a train is open and push the new one
(`Cut`). A train that is merged in between is not in the one that is cut, which is
then in `raced`; the workflow's concurrency group keeps two cuts from overlapping.
Starting a cut while a train is open is a thing people do by hand. Coarser: the text of
versions, dist-tags and notes; dry runs; a job cancelled by its own timeout;
squash merges; pull requests people open on their own. People are assumed to merge
the pull requests the workflows open, to re-run a failed Release and to dispatch
Sync develop when it is due.

## What is checked

Each row is a run of `PROJECT.json`; each property has a mutant there that breaks
it. States are distinct states.

| Run | Question | Properties | States |
| --- | --- | --- | --- |
| `StreamReentrant` | Is the stream consistent when `onFinding` appends, finalizes, aborts or cancels in the middle of a call? | `AtMostOneRelease`, `EndedHoldsNothing`, `ReleaseWithinBudget`, `FailureIsFinal`, `SessionCalledWhileOpen` | 68 k |
| `McpStreamLoop` | Does every request with a misbehaving producer end, whole and in order or not at all? | `OkIsTheWholeOutput`, `ReturnedHoldsNothing`, `LoopIsSound`, `InOrderOrNotAtAll` (with the refinement of `StagedRelease`), `StopIsAnswered` | 4.8 k |
| `Operations` | Is an operation delivered as scanned, whole or not at all, whatever its value unfolds to and whoever cancels it? | `DeliveredAsScanned`, `FindingsPerOccurrence`, `OneBudget`, `AlwaysReturns`, `WholeOrNothing` (with the refinement of `StagedRelease`) | 145 k |
| `McpCrossings` | Does every crossing audit what it answers, run a handler only on what was let through, and deliver only what passed? | `AuditedAsAnswered`, `DeliveredPassed`, `NothingPastARefusal` | 50 k |
| `PinoNested` | Is each record reported once, with its own counts, however records nest? | `ReportedOnce`, `CountsAddUp` | 200 k |
| `PinoRecord` | Is anything raw left in what pino sees or writes, and is a clean record left as it is? | `PinoSeesNothingRaw`, `NothingRawIsWritten`, `CleanRecordIsUntouched` | 8.1 M |
| `ActivationRace` | Does each caller that is given a scanner run under the selection it asked for, whoever else initializes the core, and when? | `RunsUnderItsSelection`, `RefusedForItsOwnReasons`, `PythonLeavesTheChoice` | 2.0 M |
| `Options` | Does a host send what it was built from, and is every option, own or inherited, honoured or refused? | `SentIsTheSnapshot`, `HonouredOrRefused` | 18.8 M |
| `SpanNested` | Do spans that end inside or beside each other keep their counts, budgets and outcomes apart, and is none exported unmasked? | `ExportedIsMasked`, `CountsAreTheSpans`, `EndsAsIfAlone` | 3.1 M |
| `LogRecords` | The same of log records, filtered again and formatted by others | `NothingRawIsPassedOn`, `CountsAreTheRecords`, `EachPassIsReported` | 927 k |
| `Values` | Is any secret of a value left in what a walk returns, and is all it puts out counted? | `NothingRawIsReturned`, `CountedWithinLimits` | 428 k |
| `ReleaseTrain` | Is anything published out of order, or on `main` unpublished, whatever fails and whatever is merged while a train is cut, and does every train come back that no other was cut past? | `MainIsPublished`, `NotesAreWhole`, `PublishedInOrder`, `TrainConverges` | 111 k |

`ReleaseIsFaithful` and the refinement of the stream are false when a callback
appends or finalizes: the stream then stages results in the order their recordings
end and may release before the outer result is in. `StreamReentrant` shows what
holds in spite of that; `McpStreamLoop`, whose callbacks may only cancel, what holds
when they do neither.

### Bounds, and why they are enough

- *Streams*: three appends, two finalizes, two findings to a result, three findings
  to an operation. An append may be made inside the recording of another one and
  a third follow it; a second finalize meets a finalized stream; a result has a
  finding before and one after the callback acts; two results exceed the budget, in
  one or in two calls. The code keeps no count but the budget's, so a fourth append
  meets no state the third could not.
- *MCP loop*: three chunks, one finalize (the loop makes one), two findings to the
  operation, so that a refusal falls on any chunk or on finalize. All three kinds
  of signal. `pulls` is bounded by the chunks.
- *Operations*: one short and one long text (past the memo's length), a memo of two,
  depth two, three nodes to a part, a budget of four nodes: a text comes back under
  another key and in another part, the memo fills, and each meter runs out first in
  some behaviour.
- *MCP crossings*: two blocks, two serialized texts: the parts of a result are
  three, so two of them are always the same text, before or after one that differs.
- *pino hooks*: four records, one value each: nesting four deep, or two nested in one
  and one beside them. A record is on the stack at most once, so depth adds only
  longer stacks.
- *pino records*: eight messages, three prefixes, arguments of every form and up to
  two values, with budgets from none to more than enough and both ceilings small and
  large: a secret is detectable alone, by its key, by the prefix, by the format, by
  its neighbour or only in the finished line, and a limit falls before and after it.
- *Activation*: an application, a readiness check and a boundary, or an application
  and two Python factories; two selectors; two calls each. Two selectors give the
  four relations of one selection to another (equal, contained, overlapping no
  more, empty); a second call is a retry after anybody else's success. A readiness
  check goes the way of a factory that rejects.
- *Options*: all five options, two of them at once, one of them or the `scanConfig`
  inherited, a core of each age and spelling, two changes by the caller: one before
  and one during the await, or both after the host was built.
- *Spans*: three spans on two threads, two secrets or one plain text each; leaves,
  scans and findings limited to one, so that a second text meets an exhausted
  budget and a shared one would show at once. Three spans nest three deep, or two
  deep beside another thread. Threads and spans are symmetric: no definition tells
  them apart.
- *Log records*: two records on two threads, two passes of a Python record, four
  shapes for each language that hold every kind of content in every place that
  matters, each record read-only or not, and leaves for two of their units.
- *Values*: two objects (either inside the other, or each in itself), depth three,
  width two, five nodes and two leaves, with each meter of the operation small
  enough to run out. Objects are symmetric.
- *Release train*: three packages of which the last builds on the others, and is
  published by hand as well; two bumps, one of the last package and one of either it
  builds on, the one in between without its CHANGELOG heading until it is fixed; two
  trains, which carry either bump or both; one thing done by hand. So a train has jobs that
  need each other, and jobs that need a package it does not ship; a second train is
  what an unfinished first one can be overtaken by, and what can be cut past it.

### Fairness

- `McpSpec`: `WF_allVars(AdapterStep)`. `AdapterStep` is the adapter's own code, its
  microtasks and the synchronous calls it makes (the core, the callbacks), which
  JavaScript's run-to-completion semantics carries out once they are due. Nothing is
  assumed of the producer, which may never settle, nor of the host, which may never
  cancel. The first half of `StopIsAnswered` asks for a signal with events: without a
  listener a pull that never settles is never left, and the code polls such a signal
  between pulls only.
- `AiContextOperation`: `WF_operationVars(OperationStep)`, the same for one synchronous
  call. The host's cancellations are outside. What makes `AlwaysReturns` true is not
  the fairness but the charges: the value may unfold for ever.
- `ReleaseTrain`: weak fairness of the workflows' steps, of the registries and the
  people who merge what was opened, and of dispatching Sync develop while develop
  lacks something of release; strong fairness of a rehearsal, a publish job, a
  finalize and a verification that *succeed*: each may fail any number of times, but
  not every time it is tried. Nothing is assumed of cancellations or of what is done
  by hand, which the bound limits.

No other specification states fairness: what it promises is safety.

`CHECK_DEADLOCK FALSE` is in every configuration, because a finished request, a host
that stops calling, and a bound that is reached are all legitimate ends; progress
is stated where it is promised, as liveness.

## What disagrees with the documentation

Met while modelling. None is the subject of a run of its own; where a property would
be false because of one, the property or the configuration excepts it by name. The
exceptions of the first five are reached within the bounds of their runs: without the
exception, TLC shows the case.

| What the code does | What is written |
| --- | --- |
| a train may be cut from a checkout older than the merge of the train before it: `release` is compared at `cut-rc.yml:50` on the branches fetched at `:35`, open pull requests are asked for at `:60` (`raced` in `TrainConverges` and in what sets `overtaken`) | `RELEASING.md:119-122`: it refuses to cut when "another train is still open, or `release` has commits `develop` doesn't" |
| a producer whose step is no object is not closed, unlike one whose step cannot be read (`mcp/boundary.ts:661`, `:672`; `LeftAtNoStep` in `ProducerIsClosed`) | `mcp/types.ts:170`: "Stops pulling and closes the producer as soon as the stream stops accepting" |
| the read-back of a log record compares own enumerable keys, so a write ignored in favour of an Error, or of any object without such keys, passes for taken and the record is forwarded (`otel-logs/log-record-processor.ts:289`; `SeemsTaken` in `NothingRawIsPassedOn`) | `packages/adapter-otel-logs/README.md:139`: "Every write is read back ... If a write does not take, the record is **dropped**" |
| the factories of the pair of pino hooks and of both processors verify inherited options, which the hosts they build then copy away (`pino/hooks.ts:360`, `adapter/scan-options.ts:294`, `otel-trace/span-processor.ts:251`, `otel-logs/log-record-processor.ts:372`; `LosesInherited` in `HonouredOrRefused`) | `pino/index.ts:82`: "the rest of `options` reaches the injected factory as the same object, inherited `hooks`, `policy` and `onOutcome` included"; `otel-logs/index.ts:58`: "so every other inherited key does too" |
| a host that keeps options with a `scanConfig` reads that option again on every walk, and follows an owner who replaces it (`adapter/scan-options.ts:310`, `walk.ts:51`; `Replaced` in `SentIsTheSnapshot`) | `adapter/scan-options.ts:302`: "every leaf is scanned with the one snapshot" |
| `finalize` sets `finalized` before it calls the core, and `onAbort` ignores a finalized stream: a signal aborted while the last findings are emitted does not stop the release (`ai-context/boundary.ts:675`, `:590`) | `docs/action-semantics.md:126` |
| a `finalize` called from `onFinding` releases what is staged before the blocking result it is told of has been recorded (`ai-context/boundary.ts:625` before `:631`) | `packages/adapter-ai-context/README.md`, on what a stream delivers |
| a producer whose pull settles with something unreadable, while the request is cancelled, ends it as `tool_error`; only a rejection polls the signal (`mcp/boundary.ts:661`) | `docs/action-semantics.md:126` |
| a line of a logger with the `streamWrite` hook only, written while a record is in flight, is taken for that record, which is then reported twice (`pino/hooks.ts:317`; `PinoNested` leaves such lines out with `BareLines`) | `pino/hooks.ts:196` |
| a core too old to report its activation is refused before `initialize()` is called, and the readiness result still says `core: ok` (`ai-context/readiness.ts:165`) | `ai-context/readiness.ts:73` |
| under `-W error` the warning about a dropped span leaves `on_end` before its report (`python/.../otel.py:330`; `WarningsRaise` is FALSE in `SpanNested`) | `python/.../otel.py:354` reports every span |
| the pino, span and log factories read the options again after the await, so what changed in between was not verified (`pino/index.ts:120` and its siblings; `HonouredOrRefused` excepts `waited` hooks) | `adapter/scan-options.ts:84` |
| the Python filter and span processor activate the core before they validate options | `python/.../scan_options.py`, its head: "before any core is loaded" |
| a release train that failed cannot be fixed by a new one while `release` holds commits `develop` lacks (`cut-rc.yml:50`) | `RELEASING.md`: "Fix it with a PR into a new train, or re-run" |
| a re-run publishes again what a registry has accepted and does not serve yet, and that job fails (`release-plan.mjs:286`) | `release.yml:8`: "publishes only what is still missing" |
| verifying and opening the pull request to `main` are two jobs of the reconcile, and a reconcile by hand may name an older train: the pull request may carry a train nobody verified (`overtaken` in `MainIsPublished`) | `release-reconcile.yml:8`: "main is exactly what has been published" |

Seen, and contradicting nothing that is written: an append made from `onFinding`
stages its findings before those of the result being reported, while the events go
out in the other order; one more pull may be made after a cancellation, if the
signal aborts between the start of the race and its microtask; `activationReflects`
accepts any superset of the requested selection (`adapter/activation.ts:144`), where
`docs/pii.md:69` speaks of the requested selection being the active one; two
Python threads that drop a span at once may both warn (`otel.py:328`); the AI-context
boundary verifies the
`actionPolicy` and not the `placeholderFormatter`, and keeps `wholeInputLimits` by
reference; the reconcile does not look whether the notes exist.


## What is proved

19571 obligations, checked by TLAPS with Z3, Zenon and LS4. Every safety property,
action property and refinement of every run is stated by a theorem; only liveness is
left to TLC.

| Proof module | Holds the proofs about |
| --- | --- |
| `OperationBudget_proofs` | the budget; the modules that spend one cite it |
| `AiContextStream_proofs` | `AiContextStream` and the loop around it, `McpStream` |
| `AiContextOperation_proofs` | `AiContextOperation` |
| `Boundaries_proofs` | `Activation` and `ScanOptions`, which every boundary is made by, and `McpBoundary` |
| `PinoHooks_proofs` | `PinoHooks` and `PinoRecord` |
| `SpanProcessor_proofs` | `SpanProcessor` |
| `Masking_proofs` | `LogRecords` and `ValueWalk` |
| `ReleaseTrain_proofs` | `ReleaseTrain` |

The assumptions are the named ones of the modules (`LimitsAssumption`,
`StreamAssumption`, `OperationAssumption`, `McpBoundaryAssumption`,
`ActivationAssumption`, `ScanOptionsAssumption`, `CoresAssumption`, `PinoAssumption`,
`RecordAssumption`, `SpanAssumption`, `LogAssumption`, `WalkAssumption`,
`TrainAssumption`), which say no more than the types of the constants and which of
them are distinct; TLC evaluates each in the runs above. Six theorems would
be false without a hypothesis of their own, so they have it:

- `PromiseIsKept` and `FaithfulRelease` are about a stream whose `onFinding` neither
  appends nor finalizes (`Callback \subseteq {"abort", "cancel"}`): a callback that
  appends puts its chunk before the one it was told of. `InOrder`, about the loop,
  needs no such hypothesis.
- The three theorems about `PinoHooks` suppose that no line of a logger without the
  `logMethod` hook is written while a record is in flight (`"nested" \notin
  BareLines`), which is what the code's own comment takes for granted and what it does
  not survive.
- `EndsAlone` supposes that no warning raises (`~WarningsRaise`): under `python -W
  error` the warning about a dropped span leaves `on_end` before its report.

| Theorem | Says, for every value of the constants |
| --- | --- |
| `ChargesStayWithinLimits`, `RefusalIsSticky` | no charge of any size takes a meter past its limit; a refused charge spends nothing, and none fits after it |
| `TypeCorrect`, `StreamAgrees` | `TypeOK` and `StreamInv` of the staged stream |
| `ReleasesAtMostOnce` | `AtMostOneRelease`, for any number of appends and finalizes from any depth of callback |
| `EndedStreamHoldsNothing` | `EndedHoldsNothing` |
| `CallsTheOpenSession` | the action property `SessionCalledWhileOpen` |
| `FailureStands` | the action property `FailureIsFinal` |
| `ReleaseIsAfforded` | `ReleaseWithinBudget`, for callbacks that re-enter the stream in every way |
| `PromiseIsKept`, `FaithfulRelease` | the stream implements `StagedRelease` (`KeepsPromise`), and `ReleaseIsFaithful` |
| `UsesTheStream` | `McpSpec => Spec`: the MCP loop is one user of the stream, so all of the above holds of its stream |
| `LoopHoldsNothing`, `OkIsAll`, `LoopSound` | `ReturnedHoldsNothing`, `OkIsTheWholeOutput`, `LoopIsSound` |
| `InOrder` | `InOrderOrNotAtAll`: the loop pulls one chunk at a time, its stream implements `StagedRelease`, and what it releases is whole and as reported |
| `OperationTypes` | `OperationTypeOK`, for inputs of any number and length and any limits |
| `DeliveredAsTheCoreHasIt`, `EveryOccurrenceIsListed`, `OneBudgetPaysForAll` | `DeliveredAsScanned`, `FindingsPerOccurrence`, `OneBudget` for every value an operation can be given |
| `DeliversAllOrNothing` | `WholeOrNothing`: an operation implements `StagedRelease` |
| `BoundaryTypes`, `AuditsTellWhatHappened`, `DeliveredHasPassed`, `NoStepPastARefusal` | `BoundaryTypeOK`, `AuditedAsAnswered`, `DeliveredPassed` and the action property `NothingPastARefusal`, for results of any number of blocks |
| `StackIsTheCalls`, `EachRecordIsReportedOnce`, `EachValueIsCountedOnce` | `StackFollowsCalls`, `ReportedOnce`, `CountsAddUp` for any number of records nested to any depth, with any number of values |
| `RecordInvariant`, `PinoSeesMasked`, `WritesMasked`, `CleanIsUntouched` | `PinoSeesNothingRaw`, `NothingRawIsWritten`, `CleanRecordIsUntouched` for any words, formats, arguments, prefixes, lines and limits |
| `ActivationTypeCorrect`, `SelectionIsHonoured`, `RefusalsAreTheirOwn`, `PythonSelectsWhenAsked` | `ActivationTypeOK`; `RunsUnderItsSelection`, `RefusedForItsOwnReasons` and `PythonLeavesTheChoice` for any set of callers, selectors and retries |
| `HostsSendTheirSnapshot` | `SentIsTheSnapshot`, for any options, own or inherited, and any number of changes by the caller; hosts whose kept object was given another `scanConfig` are excepted in the property |
| `HostsHonourOrRefuse` | `HonouredOrRefused`, for any options and any of the cores; of a host that copies its options it says so of those that are their own |
| `SpanTypeCorrect`, `HeldIsTheSpans`, `CountsAreOwn`, `NothingRawIsExported` | `SpanTypeOK`, `HeldFollowsCalls`, `CountsAreTheSpans`, `ExportedIsMasked` for any number of threads and spans, nested to any depth, and any number of texts |
| `EachPaysForItsOwn`, `EndsAlone` | `PaysForItsOwn`; `EndsAsIfAlone`: nothing of a span's end depends on the spans around it |
| `HandedOnMasked`, `RecordsCountTheirOwn`, `PassesAreReportedOnce` | `NothingRawIsPassedOn`, `CountsAreTheRecords`, `EachPassIsReported` for any number of threads, records and passes and any limits |
| `WalksReturnNothingRaw`, `WalksCountWithinLimits` | `NothingRawIsReturned`, `CountedWithinLimits` for values of any shape, cyclic and endless ones included |
| `TrainInvariant`, `MainHoldsThePublished`, `NotesListEveryTag`, `DependenciesArePublishedFirst` | `MainIsPublished`, `NotesAreWhole` and the action property `PublishedInOrder` for any number of trains, bumps, failures and re-runs |

The arguments.

*The stream.* `AtMostOneRelease` alone is not inductive: one must know that after
the release no call of `finalize` is still on its way. `StreamInv` says it as three
parts. `Coherent`: an open session has not failed, a failed stream does not
listen, a session is only given up by a failure or by finalize.
`FinalizeIsInnermost`: there is at most one `finalize` on the stack, it is the
innermost call, and while a finalized stream still has its session that call is
in the core. `ReleasedOnce`: the release is the answer of that one call, which is
over. The step that makes it work is in `Finalize`: it sets `finalized` before
anything can run, and a second one answers `lifecycle` without touching the
stack. All steps that only pop or replace the innermost call go through three
lemmas (`ReturnInv`, `HostInv`, `ReplaceInv`).

*The release.* That a release is whole is about results the core returned long ago, so
the invariant says it of what is staged (`OneAtATime`): as long as the stream is open
and has not released, its staged pieces are the results recorded so far in their order,
all cleared, and what `onFinding` was told is what is staged plus what the call in
progress has told already. It holds while at most one call is in progress, which is
what the hypothesis on the callbacks gives, and what the loop gives without it. Each
kind of step (`Quiet`, `Failing`, `Taking`, `Releasing`) then maps to one step of
`StagedRelease`. `ReleaseWithinBudget` holds without it, by counting (`PaidFor`): the
meter has been charged with as many findings as all results list, every finding that is
staged or on its way is one of those, and none is there twice.

*The loop.* Each step of `McpNext` is a step of `Next` or leaves `vars` alone
(`McpStep`), so `StreamInv` comes for free. `LoopInv` adds where the stream is at
each place of the loop, and that the race listens only while it is awaited.
`FeedInv` says what the loop knows of its producer at each place: every chunk but
the one it is about to append has been appended (`Fed`, `Awaits`), a producer the
loop is done with has ended, has been closed or gave something that is no step, and
`finalize` is called once, for a producer that was done or for a stream that has
failed and so releases nothing (`Ends`). The loop appends and finalizes only while
no call is in progress (`LoopSingle`).

*Operations.* What an operation delivers is about scans made long before, so
`OperationInv` keeps an account of the work so far: every leaf staged is as the core
answered for it (`AllScanned`), what is listed is what those leaves report and what
the host was told without the keys (`Listed`), the meters are the number and size of
the inputs the core was ever called with (`Paid`), and the memo holds only what the
core did answer, all of it while it has room (`Remembers`). `Placed` says what each
place of the walk has in hand. With `Progress`, that a step refuses, delivers, or
stages at most one leaf more, the refinement of `StagedRelease` follows from
`Numbered`: a leaf's visit is its place.

*Crossings.* An answer and its audit speak of every part of a result, the code looks at
one part at a time. `BoundaryInv` therefore says of a crossing in the middle of its
work what it has done so far: `Trail` (the records written are those of the stages
that are over, and whether a handler has run follows from the place), `Backstop` (the
parts before the next are known and pass, and as many findings were told as those parts
report), `Payloads` (each detached payload is that of its own block). Every step
inside a stage either goes on to the next place or concludes the stage; two lemmas,
one for each, carry the invariant.

*pino.* The code looks at the top of a stack and never at the calls it belongs to. The
invariant says what that stack is: the calls, innermost first, are of records in the
reverse order of their opening, where a line's masking lies on its own `logMethod`
(`Nesting`), and the stack holds exactly the records of the calls that have not begun
to report, in that order (`StackIs`). So the top is the record of the innermost call
(`TopIs`), and `splice` at `lastIndexOf` takes off the last (`RemovesTheTop`). The rest
is what was reported (`Told`), which records are quiet because an observer is at work
outside them (`Observing`) and what is owed to the caller until it returns
(`Counting`). A nested bare line breaks `Nesting`, and with it everything.

*pino records.* `RecordInv` goes with a record from hook to hook. Once `logMethod` has
run, pino is called with the error marker or with `MaskedArgs`: one of four shapes,
each of texts that are masked alone, under their key and after the prefix; and if
nothing was raw and no limit met, with the caller's own (`Answered`). The line is one
that pino makes of these (`BuiltByPino`), and the written one is masked (`WrittenMasked`).
The work is in the lemmas about joining: cutting a text where words are redacted, or
filling a format, makes nothing detectable that the masking of the whole did not
see. A format is unfolded by the least position at which it would go wrong.

*Activation.* `RunsUnderItsSelection` speaks of callers long after they verified, so
the invariant must say why what they saw stays true: a caller with `pii` waits only
for a core that reports (`WaitsForAReport`), a settled `initialize()` implies that
the one-shot cell is written (`SettledMeansSelected`), and what a caller verified
holds of the written cell (`VerifiedHolds`), which never changes (`CellStays`). The
second is what makes an empty request safe: PII that is off because nobody chose
could still be switched on. `RefusalsFollow` adds that each refusal goes back to what
the caller itself asked for or gave.

*Options.* A snapshot is only as good as the objects it shares. `SnapshotInv`: every
configuration on its way to a host is detached from the caller's objects, and a live
host was built from exactly what it sends, the callbacks excepted, which are the
caller's code whenever they run; so the change of an option reaches no host that has
been built. A host that keeps the caller's own object is the exception, and only as
long as that object's `scanConfig` is the one it was built with. `HonestInv` is the
other half: a host on its way still has what it was given (`StillGiven`), a live one
has all of that, or all of it that is not inherited where the host copies, and a
core that knows and accepts each part it checked (`Honoured`), and one that was
refused had a reason. That a version is new enough for an option is settled for each
of the releases by comparing the numbers the way the code does (`HasIsAtLeast`).

*Spans.* The counts are right because the processor's fields follow the calls like
a stack, though the code keeps no stack. `Links` says that the calls of each
thread form a list through `caller`, disjoint from every other thread's;
`HeldFollowsCalls` that each call has saved exactly what its caller held; hence what
a `finally` restores is the caller's (`HeldReturn` in the proofs).
`Scanning` says that a text in the core is masked with its own span's counter and
budget, `Final` that the snapshot of the counts and an export come after the last
text. `AloneInv` adds, for `EndsAsIfAlone`, that a span spends what its own texts cost
(`PaysForItsOwn`), and who is quiet and who is told: `reporting` of a thread is what its
innermost call inherited from an observer (`Quiet`), a span has one report at most and
none if it is quiet (`ToldOnce`), and it has one when it is over (`Told`).

*Log records.* A record is rewritten unit by unit, and between two units other calls
run. `LogInv` says of each call what it has left of its record: the units still to
come are as they were, all others hold nothing raw, but for an object whose write only
seems to have been taken (`Rewritten`); those taken are
counted, the raw ones as replaced (`AllCounted`); and no more was spent than that
(`SpentOn`), so that a limit is only reported of a record that exceeds one. `Distinct`
(a record has one call) keeps the calls out of each other's records, `Observers` says
when a pass is not to be told.

*Values.* `WalkInv` looks at the containers the walk is in: none holds anything raw,
no two are the same object, and the path is no longer than the depth allows
(`Walked`). That every marker in the result was counted is a statement about sums over
the path: `Tallied` bounds them by the counter. A sum is a function with a value for
each length of the path, so the walk's steps, which touch one or two containers at the
head, change it by what they add there.

*Release train.* The notion that carries it is what a tree declares: a tree holds
only bumps that are merged (`KnownBumps`), so its versions never change
(`TreesStay`), while tags and registries only grow (`SetsGrow`). `Lineage` is what
the workflows keep of the branches: a train on `main` is there whole, with all that
came before; `main`'s bumps are `release`'s; and no train is open while `release`
has what `main` lacks, but one that was cut past it (`raced`). So `release` rests as
long as the pull request to `main` is open, or moves under it by a train that is in
`raced`, and `overtaken` says so. `RunInv` says of the run at work that a job that
succeeded has its version accepted, one that was not planned has it served, and one
that was skipped was not planned, was cancelled or needed one that failed;
`ReconcileInv` and `PrInv` that a verified train is served and tagged, so that the
merge keeps `MainInv`. `PublishedInOrder` follows because the jobs a job needs are
closed over the dependencies of its package (`NeedsFollow`).

## What is only model-checked

Liveness: `StopIsAnswered`, `AlwaysReturns` and `TrainConverges`. Liveness under fairness
and `ENABLED` are out of the prover's reach.

Two things limit what the theorems are about. Induction over data is not available to
the prover, so where a property needs a sum over a path or the meaning of a format,
the model defines it by a recursive function and the proofs argue by a least
counterexample. And the outcome of a whole scan is the core's: the theorems suppose of
it what the modules say of it, and nothing else.

## What is not modelled

- The core. Its scan is "a text, findings, maybe a failure", its session "open until
  finalized or disposed", its activation one cell. That is what the code in this
  repository relies on.
- Character offsets: where a finding lies in a key-context view is an input (in the
  key, in the value, across both), and so is where a span of a line begins.
- `redactAttributesWith` and `redact_attributes_with` as functions of their own (the
  span processors use the same steps); `onStart`, `forceFlush`, `shutdown` and `enabled`
  of the processors, which only delegate.
- Type declarations, re-exports and the default options.
- The testbed, benchmarks, smoke tests, the site feed, the compatibility checks, the
  examples and the fixtures: they observe the packages and keep no state of theirs.

## Plan

Every component that keeps state has its module. What would come next:

1. Composition: `McpBoundary` over the steps of `AiContextOperation`, in place of the
   single steps its scans are now, to see a cancellation and a limit inside a
   crossing; with the proof that each scan is an operation, so that the theorems
   about operations hold of it.
2. Offsets: the key-context view over bounded texts, against a reference that sorts
   findings into key, boundary and value.
3. Several hosts at once in `ScanOptions`, and several processors in one pipeline.

## Running it

    tlc -workers 2 -config McpStreamLoop.cfg MCMcpStream.tla
    tlapm AiContextStream_proofs.tla

`PROJECT.json` names the module and the configuration of each run. The longest are
`Options`, a minute and a half, and `ReleaseTrain`, `PinoRecord`, `Operations` and
`SpanNested`, a minute or so each; the longest proofs are those of `PinoHooks_proofs`,
about three minutes.
