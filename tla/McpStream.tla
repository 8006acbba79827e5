------------------------------ MODULE McpStream ------------------------------
(***************************************************************************)
(* sanitizeStreamedToolResult of the MCP boundary: an asynchronous loop    *)
(* that pulls the chunks of a producer into one staged stream of           *)
(* AiContextStream, races every pull against the cancellation signal, and  *)
(* ends by delivering one outcome.  The loop runs on the thread of its     *)
(* host: the request is cancelled, and the producer settles, only while it *)
(* awaits or while host code it called runs.                               *)
(***************************************************************************)
EXTENDS AiContextStream

VARIABLES
  pc,        \* where streamOutcome is
  race,      \* the pull nextOrAbort waits for
  producer,  \* the producer's iterator
  outcome    \* what streamOutcome returned, or "none"

mcpVars == <<pc, race, producer, outcome>>

allVars == <<stream, signal, aborted, calls, core, emitted, answers, made,
             pc, race, producer, outcome>>

\* What one pull settles with.  `notAString` is a chunk the stream refuses,
\* `notAStep` a settled value that is no object, `unreadable` a step whose
\* fields throw.
Steps == {"chunk", "notAString", "done", "rejected", "notAStep", "unreadable"}

Places ==
  {"called",      \* nothing has run yet
   "iterating",   \* the producer's iterator factory ran
   "awaiting",    \* in nextOrAbort
   "appending",   \* in stream.append
   "closing",     \* close() ran the producer's return and destroy
   "finalizing",  \* in stream.finalize
   "returned"}

Race ==
  [settled : Steps \cup {"none", "abort"},  \* what won, once something did
   pulled : BOOLEAN,                        \* iterator.next() has been called
   listening : BOOLEAN]                     \* the race's own onAbort is attached

Producer ==
  [pulls : Nat, pending : BOOLEAN, chunks : Nat, ended : BOOLEAN, closed : BOOLEAN]

McpOutcomes == Refusals \cup {"ok", "tool_error"}

-----------------------------------------------------------------------------
(* nextOrAbort and close.                                                  *)

\* BUG: the race does not listen to the signal, which is polled after each step.
Racing_pollsOnly == [settled |-> "none", pulled |-> FALSE, listening |-> FALSE]

\* A new race.  iterator.next() is called by a microtask of its own, and a
\* signal without events is not raced.
Racing == [settled |-> "none", pulled |-> FALSE, listening |-> (signal = "events")]

\* BUG: the listener is left on the signal.
Left_keepsListening == race

\* The loop has the result of the race: its listener is gone.
Left == [race EXCEPT !.listening = FALSE]

\* BUG: the producer is dropped, not closed.
Closed_dropped == producer

\* close: the iterator's return and the source's destroy, never awaited.
Closed == [producer EXCEPT !.closed = TRUE]

Deliver(result) == pc' = "returned" /\ outcome' = result

-----------------------------------------------------------------------------
(* streamOutcome.                                                          *)

\* The signal is polled, then the producer's iterator factory is called.
Begin ==
  /\ pc = "called"
  /\ IF aborted THEN Deliver("aborted")
     ELSE \/ Deliver("tool_error")         \* the factory throws
          \/ Deliver("unsupported_value")  \* there is none
          \/ pc' = "iterating" /\ UNCHANGED outcome
  /\ UNCHANGED <<vars, race, producer>>

\* openStream; a stream that accepts is pulled for at once, one that does not
\* closes the producer.
Open ==
  /\ pc = "iterating"
  /\ OpenStream
  /\ IF Accepting(stream')
     THEN pc' = "awaiting" /\ race' = Racing /\ UNCHANGED producer
     ELSE pc' = "closing" /\ producer' = Closed /\ UNCHANGED race
  /\ UNCHANGED outcome

\* The microtask that calls iterator.next().  It runs whether or not the signal
\* has won the race by then.
Pull ==
  /\ pc = "awaiting" /\ ~race.pulled
  /\ race' = [race EXCEPT !.pulled = TRUE]
  /\ producer' = [producer EXCEPT !.pulls = @ + 1, !.pending = TRUE]
  /\ UNCHANGED <<vars, pc, outcome>>

\* The producer settles the pending pull.  If the signal won, nobody listens.
\* It is over once it says so, or by the iteration protocol once a pull of it
\* rejects; a producer that gives something that is no step may be as alive as
\* before.
Settle(step) ==
  /\ producer.pending
  /\ step \in {"chunk", "notAString"} => producer.chunks < MaxAppends
  /\ producer' = [producer EXCEPT !.pending = FALSE,
                                  !.chunks = IF step \in {"chunk", "notAString"} THEN @ + 1 ELSE @,
                                  !.ended = step \in {"done", "rejected"}]
  /\ race' = IF race.settled = "none" THEN [race EXCEPT !.settled = step] ELSE race
  /\ UNCHANGED <<vars, pc, outcome>>

\* The request is cancelled.  The stream's listener and the race's both run.
CancelRequest ==
  /\ pc \in {"called", "iterating", "awaiting", "closing"} \/ calls # <<>>
  /\ Cancel
  /\ race' = IF race.listening /\ race.settled = "none"
             THEN [race EXCEPT !.settled = "abort"] ELSE race
  /\ UNCHANGED <<pc, producer, outcome>>

\* The loop goes on with a step that ends it: the stream is aborted first.
Resumed(step) == pc = "awaiting" /\ race.pulled /\ race.settled = step

\* BUG: a producer that throws has merely ended.
Rejected_ends ==
  /\ Resumed("rejected")
  /\ Finalize /\ pc' = "finalizing"
  /\ race' = Left
  /\ UNCHANGED <<producer, outcome>>

Rejected ==
  /\ Resumed("rejected")
  /\ Abort
  /\ Deliver(IF aborted THEN "aborted" ELSE "tool_error")
  /\ race' = Left
  /\ UNCHANGED producer

CancelWon ==
  /\ Resumed("abort")
  /\ Abort
  /\ Deliver("aborted")
  /\ race' = Left
  /\ producer' = Closed

\* What the producer gave is no object: the stream is aborted, and the producer
\* is not closed.
NotAStep ==
  /\ Resumed("notAStep")
  /\ Abort
  /\ Deliver("tool_error")
  /\ race' = Left
  /\ UNCHANGED producer

Unreadable ==
  /\ Resumed("unreadable")
  /\ Abort
  /\ Deliver("tool_error")
  /\ race' = Left
  /\ producer' = Closed

\* The producer is done: finalize.
Done ==
  /\ Resumed("done")
  /\ Finalize /\ pc' = "finalizing"
  /\ race' = Left
  /\ UNCHANGED <<producer, outcome>>

\* A chunk is appended.  append returns at once when the stream has stopped
\* accepting meanwhile.
Chunk(isString) ==
  /\ Resumed(IF isString THEN "chunk" ELSE "notAString")
  /\ Append_(isString) \/ (~Accepting(stream) /\ UNCHANGED vars)
  /\ pc' = "appending"
  /\ race' = Left
  /\ UNCHANGED <<producer, outcome>>

\* append has returned: pull again, or close the producer.
Appended ==
  /\ pc = "appending" /\ calls = <<>>
  /\ IF Accepting(stream)
     THEN pc' = "awaiting" /\ race' = Racing /\ UNCHANGED producer
     ELSE pc' = "closing" /\ producer' = Closed /\ UNCHANGED race
  /\ UNCHANGED <<vars, outcome>>

\* A refused stream is finalized for its reason.
FinalizeRefused ==
  /\ pc = "closing"
  /\ Finalize /\ pc' = "finalizing"
  /\ UNCHANGED <<race, producer, outcome>>

\* finalize has answered.
Answered ==
  /\ pc = "finalizing" /\ calls = <<>>
  /\ Deliver(answers[Len(answers)].outcome)
  /\ UNCHANGED <<vars, race, producer>>

\* The stream, the core and the callbacks get on with the call in progress.
InStream == StreamStep /\ UNCHANGED mcpVars

-----------------------------------------------------------------------------
McpInit ==
  /\ Init
  /\ pc = "called" /\ outcome = "none"
  /\ race = [settled |-> "none", pulled |-> FALSE, listening |-> FALSE]
  /\ producer = [pulls |-> 0, pending |-> FALSE, chunks |-> 0, ended |-> FALSE, closed |-> FALSE]

\* What the runtime always gets round to: the adapter's own code, its
\* microtasks, and the synchronous calls of the core and of the callbacks.
AdapterStep ==
  \/ Begin \/ Open \/ Pull
  \/ Rejected \/ CancelWon \/ NotAStep \/ Unreadable \/ Done
  \/ (\E isString \in BOOLEAN : Chunk(isString))
  \/ Appended \/ FinalizeRefused \/ Answered \/ InStream

McpNext == AdapterStep \/ CancelRequest \/ \E step \in Steps : Settle(step)

\* Nothing is assumed of the producer, which may never settle, nor of the host,
\* which may never cancel.
McpSpec == McpInit /\ [][McpNext]_allVars /\ WF_allVars(AdapterStep)

-----------------------------------------------------------------------------
(* Properties.                                                             *)

\* Every variable of the loop and of its stream stays in its type.
McpTypeOK ==
  /\ TypeOK
  /\ pc \in Places
  /\ race \in Race
  /\ producer \in Producer
  /\ outcome \in McpOutcomes \cup {"none"}

\* `ok` is delivered only for a producer that said it was done, and for every
\* chunk it produced: a failed, cancelled or refused producer is never
\* mistaken for one that ended, and no chunk is lost on the way.
OkIsTheWholeOutput ==
  outcome = "ok" =>
    /\ race.settled = "done" /\ ~producer.closed
    /\ producer.chunks = made.append
    /\ answers[1].outcome = "ok"

\* When streamOutcome has returned, it has left no core session open, no call
\* in progress and no listener of its own or of the stream on the signal.
ReturnedHoldsNothing ==
  pc = "returned" =>
    calls = <<>> /\ stream.session # "open" /\ ~stream.listening /\ ~race.listening

\* The loop left because what the producer gave was no object.
LeftAtNoStep == race.settled = "notAStep"

\* A producer that was opened has ended by itself or has been closed when the
\* outcome is delivered, whatever went wrong in between, except that one whose
\* step was no object is left as it is.
ProducerIsClosed ==
  pc = "returned" /\ stream.session # "unopened" /\ ~LeftAtNoStep =>
    producer.ended \/ producer.closed

\* The loop's own variables are sound, and no producer outlives it.
LoopIsSound == McpTypeOK /\ ProducerIsClosed

\* The producer is never asked for a chunk before the chunk it gave last has
\* gone through the core and its findings have been recorded.
PullsOneAtATime ==
  [][producer'.pulls > producer.pulls =>
       ~producer.pending /\ calls = <<>> /\ made.append = producer.chunks]_allVars

\* What the loop feeds the stream comes out in the order it was pulled, whole and
\* with the findings the host was told of, or not at all.
InOrderOrNotAtAll == PullsOneAtATime /\ KeepsPromise /\ []ReleaseIsFaithful

\* A request that is cancelled, if the signal has events, or whose stream refuses,
\* is answered however long the producer stays pending.
StopIsAnswered ==
  \/ signal = "events" /\ aborted
  \/ stream.session # "unopened" /\ ~Accepting(stream)
  ~> pc = "returned"
==============================================================================
