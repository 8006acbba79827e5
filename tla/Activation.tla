------------------------------ MODULE Activation ------------------------------
(***************************************************************************)
(* Who initializes the core.  The core's PII selection is process-wide and *)
(* one-shot, and the application and every live factory of this repository *)
(* want to make it: each waits in `await core.initialize()` (or, in        *)
(* Python, holds a thread in it) while the others run.  A caller is one    *)
(* call of a factory or of the application's own initialize(), which may   *)
(* be made again after it failed.                                          *)
(***************************************************************************)
EXTENDS Naturals

CONSTANTS
  Apps,          \* callers that are the application calling core.initialize
  Factories,     \* createMaskSecrets, the pino and the OpenTelemetry factories
  Boundaries,    \* createAiContextBoundary, which does not reject
  Checks,        \* checkAiContextReady
  PythonCallers, \* the Python factories
  Selectors,     \* the core's PII selectors
  NoSelection,   \* no selection was made, or none was asked for
  MaxTries       \* bound: calls of one caller

Callers == Apps \cup Factories \cup Boundaries \cup Checks \cup PythonCallers

Selections == SUBSET Selectors

\* Not selecting is not selecting nothing, and a caller is of one kind.
ASSUME ActivationAssumption ==
  /\ \A s \in Selections : s # NoSelection
  /\ Apps \cap (Factories \cup Boundaries \cup Checks \cup PythonCallers) = {}
  /\ Checks \cap PythonCallers = {}
  /\ MaxTries \in Nat

VARIABLES
  runtime,   \* the language of this process
  reports,   \* whether the installed core has piiActivation()
  cell,      \* the core's one-shot selection
  request,   \* the pii each caller passes
  phase,     \* where each caller is
  settled,   \* what the caller's core.initialize() settled with
  reason,    \* why the caller was refused
  observed,  \* observedActivation
  tries      \* how often the caller has called

activationVars == <<runtime, reports, cell, request, phase, settled, reason, observed, tries>>

\* The callers of this process: an application, and the factories of its runtime.
Present(c) == c \in Apps \/ (c \in PythonCallers <=> runtime = "python")

Phases == {"idle", "importing", "initializing", "activated", "resolved", "rejected", "failsClosed"}

Reasons == {"import", "unsupported", "core", "not_active", "options"}

-----------------------------------------------------------------------------
(* The core.                                                               *)

\* What initialize() is asked for: a call without pii asks for the empty
\* selection, which is a selection like any other.
Asked(c) == IF request[c] = NoSelection THEN {} ELSE request[c]

\* piiActivation(): `off` until a selection is made.
ActiveSelection == IF cell = NoSelection THEN {} ELSE cell

\* initialize() resolves or fails.  A core that cannot report an activation
\* predates PII selections and ignores them.
CoreSettles(c) ==
  /\ phase[c] = "initializing" /\ settled[c] = "none"
  /\ \/ settled' = [settled EXCEPT ![c] = "failed"] /\ UNCHANGED cell
     \/ /\ reports /\ cell \in {NoSelection, Asked(c)}
        /\ settled' = [settled EXCEPT ![c] = "done"] /\ cell' = Asked(c)
     \/ /\ reports /\ cell \notin {NoSelection, Asked(c)}
        /\ settled' = [settled EXCEPT ![c] = "conflict"] /\ UNCHANGED cell
     \/ /\ ~reports
        /\ settled' = [settled EXCEPT ![c] = "done"] /\ UNCHANGED cell
  /\ UNCHANGED <<runtime, reports, request, phase, reason, observed, tries>>

-----------------------------------------------------------------------------
(* activateCore and activate_core.                                         *)

\* BUG: one of the requested selectors is enough.
Reflects_any(active, pii) == IF pii = {} THEN active = {} ELSE pii \cap active # {}

\* activationReflects: an empty request finds PII off, another one finds every
\* selector it names.
Reflects(active, pii) == IF pii = {} THEN active = {} ELSE pii \subseteq active

\* remember: an identity that could not be read changes nothing.
Remembered(identity) == IF identity = NoSelection THEN observed ELSE identity

\* readPiiActivation, which fails on a core without piiActivation() and may
\* fail on one that has it.
Identities == IF reports THEN {ActiveSelection, NoSelection} ELSE {NoSelection}

\* BUG: a conflict is a failure like any other.
Tolerates_none(c) == FALSE

\* A conflict is not yet a failure.
Tolerates(c) == settled[c] = "conflict"

\* BUG: Python initializes the core whether it was given pii or not.
Initializes_always(c) == TRUE

\* A Python factory without pii never calls initialize().
Initializes(c) == c \notin PythonCallers \/ request[c] # NoSelection

-----------------------------------------------------------------------------
(* The callers.                                                            *)

\* createAiContextBoundary resolves with a boundary that fails every operation.
RefusedPhase(c) == IF c \in Boundaries THEN "failsClosed" ELSE "rejected"

Refuse(c, why) ==
  /\ phase' = [phase EXCEPT ![c] = RefusedPhase(c)]
  /\ reason' = [reason EXCEPT ![c] = why]

GoTo(c, place) == phase' = [phase EXCEPT ![c] = place] /\ UNCHANGED reason

\* The first call, or another one after a refusal.
Start(c) ==
  /\ phase[c] \in {"idle", "rejected", "failsClosed"} /\ tries[c] < MaxTries
  /\ tries' = [tries EXCEPT ![c] = @ + 1]
  /\ phase' = [phase EXCEPT ![c] = IF c \in Apps THEN "initializing" ELSE "importing"]
  /\ reason' = [reason EXCEPT ![c] = "none"]
  /\ settled' = [settled EXCEPT ![c] = "none"]
  /\ UNCHANGED <<runtime, reports, cell, request, observed>>

\* import("@redact-secret/core") settles, and activateCore begins: pii needs a
\* core that can report it.
Imported(c) ==
  /\ phase[c] = "importing"
  /\ \/ Refuse(c, "import")
     \/ /\ request[c] # NoSelection /\ ~reports
        /\ Refuse(c, "unsupported")
     \/ /\ request[c] = NoSelection \/ reports
        /\ GoTo(c, IF Initializes(c) THEN "initializing" ELSE "activated")
  /\ UNCHANGED <<runtime, reports, cell, request, settled, observed, tries>>

\* The application's own initialize() has settled.
AppContinues(c) ==
  /\ c \in Apps /\ phase[c] = "initializing" /\ settled[c] # "none"
  /\ IF settled[c] = "done" THEN GoTo(c, "resolved") ELSE Refuse(c, "core")
  /\ UNCHANGED <<runtime, reports, cell, request, settled, observed, tries>>

\* The rest of activateCore.  Python verifies the same way and remembers
\* nothing.
Verify(c) ==
  /\ c \notin Apps /\ phase[c] = "initializing" /\ settled[c] # "none"
  /\ IF settled[c] # "done" /\ ~Tolerates(c)
     THEN Refuse(c, "core") /\ UNCHANGED observed
     ELSE \E identity \in Identities :
            IF request[c] # NoSelection
               /\ (identity = NoSelection \/ ~Reflects(identity, request[c]))
            THEN Refuse(c, "not_active") /\ UNCHANGED observed
            ELSE /\ GoTo(c, "activated")
                 /\ observed' = IF c \in PythonCallers THEN observed ELSE Remembered(identity)
  /\ UNCHANGED <<runtime, reports, cell, request, settled, tries>>

\* The core refuses a scan option (of a readiness check: fails its probe), which
\* rejects every factory, or the factory hands out its scanner.
Finish(c) ==
  /\ phase[c] = "activated"
  /\ \/ GoTo(c, "resolved")
     \/ /\ phase' = [phase EXCEPT ![c] = "rejected"]
        /\ reason' = [reason EXCEPT ![c] = "options"]
  /\ UNCHANGED <<runtime, reports, cell, request, settled, observed, tries>>

Stages(core, pii, probe) == [core |-> core, pii |-> pii, probe |-> probe]

\* BUG: the core is said to have failed whenever activateCore has.
Readiness_coreFailed(c) ==
  LET pii == IF request[c] = NoSelection THEN "skipped" ELSE "ok"
  IN  CASE phase[c] = "resolved" -> Stages("ok", pii, "ok")
        [] reason[c] = "options" -> Stages("ok", pii, "failed")
        [] reason[c] \in {"unsupported", "not_active", "core"} -> Stages("failed", "skipped", "skipped")
        [] OTHER -> Stages("skipped", "skipped", "skipped")

\* checkAiContextReady: what a check that has returned says of each stage.
Readiness(c) ==
  LET pii == IF request[c] = NoSelection THEN "skipped" ELSE "ok"
  IN  CASE phase[c] = "resolved" -> Stages("ok", pii, "ok")
        [] reason[c] = "options" -> Stages("ok", pii, "failed")
        [] reason[c] \in {"unsupported", "not_active"} -> Stages("ok", "failed", "skipped")
        [] reason[c] = "core" -> Stages("failed", "skipped", "skipped")
        [] OTHER -> Stages("skipped", "skipped", "skipped")

-----------------------------------------------------------------------------
ActivationInit ==
  /\ runtime \in {"javascript", "python"}
  /\ reports \in BOOLEAN
  /\ cell = NoSelection
  /\ request \in [Callers -> {NoSelection} \cup Selections]
  /\ \A c \in Callers : ~Present(c) => request[c] = NoSelection
  /\ phase = [c \in Callers |-> "idle"]
  /\ settled = [c \in Callers |-> "none"]
  /\ reason = [c \in Callers |-> "none"]
  /\ observed = NoSelection
  /\ tries = [c \in Callers |-> 0]

ActivationNext ==
  \E c \in Callers :
    /\ Present(c)
    /\ Start(c) \/ Imported(c) \/ CoreSettles(c) \/ AppContinues(c) \/ Verify(c) \/ Finish(c)

ActivationSpec == ActivationInit /\ [][ActivationNext]_activationVars

-----------------------------------------------------------------------------
(* Properties.                                                             *)

\* Every variable stays in its type, a refused caller knows why, and only a
\* boundary fails closed.
ActivationTypeOK ==
  /\ runtime \in {"javascript", "python"}
  /\ reports \in BOOLEAN
  /\ cell \in {NoSelection} \cup Selections
  /\ request \in [Callers -> {NoSelection} \cup Selections]
  /\ phase \in [Callers -> Phases]
  /\ settled \in [Callers -> {"none", "done", "conflict", "failed"}]
  /\ reason \in [Callers -> Reasons \cup {"none"}]
  /\ observed \in {NoSelection} \cup Selections
  /\ tries \in [Callers -> Nat]
  /\ \A c \in Callers :
       /\ phase[c] \in {"rejected", "failsClosed"} <=> reason[c] # "none"
       /\ phase[c] = "failsClosed" => c \in Boundaries

\* A caller that asked for a selection and was given a scanner has every
\* selector it asked for active, or PII off if it asked for none, for as long
\* as the process lives, whoever else initializes the core and whenever.
RunsUnderItsSelection ==
  \A c \in Callers \ Apps :
    phase[c] = "resolved" /\ request[c] # NoSelection =>
      /\ reports /\ request[c] \subseteq ActiveSelection
      /\ request[c] = {} => ActiveSelection = {}

\* A caller without pii is never refused because the application has made a
\* selection of its own.
AcceptsTheApplication ==
  \A c \in Callers \ Apps :
    request[c] = NoSelection /\ settled[c] = "conflict" => reason[c] \in {"none", "options"}

\* createAiContextBoundary never rejects for an initialization failure, only
\* for an option the core does not honour.
BoundaryRejectsOptionsOnly ==
  \A c \in Boundaries : phase[c] = "rejected" => reason[c] = "options"

\* A stage a readiness check reports is what became of it: the core failed only
\* if its own initialize() did, and is ok only if somebody has initialized it (but
\* for a core without piiActivation(), which a check with pii never asks to), and
\* pii is ok only if the selection is the active one.
ReportsWhatItSaw ==
  \A c \in Checks : phase[c] \in {"resolved", "rejected"} =>
    LET stages == Readiness(c)
    IN  /\ stages.core = "failed" => settled[c] = "failed"
        /\ stages.core = "ok" /\ reports => cell # NoSelection
        /\ stages.pii = "ok" => reports /\ Reflects(ActiveSelection, request[c])
        /\ stages.probe # "skipped" => stages.core = "ok" /\ stages.pii # "failed"

\* A caller is refused for its own reasons only, a boundary's caller finds out
\* when it calls, and a readiness check says which stage failed.
RefusedForItsOwnReasons == AcceptsTheApplication /\ BoundaryRejectsOptionsOnly /\ ReportsWhatItSaw

\* In a Python process no factory decides the selection unless it was asked to.
PythonLeavesTheChoice ==
  cell # NoSelection =>
    \E c \in Callers :
      /\ Present(c) /\ tries[c] > 0 /\ cell = Asked(c)
      /\ c \in PythonCallers => request[c] # NoSelection
==============================================================================
