-------------------------- MODULE Boundaries_proofs --------------------------
(***************************************************************************)
(* What a boundary is built from, and what crosses it.                     *)
(*                                                                         *)
(* Activation: nobody is given a scanner under a selection that does not   *)
(* reflect the one they asked for, for every number and mix of callers,    *)
(* every set of selectors and every order of initialization.               *)
(*                                                                         *)
(* ScanOptions: a host is built with all it was given, every part of it    *)
(* honoured by the core, or refused for a reason; and whatever a caller    *)
(* does to the options a host was built from, the host keeps sending the   *)
(* core what it was built from: for every set of options, every released   *)
(* core and any number of changes.                                         *)
(*                                                                         *)
(* McpBoundary: on every crossing, whatever is refused or cancelled and    *)
(* wherever, no handler runs past a refusal, the audit trail tells what    *)
(* happened, and what is delivered has passed the backstop, for results of *)
(* any number of blocks.                                                   *)
(***************************************************************************)
EXTENDS Activation, ScanOptions, McpBoundary, FiniteSetTheorems, SequenceTheorems, TLAPS

-----------------------------------------------------------------------------
(* The core's selection.                                                   *)

\* ActivationTypeOK holds initially.
LEMMA ActivationInitType == ActivationInit => ActivationTypeOK
  BY DEF ActivationInit, ActivationTypeOK, Phases, Reasons

\* Moving a caller on, or refusing it, keeps the phases and reasons in step.
LEMMA MovesType ==
  ASSUME ActivationTypeOK, NEW c \in Callers
  PROVE  /\ \A place \in {"initializing", "activated", "resolved"} :
              GoTo(c, place) /\ reason[c] = "none" =>
                /\ phase' \in [Callers -> Phases] /\ reason' \in [Callers -> Reasons \cup {"none"}]
                /\ \A d \in Callers :
                     /\ phase'[d] \in {"rejected", "failsClosed"} <=> reason'[d] # "none"
                     /\ phase'[d] = "failsClosed" => d \in Boundaries
         /\ \A why \in Reasons :
              Refuse(c, why) =>
                /\ phase' \in [Callers -> Phases] /\ reason' \in [Callers -> Reasons \cup {"none"}]
                /\ \A d \in Callers :
                     /\ phase'[d] \in {"rejected", "failsClosed"} <=> reason'[d] # "none"
                     /\ phase'[d] = "failsClosed" => d \in Boundaries
<1>1. ASSUME NEW place \in {"initializing", "activated", "resolved"}, GoTo(c, place), reason[c] = "none"
      PROVE  /\ phase' \in [Callers -> Phases] /\ reason' \in [Callers -> Reasons \cup {"none"}]
             /\ \A d \in Callers :
                  /\ phase'[d] \in {"rejected", "failsClosed"} <=> reason'[d] # "none"
                  /\ phase'[d] = "failsClosed" => d \in Boundaries
  BY <1>1 DEF GoTo, ActivationTypeOK, Phases
<1>2. ASSUME NEW why \in Reasons, Refuse(c, why)
      PROVE  /\ phase' \in [Callers -> Phases] /\ reason' \in [Callers -> Reasons \cup {"none"}]
             /\ \A d \in Callers :
                  /\ phase'[d] \in {"rejected", "failsClosed"} <=> reason'[d] # "none"
                  /\ phase'[d] = "failsClosed" => d \in Boundaries
  BY <1>2 DEF Refuse, RefusedPhase, ActivationTypeOK, Phases, Reasons
<1> QED
  BY <1>1, <1>2

\* Every step keeps ActivationTypeOK.
LEMMA ActivationNextType == ActivationTypeOK /\ [ActivationNext]_activationVars => ActivationTypeOK'
<1> SUFFICES ASSUME ActivationTypeOK, [ActivationNext]_activationVars PROVE ActivationTypeOK'
  OBVIOUS
<1>1. CASE UNCHANGED activationVars
  BY <1>1 DEF activationVars, ActivationTypeOK
<1>2. ASSUME NEW c \in Callers, Start(c) PROVE ActivationTypeOK'
  BY <1>2 DEF Start, ActivationTypeOK, Phases
<1>3. ASSUME NEW c \in Callers, Imported(c) PROVE ActivationTypeOK'
  <2>1. reason[c] = "none"
    BY <1>3 DEF Imported, ActivationTypeOK
  <2> QED
    BY <1>3, <2>1, MovesType DEF Imported, ActivationTypeOK, Reasons
<1>4. ASSUME NEW c \in Callers, CoreSettles(c) PROVE ActivationTypeOK'
  <2>1. Asked(c) \in Selections
    BY DEF Asked, ActivationTypeOK, Selections
  <2> QED
    BY <1>4, <2>1 DEF CoreSettles, ActivationTypeOK
<1>5. ASSUME NEW c \in Callers, AppContinues(c) PROVE ActivationTypeOK'
  <2>1. reason[c] = "none"
    BY <1>5 DEF AppContinues, ActivationTypeOK
  <2> QED
    BY <1>5, <2>1, MovesType DEF AppContinues, ActivationTypeOK, Reasons
<1>6. ASSUME NEW c \in Callers, Verify(c) PROVE ActivationTypeOK'
  <2>1. reason[c] = "none"
    BY <1>6 DEF Verify, ActivationTypeOK
  <2>2. Identities \subseteq {NoSelection} \cup Selections
    BY DEF Identities, ActiveSelection, ActivationTypeOK, Selections
  <2>3. observed' \in {NoSelection} \cup Selections
    BY <1>6, <2>2 DEF Verify, Remembered, ActivationTypeOK
  <2> QED
    BY <1>6, <2>1, <2>3, MovesType DEF Verify, ActivationTypeOK, Reasons
<1>7. ASSUME NEW c \in Callers, Finish(c) PROVE ActivationTypeOK'
  <2>1. reason[c] = "none"
    BY <1>7 DEF Finish, ActivationTypeOK
  <2>2. CASE GoTo(c, "resolved")
    BY <1>7, <2>1, <2>2, MovesType DEF Finish, ActivationTypeOK
  <2>3. CASE ~GoTo(c, "resolved")
    BY <1>7, <2>3 DEF Finish, ActivationTypeOK, Phases, Reasons
  <2> QED
    BY <2>2, <2>3
<1> QED
  BY <1>1, <1>2, <1>3, <1>4, <1>5, <1>6, <1>7 DEF ActivationNext

\* Every variable stays in its type, a refused caller knows why, and only a
\* boundary fails closed: ActivationTypeOK, for every mix of callers.
THEOREM ActivationTypeCorrect == ActivationSpec => []ActivationTypeOK
  BY ActivationInitType, ActivationNextType, PTL DEF ActivationSpec

-----------------------------------------------------------------------------
(* The selection.                                                          *)

\* A caller that waits with pii waits for a core that reports.
WaitsForAReport ==
  \A c \in Callers \ Apps :
    phase[c] = "initializing" /\ request[c] # NoSelection => reports

\* Once an initialize() has not failed, a selection is made.
SettledMeansSelected ==
  \A c \in Callers : reports /\ settled[c] \in {"done", "conflict"} => cell # NoSelection

\* What a caller has verified holds of the selection that is made.
VerifiedHolds ==
  \A c \in Callers \ Apps :
    phase[c] \in {"activated", "resolved"} /\ request[c] # NoSelection =>
      reports /\ cell # NoSelection /\ Reflects(cell, request[c])

\* The inductive invariant of RunsUnderItsSelection.
ActivationInv == WaitsForAReport /\ SettledMeansSelected /\ VerifiedHolds

\* A selection that is made stays.
LEMMA CellStays ==
  ASSUME NEW c \in Callers, CoreSettles(c), cell # NoSelection
  PROVE  cell' = cell
  BY DEF CoreSettles

\* Every step keeps ActivationInv.
LEMMA ActivationNextInv ==
  ActivationTypeOK /\ ActivationInv /\ [ActivationNext]_activationVars => ActivationInv'
<1> SUFFICES ASSUME ActivationTypeOK, ActivationInv, [ActivationNext]_activationVars PROVE ActivationInv'
  OBVIOUS
<1> USE DEF ActivationInv
<1>1. CASE UNCHANGED activationVars
  BY <1>1 DEF activationVars, WaitsForAReport, SettledMeansSelected, VerifiedHolds, Reflects
<1>2. ASSUME NEW c \in Callers, Start(c) PROVE ActivationInv'
  BY <1>2 DEF Start, ActivationTypeOK, WaitsForAReport, SettledMeansSelected, VerifiedHolds, Reflects
<1>3. ASSUME NEW c \in Callers, Imported(c) PROVE ActivationInv'
  BY <1>3 DEF Imported, Refuse, RefusedPhase, GoTo, Initializes, ActivationTypeOK,
              WaitsForAReport, SettledMeansSelected, VerifiedHolds, Reflects
<1>4. ASSUME NEW c \in Callers, CoreSettles(c) PROVE ActivationInv'
  <2>1. Asked(c) # NoSelection
    BY ActivationAssumption DEF Asked, Selections
  <2>2. WaitsForAReport'
    BY <1>4 DEF CoreSettles, WaitsForAReport
  <2>3. SettledMeansSelected'
    BY <1>4, <2>1 DEF CoreSettles, SettledMeansSelected, ActivationTypeOK
  <2>4. VerifiedHolds'
    BY <1>4, CellStays DEF CoreSettles, VerifiedHolds, Reflects
  <2> QED
    BY <2>2, <2>3, <2>4
<1>5. ASSUME NEW c \in Callers, AppContinues(c) PROVE ActivationInv'
  BY <1>5 DEF AppContinues, Refuse, RefusedPhase, GoTo, ActivationTypeOK,
              WaitsForAReport, SettledMeansSelected, VerifiedHolds, Reflects
<1>6. ASSUME NEW c \in Callers, Verify(c) PROVE ActivationInv'
  <2>1. WaitsForAReport' /\ SettledMeansSelected'
    BY <1>6 DEF Verify, Refuse, RefusedPhase, GoTo, ActivationTypeOK, WaitsForAReport, SettledMeansSelected
  <2>2. ASSUME NEW d \in Callers \ Apps, phase'[d] \in {"activated", "resolved"}, request[d] # NoSelection
        PROVE  reports /\ cell # NoSelection /\ Reflects(cell, request[d])
    <3>1. CASE d # c
      <4>1. phase'[d] = phase[d]
        BY <1>6, <3>1 DEF Verify, Refuse, GoTo, ActivationTypeOK
      <4> QED
        BY <2>2, <4>1 DEF VerifiedHolds
    <3>2. CASE d = c
      <4>1. phase'[c] = "activated"
        BY <1>6, <2>2, <3>2 DEF Verify, Refuse, RefusedPhase, GoTo, ActivationTypeOK
      <4>2. settled[c] \in {"done", "conflict"}
        BY <1>6, <4>1 DEF Verify, Tolerates, Refuse, RefusedPhase, ActivationTypeOK
      <4>3. reports
        BY <1>6, <2>2, <3>2 DEF Verify, WaitsForAReport
      <4>4. cell # NoSelection
        BY <4>2, <4>3 DEF SettledMeansSelected
      <4>5. PICK identity \in Identities : identity # NoSelection /\ Reflects(identity, request[c])
        BY <1>6, <2>2, <3>2, <4>1, <4>2 DEF Verify, Tolerates, Refuse, RefusedPhase, ActivationTypeOK
      <4>6. identity = cell
        BY <4>4, <4>5 DEF Identities, ActiveSelection
      <4> QED
        BY <3>2, <4>3, <4>4, <4>5, <4>6
    <3> QED
      BY <3>1, <3>2
  <2>3. VerifiedHolds'
    BY <1>6, <2>2 DEF Verify, VerifiedHolds, Reflects
  <2> QED
    BY <2>1, <2>3
<1>7. ASSUME NEW c \in Callers, Finish(c) PROVE ActivationInv'
  BY <1>7 DEF Finish, GoTo, ActivationTypeOK, WaitsForAReport, SettledMeansSelected, VerifiedHolds, Reflects
<1> QED
  BY <1>1, <1>2, <1>3, <1>4, <1>5, <1>6, <1>7 DEF ActivationNext

\* A caller given a scanner under pii has that selection active, for as long as
\* the process lives: RunsUnderItsSelection, for every mix of callers.
THEOREM SelectionIsHonoured == ActivationSpec => []RunsUnderItsSelection
<1>1. ActivationInit => ActivationInv
  BY DEF ActivationInit, ActivationInv, WaitsForAReport, SettledMeansSelected, VerifiedHolds
<1>2. ActivationInv => RunsUnderItsSelection
  BY DEF ActivationInv, VerifiedHolds, RunsUnderItsSelection, ActiveSelection, Reflects
<1> QED
  BY <1>1, <1>2, ActivationTypeCorrect, ActivationNextInv, PTL DEF ActivationSpec

-----------------------------------------------------------------------------
(* Who selects in a Python process.                                        *)

\* A caller has been called before it waits, belongs to the process, and waits in
\* initialize() only if that is for it to call.
WaitsToSelect ==
  \A c \in Callers :
    /\ phase[c] # "idle" => Present(c) /\ tries[c] > 0
    /\ phase[c] = "initializing" /\ c \in PythonCallers => request[c] # NoSelection

\* Every step keeps WaitsToSelect and PythonLeavesTheChoice.
LEMMA ActivationNextChoice ==
  ActivationTypeOK /\ WaitsToSelect /\ PythonLeavesTheChoice /\ [ActivationNext]_activationVars
    => WaitsToSelect' /\ PythonLeavesTheChoice'
<1> SUFFICES ASSUME ActivationTypeOK, WaitsToSelect, PythonLeavesTheChoice, [ActivationNext]_activationVars
             PROVE  WaitsToSelect' /\ PythonLeavesTheChoice'
  OBVIOUS
<1>1. CASE UNCHANGED activationVars
  BY <1>1 DEF activationVars, WaitsToSelect, PythonLeavesTheChoice, Present, Asked
<1>2. ASSUME NEW c \in Callers, Present(c), Start(c) PROVE WaitsToSelect' /\ PythonLeavesTheChoice'
  <2>1. \A d \in Callers : tries'[d] \in Nat /\ (tries[d] > 0 => tries'[d] > 0)
    BY <1>2 DEF Start, ActivationTypeOK
  <2>2. tries'[c] > 0
    BY <1>2 DEF Start, ActivationTypeOK
  <2>3. c \in PythonCallers => c \notin Apps
    BY ActivationAssumption
  <2>4. WaitsToSelect'
    BY <1>2, <2>1, <2>2, <2>3 DEF Start, WaitsToSelect, Present, ActivationTypeOK
  <2>5. PythonLeavesTheChoice'
    BY <1>2, <2>1 DEF Start, PythonLeavesTheChoice, Present, Asked
  <2> QED
    BY <2>4, <2>5
<1>3. ASSUME NEW c \in Callers, Present(c), Imported(c) PROVE WaitsToSelect' /\ PythonLeavesTheChoice'
  <2>1. WaitsToSelect'
    BY <1>3 DEF Imported, Refuse, RefusedPhase, GoTo, Initializes, WaitsToSelect, Present, ActivationTypeOK
  <2>2. PythonLeavesTheChoice'
    BY <1>3 DEF Imported, PythonLeavesTheChoice, Present, Asked
  <2> QED
    BY <2>1, <2>2
<1>4. ASSUME NEW c \in Callers, Present(c), CoreSettles(c) PROVE WaitsToSelect' /\ PythonLeavesTheChoice'
  <2>1. WaitsToSelect'
    BY <1>4 DEF CoreSettles, WaitsToSelect, Present
  <2>2. UNCHANGED <<runtime, request, tries>> /\ (cell' = cell \/ cell' = Asked(c))
    BY <1>4 DEF CoreSettles
  <2>3. Present(c) /\ tries[c] > 0 /\ (c \in PythonCallers => request[c] # NoSelection)
    BY <1>4 DEF CoreSettles, WaitsToSelect
  <2>4. PythonLeavesTheChoice'
    BY <2>2, <2>3 DEF PythonLeavesTheChoice, Present, Asked
  <2> QED
    BY <2>1, <2>4
<1>5. ASSUME NEW c \in Callers, AppContinues(c) \/ Verify(c) \/ Finish(c)
      PROVE  WaitsToSelect' /\ PythonLeavesTheChoice'
  <2>1. /\ UNCHANGED <<runtime, cell, request, tries>>
        /\ phase[c] # "idle" /\ phase'[c] # "initializing"
        /\ \A d \in Callers : d # c => phase'[d] = phase[d]
    BY <1>5 DEF AppContinues, Verify, Finish, Refuse, RefusedPhase, GoTo, ActivationTypeOK
  <2> QED
    BY <2>1 DEF WaitsToSelect, PythonLeavesTheChoice, Present, Asked
<1> QED
  BY <1>1, <1>2, <1>3, <1>4, <1>5 DEF ActivationNext

\* In a Python process no factory decides the selection unless it was asked to:
\* PythonLeavesTheChoice, for every number of threads and callers.
THEOREM PythonSelectsWhenAsked == ActivationSpec => []PythonLeavesTheChoice
<1>1. ActivationInit => WaitsToSelect /\ PythonLeavesTheChoice
  BY DEF ActivationInit, WaitsToSelect, PythonLeavesTheChoice
<1> QED
  BY <1>1, ActivationTypeCorrect, ActivationNextChoice, PTL DEF ActivationSpec

-----------------------------------------------------------------------------
(* Refusals.                                                               *)

\* What a caller was told, or is about to be, follows from what its own
\* initialize() settled with.
RefusalsFollow ==
  \A c \in Callers :
    /\ phase[c] = "importing" => settled[c] = "none"
    /\ c \in Checks =>
         /\ phase[c] \in {"activated", "resolved"} \/ reason[c] \in {"options", "not_active"}
              => settled[c] \in {"done", "conflict"}
         /\ reason[c] = "unsupported" => ~reports
         /\ reason[c] = "core" => settled[c] = "failed"
         /\ reason[c] = "options" /\ request[c] # NoSelection =>
              reports /\ cell # NoSelection /\ Reflects(cell, request[c])

\* The inductive invariant of RefusedForItsOwnReasons.
RefusalInv == RefusalsFollow /\ AcceptsTheApplication /\ BoundaryRejectsOptionsOnly

\* Every step keeps RefusalInv.
LEMMA ActivationNextRefusal ==
  ActivationTypeOK /\ ActivationInv /\ RefusalInv /\ [ActivationNext]_activationVars => RefusalInv'
<1> SUFFICES ASSUME ActivationTypeOK, ActivationInv, RefusalInv, [ActivationNext]_activationVars
             PROVE  RefusalInv'
  OBVIOUS
<1> USE DEF RefusalInv
<1>0. Boundaries \subseteq Callers /\ Checks \subseteq Callers
  BY DEF Callers
<1>1. CASE UNCHANGED activationVars
  BY <1>1 DEF activationVars, RefusalsFollow, AcceptsTheApplication, BoundaryRejectsOptionsOnly, Reflects
<1>2. ASSUME NEW c \in Callers, Start(c) PROVE RefusalInv'
  <2>1. c \in Checks => c \notin Apps
    BY ActivationAssumption
  <2> QED
    BY <1>2, <2>1 DEF Start, ActivationTypeOK, RefusalsFollow, AcceptsTheApplication,
                      BoundaryRejectsOptionsOnly, Reflects
<1>3. ASSUME NEW c \in Callers, Imported(c) PROVE RefusalInv'
  <2>1. reason[c] = "none" /\ settled[c] = "none"
    BY <1>3 DEF Imported, ActivationTypeOK, RefusalsFollow
  <2>2. c \in Checks => Initializes(c)
    BY ActivationAssumption DEF Initializes
  <2>3. RefusalsFollow'
    BY <1>3, <2>1, <2>2 DEF Imported, Refuse, RefusedPhase, GoTo, ActivationTypeOK, RefusalsFollow, Reflects
  <2>4. AcceptsTheApplication' /\ BoundaryRejectsOptionsOnly'
    BY <1>0, <1>3, <2>1 DEF Imported, Refuse, RefusedPhase, GoTo, ActivationTypeOK,
                      AcceptsTheApplication, BoundaryRejectsOptionsOnly
  <2> QED
    BY <2>3, <2>4
<1>4. ASSUME NEW c \in Callers, CoreSettles(c) PROVE RefusalInv'
  <2>1. reason[c] = "none"
    BY <1>4 DEF CoreSettles, ActivationTypeOK
  <2>2. UNCHANGED <<reports, request, phase, reason>> /\ \A d \in Callers : d # c => settled'[d] = settled[d]
    BY <1>4 DEF CoreSettles, ActivationTypeOK
  <2>3. RefusalsFollow'
    BY <1>4, <2>1, <2>2, CellStays DEF CoreSettles, RefusalsFollow, Reflects
  <2>4. AcceptsTheApplication' /\ BoundaryRejectsOptionsOnly'
    BY <2>1, <2>2 DEF AcceptsTheApplication, BoundaryRejectsOptionsOnly
  <2> QED
    BY <2>3, <2>4
<1>5. ASSUME NEW c \in Callers, AppContinues(c) PROVE RefusalInv'
  <2>1. c \notin Checks
    BY <1>5, ActivationAssumption DEF AppContinues
  <2> QED
    BY <1>0, <1>5, <2>1 DEF AppContinues, Refuse, RefusedPhase, GoTo, ActivationTypeOK, RefusalsFollow,
                      AcceptsTheApplication, BoundaryRejectsOptionsOnly, Reflects
<1>6. ASSUME NEW c \in Callers, Verify(c) PROVE RefusalInv'
  <2>1. reason[c] = "none" /\ settled[c] \in {"done", "conflict", "failed"}
    BY <1>6 DEF Verify, ActivationTypeOK
  <2>2. RefusalsFollow'
    BY <1>6, <2>1 DEF Verify, Tolerates, Refuse, RefusedPhase, GoTo, ActivationTypeOK, RefusalsFollow, Reflects, Reasons
  <2>3. AcceptsTheApplication'
    BY <1>6, <2>1 DEF Verify, Tolerates, Refuse, GoTo, ActivationTypeOK, AcceptsTheApplication
  <2>4. BoundaryRejectsOptionsOnly'
    BY <1>0, <1>6 DEF Verify, Refuse, RefusedPhase, GoTo, ActivationTypeOK, BoundaryRejectsOptionsOnly
  <2> QED
    BY <2>2, <2>3, <2>4
<1>7. ASSUME NEW c \in Callers, Finish(c) PROVE RefusalInv'
  <2>1. reason[c] = "none"
    BY <1>7 DEF Finish, ActivationTypeOK
  <2>2. c \in Checks => c \notin Apps
    BY ActivationAssumption
  <2>3. RefusalsFollow'
    BY <1>7, <2>1, <2>2 DEF Finish, GoTo, ActivationTypeOK, RefusalsFollow, Reflects, ActivationInv, VerifiedHolds
  <2>4. AcceptsTheApplication' /\ BoundaryRejectsOptionsOnly'
    BY <1>0, <1>7, <2>1 DEF Finish, GoTo, ActivationTypeOK, AcceptsTheApplication, BoundaryRejectsOptionsOnly
  <2> QED
    BY <2>3, <2>4
<1> QED
  BY <1>1, <1>2, <1>3, <1>4, <1>5, <1>6, <1>7 DEF ActivationNext

\* What a readiness check reports is what became of it, where its refusals follow
\* from what it saw.
LEMMA ChecksReport ==
  ASSUME ActivationTypeOK, ActivationInv, RefusalsFollow
  PROVE  ReportsWhatItSaw
<1> SUFFICES ASSUME NEW c \in Checks, phase[c] \in {"resolved", "rejected"}
             PROVE  LET stages == Readiness(c)
                    IN  /\ stages.core = "failed" => settled[c] = "failed"
                        /\ stages.core = "ok" /\ reports => cell # NoSelection
                        /\ stages.pii = "ok" => reports /\ Reflects(ActiveSelection, request[c])
                        /\ stages.probe # "skipped" => stages.core = "ok" /\ stages.pii # "failed"
  BY DEF ReportsWhatItSaw
<1>1. c \in Callers /\ c \notin Apps /\ reason[c] \in Reasons \cup {"none"}
  BY ActivationAssumption DEF Callers, ActivationTypeOK
<1>2. settled[c] \in {"done", "conflict"} /\ reports => cell # NoSelection
  BY <1>1 DEF ActivationInv, SettledMeansSelected
<1>3. phase[c] = "resolved" \/ reason[c] \in {"options", "not_active"} => settled[c] \in {"done", "conflict"}
  BY <1>1 DEF RefusalsFollow
<1>4. (phase[c] = "resolved" \/ reason[c] = "options") /\ request[c] # NoSelection
        => reports /\ Reflects(ActiveSelection, request[c])
  BY <1>1 DEF RefusalsFollow, ActivationInv, VerifiedHolds, ActiveSelection
<1>5. (reason[c] = "unsupported" => ~reports) /\ (reason[c] = "core" => settled[c] = "failed")
  BY <1>1 DEF RefusalsFollow
<1>6. phase[c] = "resolved" => reason[c] = "none"
  BY <1>1 DEF ActivationTypeOK
<1> QED
  BY <1>1, <1>2, <1>3, <1>4, <1>5, <1>6 DEF Readiness, Stages, Reasons

\* A caller is refused for its own reasons only and a readiness check reports what
\* it saw: RefusedForItsOwnReasons, for every mix of callers.
THEOREM RefusalsAreTheirOwn == ActivationSpec => []RefusedForItsOwnReasons
<1>1. ActivationInit => ActivationInv /\ RefusalInv
  BY DEF ActivationInit, ActivationInv, WaitsForAReport, SettledMeansSelected, VerifiedHolds, RefusalInv,
         RefusalsFollow, AcceptsTheApplication, BoundaryRejectsOptionsOnly, Callers
<1>2. ActivationTypeOK /\ ActivationInv /\ RefusalInv => RefusedForItsOwnReasons
  BY ChecksReport DEF RefusalInv, RefusedForItsOwnReasons
<1> QED
  BY <1>1, <1>2, ActivationTypeCorrect, ActivationNextInv, ActivationNextRefusal, PTL DEF ActivationSpec

-----------------------------------------------------------------------------
(* Configurations.                                                         *)

\* A configuration that refers to nothing the caller can change but callbacks.
Detached(c) == \A o \in DOMAIN c \ Callbacks : c[o] # ByReference

\* The forms and contents of the caller's values: only a callback is a callback.
CallerTypeOK ==
  /\ given \subseteq Options
  /\ \A o \in Options :
       /\ form[o] = "callback" => o \in Callbacks
       /\ content[o] \in Contents
  /\ content = [o \in Options |-> content[o]]

\* What resolveScanConfig returns is detached: texts are immutable, buffers are
\* copied, objects serialized or frozen.
LEMMA ResolvedIsDetached ==
  ASSUME CallerTypeOK, NEW opts \in SUBSET Options
  PROVE  Detached(Resolve(opts))
<1>1. \A o \in opts \ Callbacks : Snapshot(o) # ByReference
  BY DEF CallerTypeOK, Snapshot, Contents, ByReference
<1> QED
  BY <1>1 DEF Detached, Resolve

\* A detached configuration sends, but for callbacks, what it holds.
LEMMA DetachedSendsItself ==
  ASSUME NEW c, Detached(c)
  PROVE  /\ DOMAIN Sent(c) = DOMAIN c
         /\ \A o \in DOMAIN c \ Callbacks : Sent(c)[o] = c[o]
  BY DEF Detached, Sent

-----------------------------------------------------------------------------
(* The invariant.                                                          *)

\* Every configuration on its way to a host is detached; createAiContextBoundary
\* has resolved the options it does not keep by reference; and a live host holds
\* what its source was.
SnapshotInv ==
  /\ CallerTypeOK
  /\ Detached(injected.config)
  /\ Detached(checked)
  /\ host = "activating" /\ kind = "aiContext" =>
       /\ copied \subseteq AllOptions \cup {"scanConfig"}
       /\ copied \cap {"policy", "actionPolicy"} = DOMAIN checked
  /\ host = "live" =>
       /\ Detached(config) /\ DOMAIN source = DOMAIN config
       /\ \A o \in DOMAIN config \ Callbacks : source[o] = config[o]

\* A host built over a detached configuration keeps the invariant.
LEMMA BuildKeeps ==
  ASSUME NEW c, Detached(c), Build(c)
  PROVE  /\ host' = "live"
         /\ Detached(config)' /\ DOMAIN source' = DOMAIN config'
         /\ \A o \in DOMAIN config' \ Callbacks : source'[o] = config'[o]
<1>1. host' = "live" /\ config' = c /\ source' = Sent(c)
  BY DEF Build
<1>2. Detached(config)'
  BY <1>1 DEF Detached
<1> QED
  BY <1>1, <1>2, DetachedSendsItself

\* What a host finds in the options is some of what is given, and the injected
\* configuration or none.
LEMMA FindsSomeOf ==
  ASSUME NEW k
  PROVE  Visible(k) \subseteq given /\ VisibleConfig(k) \in {NoInjection, injected}
  BY DEF Visible, VisibleConfig

\* What scanConfigOf returns is detached: of loose options or of an injected
\* configuration.
LEMMA ConfigIsDetached ==
  ASSUME SnapshotInv, NEW opts \in SUBSET given, NEW inject \in {NoInjection, injected}
  PROVE  Detached(ConfigOf(opts, inject))
<1>1. opts \in SUBSET Options /\ CallerTypeOK /\ Detached(injected.config)
  BY DEF SnapshotInv, CallerTypeOK
<1> QED
  BY <1>1, ResolvedIsDetached DEF ConfigOf

\* The caller's variables, and what the host reads of them.
LEMMA HostStepKeeps ==
  ASSUME SnapshotInv, UNCHANGED <<given, form, content, injected>>
  PROVE  CallerTypeOK' /\ Detached(injected.config)'
  BY DEF SnapshotInv, CallerTypeOK, Detached

\* The invariant holds initially.
LEMMA InitSnapshot == Init => SnapshotInv
<1> SUFFICES ASSUME Init PROVE SnapshotInv
  OBVIOUS
<1>1. PICK r \in (given \ Callbacks) \cup {"nothing"} :
        content = [o \in Options |-> IF o = r THEN "refused" ELSE "first"]
  BY DEF Init
<1>2. \A o \in Options : content[o] \in Contents
  BY <1>1 DEF Contents
<1>3. content = [o \in Options |-> content[o]]
  BY <1>1
<1>4. \A o \in Options : form[o] = "callback" => o \in Callbacks
  BY DEF Init, FormsOf, FormAtFirst, Callbacks
<1>5. given \subseteq Options
  BY DEF Init
<1>6. injected.config = <<>> /\ checked = <<>> /\ host = "idle"
  BY DEF Init, NoInjection, Foreign
<1>7. Detached(<<>>)
  BY DEF Detached
<1> QED
  BY <1>2, <1>3, <1>4, <1>5, <1>6, <1>7 DEF SnapshotInv, CallerTypeOK

\* The caller's own steps leave every host what it is.
LEMMA CallerKeeps ==
  ASSUME SnapshotInv, Prepare \/ Reassign \/ \E o \in Options : Mutate(o) \/ Assign(o)
  PROVE  SnapshotInv'
<1>1. UNCHANGED <<form, host, kind, checked, config, copied, source>>
  BY DEF Prepare, Reassign, Mutate, Assign, Changes, hostVars
<1>2. CallerTypeOK'
  <2>1. CASE Prepare \/ Reassign
    BY <1>1, <2>1 DEF Prepare, Reassign, SnapshotInv, CallerTypeOK
  <2>2. ASSUME NEW o \in Options, Mutate(o) PROVE CallerTypeOK'
    <3>1. PICK c \in {"second", "refused"} : content' = [content EXCEPT ![o] = c]
      BY <2>2 DEF Mutate
    <3>2. content' = [x \in Options |-> IF x = o THEN c ELSE content[x]]
      BY <3>1 DEF SnapshotInv, CallerTypeOK
    <3> QED
      BY <1>1, <2>2, <3>2 DEF Mutate, SnapshotInv, CallerTypeOK, Contents
  <2>3. ASSUME NEW o \in Options, Assign(o) PROVE CallerTypeOK'
    BY <1>1, <2>3 DEF Assign, SnapshotInv, CallerTypeOK
  <2> QED
    BY <2>1, <2>2, <2>3
<1>3. Detached(injected.config)'
  <2>1. CASE UNCHANGED injected
    BY <2>1 DEF SnapshotInv, Detached
  <2>2. CASE injected' = InjectionOf(Resolve(given))
    <3>1. Detached(Resolve(given))
      BY ResolvedIsDetached DEF SnapshotInv, CallerTypeOK
    <3>2. injected'.config = Resolve(given)
      BY <2>2 DEF InjectionOf
    <3> QED
      BY <3>1, <3>2 DEF Detached
  <2>3. CASE injected' = NoInjection
    <3>1. injected'.config = <<>>
      BY <2>3 DEF NoInjection
    <3> QED
      BY <3>1 DEF Detached
  <2> QED
    BY <2>1, <2>2, <2>3 DEF Prepare, Reassign, Mutate, Assign
<1> QED
  BY <1>1, <1>2, <1>3 DEF SnapshotInv, Detached

\* The steps that begin a construction.
LEMMA BeginKeeps ==
  ASSUME SnapshotInv, (\E k \in LiveKinds : BeginLive(k)) \/ BeginAiContext \/ CoreFails
  PROVE  SnapshotInv'
<1>1. UNCHANGED <<given, form, content, injected>>
  BY DEF BeginLive, BeginAiContext, CoreFails, caller
<1>2. CallerTypeOK' /\ Detached(injected.config)'
  BY <1>1, HostStepKeeps
<1>3. host' # "live"
  BY DEF BeginLive, BeginAiContext, CoreFails, RefuseHost
<1>4. ASSUME NEW k \in LiveKinds, BeginLive(k)
      PROVE  Detached(checked)' /\ kind' # "aiContext"
  <2>1. checked' \in {checked, ConfigOf(given, injected)}
    BY <1>4 DEF BeginLive, RefuseHost
  <2>2. kind' # "aiContext"
    BY <1>4 DEF BeginLive, LiveKinds
  <2>3. Detached(ConfigOf(given, injected))
    BY ConfigIsDetached
  <2> QED
    BY <2>1, <2>2, <2>3 DEF SnapshotInv, Detached
<1>5. ASSUME BeginAiContext
      PROVE  /\ Detached(checked)'
             /\ host' = "activating" =>
                  /\ copied' \subseteq AllOptions \cup {"scanConfig"}
                  /\ copied' \cap {"policy", "actionPolicy"} = DOMAIN checked'
  <2>1. CASE host' = "refused"
    BY <1>5, <2>1 DEF BeginAiContext, SnapshotInv, Detached
  <2>2. CASE host' # "refused"
    <3> DEFINE read == given \cap {"policy", "actionPolicy"}
    <3> DEFINE prepared == IF injected = NoInjection THEN {} ELSE {"scanConfig"}
    <3>1. checked' = Resolve(read) /\ copied' = (given \cap AllOptions) \cup prepared
      BY <1>5, <2>2 DEF BeginAiContext, RefuseHost, WithDefaultLimits
    <3>2. Detached(Resolve(read))
      BY ResolvedIsDetached DEF SnapshotInv, CallerTypeOK
    <3>3. DOMAIN checked' = read
      BY <3>1 DEF Resolve
    <3>4. copied' \cap {"policy", "actionPolicy"} = read
      BY <3>1 DEF AllOptions
    <3> QED
      BY <3>1, <3>2, <3>3, <3>4 DEF Detached
  <2> QED
    BY <2>1, <2>2
<1>6. ASSUME CoreFails PROVE UNCHANGED checked /\ host' # "activating"
  BY <1>6 DEF CoreFails, RefuseHost
<1> QED
  BY <1>2, <1>3, <1>4, <1>5, <1>6 DEF SnapshotInv, Detached

\* The steps that build a host or refuse to.
LEMMA FinishKeeps ==
  ASSUME SnapshotInv, (\E k \in InjectedKinds : ConstructInjected(k)) \/ FinishLive \/ FinishAiContext \/ ConstructPython
  PROVE  SnapshotInv'
<1>1. UNCHANGED <<given, form, content, injected, checked>>
  BY DEF ConstructInjected, FinishLive, FinishAiContext, ConstructPython, caller
<1>2. CallerTypeOK' /\ Detached(injected.config)'
  BY <1>1, HostStepKeeps
<1>3. Detached(checked)'
  BY <1>1 DEF SnapshotInv, Detached
<1>4. Detached(checked) /\ Detached(Resolve(given))
  BY ResolvedIsDetached DEF SnapshotInv, CallerTypeOK
<1>a. \A k : Detached(ConfigOf(Visible(k), VisibleConfig(k)))
  BY FindsSomeOf, ConfigIsDetached
<1>5. CASE host' = "refused"
  BY <1>2, <1>3, <1>5 DEF SnapshotInv
<1>6. CASE host' # "refused"
  <2>1. \E c : Detached(c) /\ Build(c)
    <3>1. ASSUME NEW k \in InjectedKinds, ConstructInjected(k) PROVE \E c : Detached(c) /\ Build(c)
      <4>1. Build(ConfigOf(Visible(k), VisibleConfig(k)))
        BY <1>6, <3>1 DEF ConstructInjected, RefuseHost
      <4> QED
        BY <1>a, <4>1
    <3>2. CASE FinishLive
      <4>1. Build(BuiltFrom(kind))
        BY <1>6, <3>2 DEF FinishLive, RefuseHost
      <4> QED
        BY <1>4, <1>a, <4>1 DEF BuiltFrom
    <3>3. CASE FinishAiContext
      <4> DEFINE kept == [o \in copied |-> IF o \in DOMAIN checked THEN checked[o] ELSE ByReference]
      <4>1. Build(kept) /\ ~NotForAiContext
        BY <1>6, <3>3 DEF FinishAiContext, RefuseHost
      <4>2. /\ copied \subseteq AllOptions \cup {"scanConfig"}
            /\ copied \cap {"policy", "actionPolicy"} = DOMAIN checked
        BY <3>3 DEF FinishAiContext, SnapshotInv
      <4>3. \A o \in copied \ Callbacks : o \in DOMAIN checked
        BY <4>1, <4>2 DEF NotForAiContext, AllOptions, Callbacks
      <4>4. Detached(kept)
        BY <1>4, <4>3 DEF Detached
      <4> QED
        BY <4>1, <4>4
    <3>4. CASE ConstructPython
      BY <1>4, <1>6, <3>4 DEF ConstructPython, RefuseHost
    <3> QED
      BY <3>1, <3>2, <3>3, <3>4
  <2>2. PICK c : Detached(c) /\ Build(c)
    BY <2>1
  <2>3. /\ host' = "live" /\ Detached(config)' /\ DOMAIN source' = DOMAIN config'
        /\ \A o \in DOMAIN config' \ Callbacks : source'[o] = config'[o]
    BY <2>2, BuildKeeps
  <2> QED
    BY <1>2, <1>3, <2>3 DEF SnapshotInv
<1> QED
  BY <1>5, <1>6

\* Every step keeps the invariant.
LEMMA NextSnapshot == SnapshotInv /\ [Next]_optionVars => SnapshotInv'
<1> SUFFICES ASSUME SnapshotInv, [Next]_optionVars PROVE SnapshotInv'
  OBVIOUS
<1>1. CASE UNCHANGED optionVars
  BY <1>1 DEF optionVars, caller, hostVars, SnapshotInv, CallerTypeOK, Detached
<1>2. CASE Next
  BY <1>2, CallerKeeps, BeginKeeps, FinishKeeps DEF Next
<1> QED
  BY <1>1, <1>2

-----------------------------------------------------------------------------
(* What a scan sends.                                                      *)

\* The invariant implies SentIsTheSnapshot.
LEMMA SnapshotIsSent == SnapshotInv => SentIsTheSnapshot
<1> SUFFICES ASSUME SnapshotInv, host = "live", ~Replaced PROVE Data(Sends) = Data(source)
  BY DEF SentIsTheSnapshot
<1>1. Sends = Sent(config)
  BY DEF Sends, Replaced
<1>2. Detached(config) /\ DOMAIN source = DOMAIN config
  BY DEF SnapshotInv
<1>3. \A o \in DOMAIN config \ Callbacks : source[o] = config[o]
  BY DEF SnapshotInv
<1>4. DOMAIN Sent(config) = DOMAIN source
  BY <1>2, DetachedSendsItself
<1>5. \A o \in DOMAIN source \ Callbacks : Sent(config)[o] = source[o]
  BY <1>2, <1>3, DetachedSendsItself
<1> QED
  BY <1>1, <1>4, <1>5 DEF Data

\* What the caller changes after a host is built changes no document, limit or
\* ruleset a scan of that host sends, but for the scanConfig of a host that keeps
\* the caller's own options: SentIsTheSnapshot, for every set of options, own or
\* inherited, and any number of changes.
THEOREM HostsSendTheirSnapshot == ScanOptionsSpec => []SentIsTheSnapshot
  BY InitSnapshot, NextSnapshot, SnapshotIsSent, PTL DEF ScanOptionsSpec
-----------------------------------------------------------------------------
(* What the parser of versions says is what the order of releases says.    *)

\* Two prereleases of two numbers compare by the first they differ in.
LEMMA PrecedesPairs ==
  ASSUME NEW x, NEW y, x # <<>>, y # <<>>, Len(x) = 2, Len(y) = 2
  PROVE  Precedes(x, y) <=> x[1] < y[1] \/ (x[1] = y[1] /\ x[2] < y[2])
<1>1. Precedes(x, y) <=> \E i \in 1 .. 2 : /\ \A j \in 1 .. (i - 1) : j <= 2 /\ x[j] = y[j]
                                           /\ i > 2 \/ x[i] < y[i]
  BY DEF Precedes
<1>2. \A i : i \in 1 .. 2 <=> i = 1 \/ i = 2
  OBVIOUS
<1>3. \A j : ~(j \in 1 .. (1 - 1)) /\ (j \in 1 .. (2 - 1) <=> j = 1)
  OBVIOUS
<1>4. ~(1 > 2) /\ ~(2 > 2) /\ 1 <= 2
  OBVIOUS
<1> QED
  BY <1>1, <1>2, <1>3, <1>4

\* The core of an instance is one of the eleven releases.
Prerelease(i) ==
  IF i = 1 THEN <<1, 20>> ELSE IF i = 2 THEN <<2, 5>> ELSE IF i = 3 THEN <<2, 6>>
  ELSE IF i = 4 THEN <<2, 9>> ELSE IF i = 5 THEN <<2, 13>> ELSE IF i \in {6, 7} THEN <<2, 14>>
  ELSE IF i = 8 THEN <<3, 1>> ELSE IF i = 10 THEN <<2>> ELSE <<>>

\* What each of them reports.
LEMMA ReleaseFields ==
  /\ DOMAIN Released = 1 .. 11
  /\ \A i \in 1 .. 11 :
       /\ Released[i].style = IF i = 7 THEN "pep440" ELSE IF i = 11 THEN "none" ELSE "semver"
       /\ Released[i].patch = IF i = 10 THEN 1 ELSE 0
       /\ Released[i].pre = Prerelease(i)
BY DEF Released, Version, Prerelease

\* Each release has one position.
LEMMA Positions ==
  ASSUME NEW i \in 1 .. 11
  PROVE  Position(Released[i]) = i
<1>1. ASSUME NEW j \in 1 .. 11, Released[j] = Released[i] PROVE j = i
  <2> DEFINE v == Released[i]
  <2>1. /\ v.style = (IF i = 7 THEN "pep440" ELSE IF i = 11 THEN "none" ELSE "semver")
        /\ v.style = (IF j = 7 THEN "pep440" ELSE IF j = 11 THEN "none" ELSE "semver")
        /\ v.patch = (IF i = 10 THEN 1 ELSE 0) /\ v.patch = (IF j = 10 THEN 1 ELSE 0)
    BY <1>1, ReleaseFields
  <2>2. i \in {7, 10, 11} \/ j \in {7, 10, 11} => i = j
    BY <2>1
  <2>3. CASE i \in 1 .. 11 \ {7, 10, 11} /\ j \in 1 .. 11 \ {7, 10, 11}
    <3>1. v.pre = Prerelease(i) /\ v.pre = Prerelease(j)
      BY <1>1, ReleaseFields
    <3>2. Prerelease(i) = Prerelease(j) => i = j
      BY <2>3 DEF Prerelease
    <3> QED
      BY <3>1, <3>2
  <2> QED
    BY <2>2, <2>3
<1>2. Position(Released[i]) \in DOMAIN Released /\ Released[Position(Released[i])] = Released[i]
  <2>1. \E j \in DOMAIN Released : Released[j] = Released[i]
    BY ReleaseFields
  <2> QED
    BY <2>1 DEF Position
<1> QED
  BY <1>1, <1>2, ReleaseFields

\* A core has an option exactly when the adapters' check of its version says so,
\* if they can read the version at all.
LEMMA HasIsAtLeast ==
  ASSUME core \in {Released[i] : i \in 1 .. 11}, NEW o \in AllOptions
  PROVE  AtLeast(core, Floor(o)) <=> Parses(core) /\ Has(o)
<1>1. PICK i \in 1 .. 11 : core = Released[i]
  OBVIOUS
<1>2. Position(core) = i
  BY <1>1, Positions
<1>3. Has(o) <=> i >= (IF o = "actionPolicy" THEN 6 ELSE 3) /\ i # 11
  BY <1>1, <1>2, ReleaseFields DEF Has
<1> DEFINE least == IF o = "actionPolicy" THEN <<2, 14>> ELSE <<2, 6>>
<1>4. Floor(o).patch = 0 /\ Floor(o).pre = least
  BY DEF Floor, Version
<1>5. /\ least # <<>> /\ Len(least) = 2 /\ least[1] = 2
      /\ least[2] = IF o = "actionPolicy" THEN 14 ELSE 6
  OBVIOUS
<1> HIDE DEF least
<1>6. AtLeast(core, Floor(o)) <=>
        Parses(core) /\ (core.patch > 0 \/ (core.patch = 0 /\ ~Precedes(core.pre, least)))
  BY <1>4 DEF AtLeast
<1>7. Parses(core) => i # 11
  BY <1>1, ReleaseFields DEF Parses
<1>8. CASE i = 10
  BY <1>1, <1>3, <1>6, <1>8, ReleaseFields
<1>9. CASE i = 9
  <2>1. core.patch = 0 /\ core.pre = <<>>
    BY <1>1, <1>9, ReleaseFields DEF Prerelease
  <2>2. ~Precedes(core.pre, least)
    BY <1>5, <2>1 DEF Precedes
  <2> QED
    BY <1>3, <1>6, <1>9, <2>1, <2>2
<1>10. CASE i \in 1 .. 8
  <2>1. core.patch = 0
    BY <1>1, <1>10, ReleaseFields
  <2>2. /\ core.pre # <<>> /\ Len(core.pre) = 2
        /\ core.pre[1] = (IF i = 1 THEN 1 ELSE IF i = 8 THEN 3 ELSE 2)
        /\ core.pre[2] = (IF i = 1 THEN 20 ELSE IF i = 2 THEN 5 ELSE IF i = 3 THEN 6
                          ELSE IF i = 4 THEN 9 ELSE IF i = 5 THEN 13 ELSE IF i = 8 THEN 1 ELSE 14)
    <3>1. core.pre = Prerelease(i)
      BY <1>1, ReleaseFields
    <3> QED
      BY <1>10, <3>1 DEF Prerelease
  <2>3. Precedes(core.pre, least) <=>
          core.pre[1] < 2 \/ (core.pre[1] = 2 /\ core.pre[2] < least[2])
    BY <1>5, <2>2, PrecedesPairs
  <2>4. Precedes(core.pre, least) <=> i < (IF o = "actionPolicy" THEN 6 ELSE 3)
    BY <1>5, <1>10, <2>2, <2>3
  <2> QED
    BY <1>3, <1>6, <1>10, <2>1, <2>4
<1> QED
  BY <1>3, <1>6, <1>7, <1>8, <1>9, <1>10
-----------------------------------------------------------------------------
(* Options are honoured, or refused for a reason.                          *)

\* A configuration of options of this instance, whose callbacks are in order.
OfOptions(c) ==
  /\ DOMAIN c \subseteq Options
  /\ \A o \in DOMAIN c \cap Callbacks : c[o] # "refused"

\* What a host may not look at: createAiContextBoundary leaves every callback to
\* the core, the others the policy.
Unchecked == IF kind = "aiContext" THEN Callbacks ELSE {"policy"}

\* The caller gave no reason to be refused.
NoReason ==
  /\ ~waited /\ refusal # "core" /\ kind # "aiContext"
  /\ Parses(core)
  /\ injected # Foreign
  /\ IF injected = NoInjection THEN ~Malformed(given) ELSE given = {}
  /\ \A o \in Requested(ConfigOf(given, injected)) :
       Has(o) /\ Sent(ConfigOf(given, injected))[o] # "refused"

\* What was checked before the core was awaited is still what is given.
StillGiven ==
  host = "activating" =>
    /\ kind # "aiContext" /\ ~waited =>
         checked = ConfigOf(given, injected) /\ ~Throws(given, injected, FALSE)
    /\ kind = "aiContext" /\ changes = 0 =>
         copied = given \cup IF injected = NoInjection THEN {} ELSE {"scanConfig"}

\* A configuration is all a host of kind k finds in the options, and they hold no
\* conflict there.
AllFound(k, c) ==
  /\ Visible(k) = {} \/ VisibleConfig(k) = NoInjection
  /\ DOMAIN c = Visible(k) \cup DOMAIN VisibleConfig(k).config

\* It need not have been checked against the core, or against what is given now.
NotChecked(k) == k \in InjectedKinds \/ (k \in {"hooks", "singleHook"} /\ waited)

\* A live host has all it found and nothing else, and what it checked its core
\* has and accepts.
Honoured ==
  host = "live" =>
    /\ changes = 0 => AllFound(kind, config)
    /\ ~NotChecked(kind) =>
         \A o \in DOMAIN config \ Unchecked : o \in Options /\ Has(o) /\ config[o] # "refused"

HonestInv ==
  /\ core \in {Released[i] : i \in 1 .. 11}
  /\ changes \in Nat /\ waited \in BOOLEAN /\ (changes = 0 => ~waited)
  /\ \A o \in Options \cap Callbacks : content[o] # "refused"
  /\ OfOptions(checked) /\ OfOptions(injected.config)
  /\ StillGiven
  /\ host = "refused" => ~NoReason
  /\ Honoured

\* What resolveScanConfig returns is a configuration of the options given.
LEMMA ResolvedIsOfOptions ==
  ASSUME NEW opts \in SUBSET Options, \A o \in Options \cap Callbacks : content[o] # "refused"
  PROVE  OfOptions(Resolve(opts)) /\ DOMAIN Resolve(opts) = opts
BY DEF OfOptions, Resolve, Snapshot, ByReference

\* A configuration that passes the check holds no option but what the core has
\* and accepts.
LEMMA VerifiedIsHonoured ==
  ASSUME core \in {Released[i] : i \in 1 .. 11}, NEW c, Detached(c), OfOptions(c), Verdict(c) = "none"
  PROVE  \A o \in DOMAIN c \ {"policy"} : o \in Options /\ Has(o) /\ c[o] # "refused"
<1> SUFFICES ASSUME NEW o \in DOMAIN c \ {"policy"} PROVE o \in Options /\ Has(o) /\ c[o] # "refused"
  OBVIOUS
<1>0. o \in Options
  BY DEF OfOptions
<1>1. o \in Requested(c) /\ o \in AllOptions
  BY ScanOptionsAssumption DEF Requested, OfOptions
<1>2. Unsupported(c) = {} /\ ~ProbeFails(c)
  BY DEF Verdict
<1>3. Has(o)
  BY <1>1, <1>2, HasIsAtLeast DEF Unsupported
<1>4. CASE o \in Callbacks
  BY <1>0, <1>3, <1>4 DEF OfOptions
<1>5. CASE o \notin Callbacks
  <2>1. Sent(c)[o] # "refused"
    BY <1>1, <1>2, <1>5 DEF ProbeFails
  <2> QED
    BY <1>0, <1>3, <1>5, <2>1, DetachedSendsItself
<1> QED
  BY <1>4, <1>5

\* One that does not pass has an option the core has not, or refuses.
LEMMA UnverifiedHasReason ==
  ASSUME core \in {Released[i] : i \in 1 .. 11}, NEW c, DOMAIN c \subseteq Options,
         Verdict(c) # "none", Parses(core)
  PROVE  \E o \in Requested(c) : ~(Has(o) /\ Sent(c)[o] # "refused")
<1>1. CASE Unsupported(c) # {}
  <2>1. PICK o \in Requested(c) : ~AtLeast(core, Floor(o))
    BY <1>1 DEF Unsupported
  <2>2. o \in AllOptions
    BY ScanOptionsAssumption DEF Requested
  <2> QED
    BY <2>1, <2>2, HasIsAtLeast
<1>2. CASE ProbeFails(c)
  <2>1. PICK o \in DOMAIN c \ Callbacks : Sent(c)[o] = "refused"
    BY <1>2 DEF ProbeFails
  <2> QED
    BY <2>1 DEF Requested, Callbacks
<1> QED
  BY <1>1, <1>2 DEF Verdict
\* The invariant holds initially.
LEMMA InitHonest == Init => HonestInv
<1> SUFFICES ASSUME Init PROVE HonestInv
  OBVIOUS
<1>1. core \in {Released[i] : i \in 1 .. 11}
  BY CoresAssumption, ReleaseFields DEF Init
<1>2. PICK r \in (given \ Callbacks) \cup {"nothing"} :
        content = [o \in Options |-> IF o = r THEN "refused" ELSE "first"]
  BY DEF Init
<1>3. \A o \in Options \cap Callbacks : content[o] # "refused"
  BY <1>2 DEF Callbacks
<1>4. /\ host = "idle" /\ changes = 0 /\ waited = FALSE
      /\ checked = <<>> /\ injected.config = <<>>
  BY DEF Init, NoInjection, Foreign
<1>5. OfOptions(<<>>)
  BY DEF OfOptions
<1> QED
  BY <1>1, <1>3, <1>4, <1>5 DEF HonestInv, StillGiven, Honoured

\* What the caller does is no reason, and changes no host.
LEMMA CallerKeepsHonest ==
  ASSUME SnapshotInv, HonestInv, Prepare \/ Reassign \/ \E o \in Options : Mutate(o) \/ Assign(o)
  PROVE  HonestInv'
<1>1. UNCHANGED <<core, host, kind, checked, config, copied, refusal>>
  BY DEF Prepare, Reassign, Mutate, Assign, Changes, hostVars
<1>2. changes' \in Nat /\ waited' \in BOOLEAN /\ (changes' = 0 => ~waited')
  <2>1. CASE Prepare
    BY <2>1 DEF Prepare, HonestInv, hostVars
  <2>2. CASE Changes
    <3>1. changes' = changes + 1 /\ waited' = (waited \/ host = "activating")
      BY <2>2 DEF Changes
    <3>2. changes' \in Nat /\ changes' # 0
      BY <3>1 DEF HonestInv
    <3>3. waited' \in BOOLEAN
      BY <3>1 DEF HonestInv
    <3> QED
      BY <3>2, <3>3
  <2> QED
    BY <2>1, <2>2 DEF Reassign, Mutate, Assign
<1>3. \A o \in Options \cap Callbacks : content'[o] # "refused"
  <2>1. ASSUME NEW x \in Options, Mutate(x) PROVE \A o \in Options \cap Callbacks : content'[o] # "refused"
    <3>1. PICK c \in {"second", "refused"} :
            content' = [content EXCEPT ![x] = c] /\ (x \in Callbacks => c = "second")
      BY <2>1 DEF Mutate
    <3> QED
      BY <3>1 DEF HonestInv, SnapshotInv, CallerTypeOK
  <2>2. CASE UNCHANGED content
    BY <2>2 DEF HonestInv
  <2> QED
    BY <2>1, <2>2 DEF Prepare, Reassign, Assign
<1>4. OfOptions(checked)' /\ OfOptions(injected.config)'
  <2>1. OfOptions(Resolve(given))
    BY ResolvedIsOfOptions DEF HonestInv, SnapshotInv, CallerTypeOK
  <2>2. injected' = injected \/ injected'.config = Resolve(given) \/ injected'.config = <<>>
    BY DEF Prepare, Reassign, Mutate, Assign, InjectionOf, NoInjection
  <2> QED
    BY <1>1, <2>1, <2>2 DEF HonestInv, OfOptions
<1>5. CASE Prepare
  <2>1. host = "idle" /\ waited' = waited
    BY <1>5 DEF Prepare, hostVars
  <2> QED
    BY <1>1, <1>2, <1>3, <1>4, <2>1 DEF HonestInv, StillGiven, Honoured
<1>6. CASE Changes
  <2>0. changes' = changes + 1 /\ waited' = (waited \/ host = "activating") /\ host # "refused"
    BY <1>6 DEF Changes
  <2>1. host # "refused" /\ changes' # 0 /\ (host = "activating" => waited')
    <3>1. changes' # 0
      BY <2>0 DEF HonestInv
    <3> QED
      BY <2>0, <3>1
  <2>2. StillGiven'
    BY <1>1, <2>1 DEF StillGiven
  <2>3. host = "live" => waited' = waited
    BY <2>0 DEF HonestInv
  <2>4. Honoured'
    BY <1>1, <2>1, <2>3 DEF HonestInv, Honoured, NotChecked, Unchecked, Has, Position
  <2> QED
    BY <1>1, <1>2, <1>3, <1>4, <2>1, <2>2, <2>4 DEF HonestInv
<1> QED
  BY <1>5, <1>6 DEF Reassign, Mutate, Assign

\* The steps of a host leave what the caller gave alone.
HostOnly == UNCHANGED <<language, core, given, form, content, injected, inherited, changes, waited>>

\* The parts of the invariant a host's step that builds nothing need look at.
LEMMA HostOnlyKeeps ==
  ASSUME HonestInv, HostOnly, OfOptions(checked)', StillGiven', host' # "live",
         host' = "refused" => ~NoReason'
  PROVE  HonestInv'
<1>1. OfOptions(injected.config)'
  BY DEF HonestInv, HostOnly, OfOptions
<1>2. Honoured'
  BY DEF Honoured
<1> QED
  BY <1>1, <1>2 DEF HonestInv, HostOnly

\* A host is refused what throws, or fails the check, or has no core.
LEMMA RefusingIsReasonable ==
  ASSUME SnapshotInv, HonestInv, HostOnly, UNCHANGED checked, host' = "refused",
         \/ Throws(given, injected, FALSE)
         \/ ~waited => Verdict(ConfigOf(given, injected)) # "none"
         \/ refusal' = "core"
         \/ kind' = "aiContext"
  PROVE  HonestInv'
<1>1. OfOptions(checked)' /\ StillGiven'
  BY DEF HonestInv, OfOptions, StillGiven
<1>2. SUFFICES ASSUME NoReason' PROVE FALSE
  BY <1>1, HostOnlyKeeps
<1>3. /\ ~waited /\ Parses(core) /\ injected # Foreign /\ refusal' # "core" /\ kind' # "aiContext"
      /\ IF injected = NoInjection THEN ~Malformed(given) ELSE given = {}
  BY <1>2 DEF NoReason, HostOnly, Parses, Malformed
<1>4. \A o \in Requested(ConfigOf(given, injected)) :
        Has(o) /\ Sent(ConfigOf(given, injected))[o] # "refused"
  BY <1>2 DEF NoReason, HostOnly, Has, Position, Requested, ConfigOf, Sent, Resolve, Snapshot
<1>5. ~Throws(given, injected, FALSE)
  BY <1>3 DEF Throws, Conflicts
<1>6. DOMAIN ConfigOf(given, injected) \subseteq Options
  BY DEF ConfigOf, Resolve, HonestInv, OfOptions, SnapshotInv, CallerTypeOK
<1>7. Verdict(ConfigOf(given, injected)) = "none"
  BY <1>3, <1>4, <1>6, UnverifiedHasReason DEF HonestInv
<1> QED
  BY <1>3, <1>5, <1>7
\* What is built over a configuration that holds all that was given, and was
\* checked where it had to be, is honest.
LEMMA BuildingIsHonest ==
  ASSUME SnapshotInv, HonestInv, HostOnly, UNCHANGED checked, NEW c, Build(c),
         changes = 0 => AllFound(kind', c),
         ~NotChecked(kind') =>
           \A o \in DOMAIN c \ Unchecked' : o \in Options /\ Has(o) /\ c[o] # "refused"
  PROVE  HonestInv'
<1>1. host' = "live" /\ config' = c
  BY DEF Build
<1>2. OfOptions(checked)' /\ OfOptions(injected.config)'
  BY DEF HonestInv, HostOnly, OfOptions
<1>a. AllFound(kind, config)' <=> AllFound(kind', c)
  BY <1>1 DEF AllFound, Visible, VisibleConfig, HostOnly
<1>b. NotChecked(kind)' <=> NotChecked(kind')
  BY DEF NotChecked, HostOnly
<1>c. \A o : Has(o)' <=> Has(o)
  BY DEF Has, Position, HostOnly
<1>3. Honoured'
  BY <1>1, <1>a, <1>b, <1>c DEF Honoured, HostOnly
<1>4. StillGiven'
  BY <1>1 DEF StillGiven
<1> QED
  BY <1>1, <1>2, <1>3, <1>4 DEF HonestInv, HostOnly

\* What scanConfigOf returns of what a host finds, and when it does not: a host
\* throws nothing that the whole of the options would not, and what it finds in
\* options that are in order is part of what they say.
LEMMA ConfigFacts ==
  ASSUME SnapshotInv, HonestInv, NEW opts \in SUBSET given, NEW inject \in {NoInjection, injected}
  PROVE  /\ OfOptions(ConfigOf(opts, inject)) /\ Detached(ConfigOf(opts, inject))
         /\ Throws(opts, inject, FALSE) => Throws(given, injected, FALSE)
         /\ ~Throws(opts, inject, FALSE) =>
              /\ opts = {} \/ inject = NoInjection
              /\ DOMAIN ConfigOf(opts, inject) = opts \cup DOMAIN inject.config
         /\ ~Throws(given, injected, FALSE) =>
              \A o \in DOMAIN ConfigOf(opts, inject) :
                /\ o \in DOMAIN ConfigOf(given, injected)
                /\ ConfigOf(opts, inject)[o] = ConfigOf(given, injected)[o]
<1>1. opts \in SUBSET Options /\ given \in SUBSET Options
  BY DEF SnapshotInv, CallerTypeOK
<1>2. OfOptions(Resolve(opts)) /\ DOMAIN Resolve(opts) = opts /\ DOMAIN Resolve(given) = given
  BY <1>1, ResolvedIsOfOptions DEF HonestInv
<1>3. DOMAIN NoInjection.config = {}
  BY DEF NoInjection
<1>4. ~Throws(opts, inject, FALSE) /\ inject # NoInjection => opts = {}
  BY DEF Throws, Bound, Conflicts
<1>5. OfOptions(ConfigOf(opts, inject)) /\ Detached(ConfigOf(opts, inject))
  BY <1>2, ConfigIsDetached DEF ConfigOf, HonestInv
<1>6. Throws(opts, inject, FALSE) => Throws(given, injected, FALSE)
  <2>1. Malformed(opts) => Malformed(given) /\ opts # {}
    BY DEF Malformed
  <2> QED
    BY <2>1 DEF Throws, Bound, Conflicts
<1>7. ~Throws(opts, inject, FALSE) =>
        /\ opts = {} \/ inject = NoInjection
        /\ DOMAIN ConfigOf(opts, inject) = opts \cup DOMAIN inject.config
  BY <1>2, <1>3, <1>4 DEF ConfigOf
<1>8. ASSUME ~Throws(given, injected, FALSE), NEW o \in DOMAIN ConfigOf(opts, inject)
      PROVE  /\ o \in DOMAIN ConfigOf(given, injected)
             /\ ConfigOf(opts, inject)[o] = ConfigOf(given, injected)[o]
  <2>1. CASE inject = NoInjection /\ injected # NoInjection
    <3>1. given = {}
      BY <1>8, <2>1 DEF Throws, Bound, Conflicts
    <3> QED
      BY <1>2, <1>8, <2>1, <3>1 DEF ConfigOf
  <2>2. CASE inject = NoInjection /\ injected = NoInjection
    BY <1>2, <1>8, <2>2 DEF ConfigOf, Resolve
  <2>3. CASE inject # NoInjection
    BY <1>8, <2>3 DEF ConfigOf
  <2> QED
    BY <2>1, <2>2, <2>3
<1> QED
  BY <1>5, <1>6, <1>7, <1>8

\* The same of a host of kind k.
LEMMA FoundFacts ==
  ASSUME SnapshotInv, HonestInv, NEW k
  PROVE  LET found == ConfigOf(Visible(k), VisibleConfig(k))
         IN  /\ OfOptions(found) /\ Detached(found)
             /\ Throws(Visible(k), VisibleConfig(k), FALSE) => Throws(given, injected, FALSE)
             /\ ~Throws(Visible(k), VisibleConfig(k), FALSE) => AllFound(k, found)
             /\ ~Throws(given, injected, FALSE) =>
                  \A o \in DOMAIN found :
                    o \in DOMAIN ConfigOf(given, injected) /\ found[o] = ConfigOf(given, injected)[o]
  BY FindsSomeOf, ConfigFacts, Zenon DEF AllFound

\* A construction begins, or its core fails.
LEMMA BeginKeepsHonest ==
  ASSUME SnapshotInv, HonestInv,
         (\E k \in LiveKinds : BeginLive(k)) \/ BeginAiContext \/ CoreFails
  PROVE  HonestInv'
<1>0. HostOnly
  BY DEF HostOnly, BeginLive, BeginAiContext, CoreFails, caller
<1>1. ASSUME NEW k \in LiveKinds, BeginLive(k) PROVE HonestInv'
  <2>1. CASE Throws(given, injected, FALSE)
    BY <1>0, <1>1, <2>1, RefusingIsReasonable DEF BeginLive, RefuseHost
  <2>2. CASE ~Throws(given, injected, FALSE)
    <3>1. host' = "activating" /\ checked' = ConfigOf(given, injected) /\ kind' = k
      BY <1>1, <2>2 DEF BeginLive
    <3>2. ConfigOf(given, injected)' = ConfigOf(given, injected)
      BY <1>0 DEF HostOnly, ConfigOf, Resolve, Snapshot
    <3>3. Throws(given, injected, FALSE)' = Throws(given, injected, FALSE)
      BY <1>0 DEF HostOnly, Throws, Malformed, Bound, Conflicts
    <3>4. StillGiven'
      <4>1. k # "aiContext"
        BY DEF LiveKinds
      <4> QED
        BY <2>2, <3>1, <3>2, <3>3, <4>1 DEF StillGiven
    <3>5. OfOptions(checked)'
      BY <3>1, ConfigFacts DEF OfOptions
    <3> QED
      BY <1>0, <3>1, <3>4, <3>5, HostOnlyKeeps
  <2> QED
    BY <2>1, <2>2
<1>2. CASE BeginAiContext
  <2> DEFINE read == given \cap {"policy", "actionPolicy"}
  <2>1. CASE Malformed(read)
    BY <1>0, <1>2, <2>1, RefusingIsReasonable DEF BeginAiContext, RefuseHost
  <2>2. CASE ~Malformed(read)
    <3>1. host' = "activating" /\ checked' = Resolve(read) /\ kind' = "aiContext"
      BY <1>2, <2>2 DEF BeginAiContext
    <3> DEFINE prepared == IF injected = NoInjection THEN {} ELSE {"scanConfig"}
    <3>a. copied' = (given \cap AllOptions) \cup prepared
      BY <1>2, <2>2 DEF BeginAiContext, WithDefaultLimits
    <3>2. given \subseteq AllOptions /\ read \in SUBSET Options
      BY ScanOptionsAssumption DEF SnapshotInv, CallerTypeOK
    <3>3. OfOptions(Resolve(read))
      BY <3>2, ResolvedIsOfOptions DEF HonestInv
    <3>b. copied' = given \cup prepared
      BY <3>a, <3>2
    <3>4. OfOptions(checked)' /\ StillGiven'
      BY <1>0, <3>1, <3>b, <3>3 DEF OfOptions, StillGiven, HostOnly
    <3> QED
      BY <1>0, <3>1, <3>4, HostOnlyKeeps
  <2> QED
    BY <2>1, <2>2
<1>3. CASE CoreFails
  <2>1. UNCHANGED <<checked, kind>>
    BY <1>3 DEF CoreFails
  <2>2. CASE host' = "refused"
    <3>1. refusal' = "core" \/ kind' = "aiContext"
      BY <1>3, <2>1, <2>2 DEF CoreFails, RefuseHost
    <3> QED
      BY <1>0, <2>1, <2>2, <3>1, RefusingIsReasonable
  <2>3. CASE host' # "refused"
    <3>1. host' = "closed"
      BY <1>3, <2>3 DEF CoreFails, RefuseHost
    <3>2. OfOptions(checked)' /\ StillGiven'
      BY <2>1, <3>1 DEF HonestInv, OfOptions, StillGiven
    <3> QED
      BY <1>0, <3>1, <3>2, HostOnlyKeeps
  <2> QED
    BY <2>2, <2>3
<1> QED
  BY <1>1, <1>2, <1>3

\* A host is built, or refused.
LEMMA FinishKeepsHonest ==
  ASSUME SnapshotInv, HonestInv, (\E k \in InjectedKinds : ConstructInjected(k)) \/ FinishLive \/ FinishAiContext \/ ConstructPython
  PROVE  HonestInv'
<1>0. HostOnly /\ UNCHANGED checked
  BY DEF HostOnly, ConstructInjected, FinishLive, FinishAiContext, ConstructPython, caller
<1> DEFINE now == ConfigOf(given, injected)
           found(k) == ConfigOf(Visible(k), VisibleConfig(k))
<1>a. core \in {Released[i] : i \in 1 .. 11} /\ OfOptions(checked) /\ Detached(checked)
  BY DEF HonestInv, SnapshotInv
<1>b. OfOptions(now) /\ Detached(now)
  BY ConfigFacts
<1>1. ASSUME NEW k \in InjectedKinds, ConstructInjected(k) PROVE HonestInv'
  <2>1. CASE Throws(Visible(k), VisibleConfig(k), FALSE)
    <3>1. Throws(given, injected, FALSE)
      BY <2>1, FoundFacts
    <3> QED
      BY <1>0, <1>1, <2>1, <3>1, RefusingIsReasonable DEF ConstructInjected, RefuseHost
  <2>2. CASE ~Throws(Visible(k), VisibleConfig(k), FALSE)
    <3>1. Build(found(k)) /\ kind' = k
      BY <1>1, <2>2 DEF ConstructInjected
    <3>2. AllFound(k, found(k)) /\ Detached(found(k))
      BY <2>2, FoundFacts
    <3>3. NotChecked(k)
      BY DEF NotChecked
    <3> HIDE DEF found
    <3> QED
      BY <1>0, <3>1, <3>2, <3>3, BuildingIsHonest
  <2> QED
    BY <2>1, <2>2
<1>2. CASE FinishLive
  <2>0. host = "activating" /\ kind \in LiveKinds /\ kind # "aiContext" /\ kind' = kind
    BY <1>2 DEF FinishLive, LiveKinds
  <2>1. ~waited => checked = now /\ ~Throws(given, injected, FALSE)
    BY <2>0 DEF HonestInv, StillGiven
  <2>2. CASE Verdict(checked) # "none"
    <3>1. host' = "refused"
      BY <1>2, <2>2 DEF FinishLive, RefuseHost
    <3> QED
      BY <1>0, <2>1, <2>2, <3>1, RefusingIsReasonable
  <2>3. CASE Verdict(checked) = "none" /\ HostThrows(kind)
    <3>1. host' = "refused"
      BY <1>2, <2>3 DEF FinishLive, RefuseHost
    <3>2. ~Throws(Visible(kind), InjectionOf(found(kind)), TRUE)
      BY DEF InjectionOf, NoInjection, Throws, Bound
    <3>3. Throws(given, injected, FALSE)
      BY <2>3, <3>2, FoundFacts DEF HostThrows
    <3> QED
      BY <1>0, <3>1, <3>3, RefusingIsReasonable
  <2>4. CASE Verdict(checked) = "none" /\ ~HostThrows(kind)
    <3>1. Build(BuiltFrom(kind))
      BY <1>2, <2>4 DEF FinishLive
    <3>2. \A o \in DOMAIN checked \ {"policy"} : o \in Options /\ Has(o) /\ checked[o] # "refused"
      BY <1>a, <2>4, VerifiedIsHonoured
    <3>3. Unchecked' = {"policy"}
      BY <2>0 DEF Unchecked
    <3>4. changes = 0 => ~waited
      BY DEF HonestInv
    <3>5. CASE kind # "maskSecrets"
      <4>1. ~Throws(Visible(kind), VisibleConfig(kind), FALSE) /\ BuiltFrom(kind) = found(kind)
        BY <2>4, <3>5 DEF HostThrows, BuiltFrom
      <4>2. Build(found(kind))
        BY <3>1, <4>1
      <4>3. AllFound(kind, found(kind)) /\ Detached(found(kind))
        BY <4>1, FoundFacts
      <4>4. ASSUME ~NotChecked(kind), NEW o \in DOMAIN found(kind) \ {"policy"}
            PROVE  o \in Options /\ Has(o) /\ found(kind)[o] # "refused"
        <5>1. ~waited
          BY <2>0, <3>5, <4>4 DEF NotChecked, LiveKinds
        <5>2. o \in DOMAIN checked /\ found(kind)[o] = checked[o]
          BY <2>1, <4>4, <5>1, FoundFacts
        <5> QED
          BY <3>2, <4>4, <5>2
      <4> HIDE DEF now, found
      <4> QED
        BY <1>0, <2>0, <3>3, <4>2, <4>3, <4>4, BuildingIsHonest
    <3>6. CASE kind = "maskSecrets"
      <4>1. Build(checked)
        BY <3>1, <3>6 DEF BuiltFrom
      <4>2. Visible(kind) = given /\ VisibleConfig(kind) = injected
        BY <3>6 DEF Visible, VisibleConfig, Copying
      <4>3. changes = 0 => AllFound(kind, checked)
        BY <2>1, <3>4, <4>2, FoundFacts
      <4> QED
        BY <1>0, <2>0, <3>2, <3>3, <4>1, <4>3, BuildingIsHonest
    <3> QED
      BY <3>5, <3>6
  <2> QED
    BY <2>2, <2>3, <2>4
<1>3. CASE FinishAiContext
  <2>0. host = "activating" /\ kind = "aiContext" /\ kind' = kind
    BY <1>3 DEF FinishAiContext
  <2>1. CASE host' = "refused"
    BY <1>0, <2>0, <2>1, RefusingIsReasonable
  <2>2. CASE host' # "refused"
    <3> DEFINE kept == [o \in copied |-> IF o \in DOMAIN checked THEN checked[o] ELSE ByReference]
    <3>1. Build(kept) /\ ~NotForAiContext /\ Verdict(checked) = "none"
      BY <1>3, <2>2 DEF FinishAiContext, RefuseHost
    <3>2. /\ copied \subseteq AllOptions \cup {"scanConfig"}
          /\ copied \cap {"policy", "actionPolicy"} = DOMAIN checked
      BY <2>0 DEF SnapshotInv
    <3>3. \A o \in DOMAIN checked \ {"policy"} : o \in Options /\ Has(o) /\ checked[o] # "refused"
      BY <1>a, <3>1, VerifiedIsHonoured
    <3>4. {"scanConfig", "scanLimits", "ruleset"} \cap copied = {}
      BY <3>1 DEF NotForAiContext
    <3>5. changes = 0 => AllFound(kind, kept)
      <4> SUFFICES ASSUME changes = 0 PROVE AllFound(kind, kept)
        OBVIOUS
      <4>1. copied = given \cup IF injected = NoInjection THEN {} ELSE {"scanConfig"}
        BY <2>0 DEF HonestInv, StillGiven
      <4>2. injected = NoInjection /\ copied = given
        BY <3>4, <4>1
      <4>3. DOMAIN injected.config = {}
        BY <4>2 DEF NoInjection
      <4>4. Visible(kind) = given /\ VisibleConfig(kind) = injected
        BY <2>0 DEF Visible, VisibleConfig, Copying
      <4> QED
        BY <4>2, <4>3, <4>4 DEF AllFound
    <3>6. Unchecked' = Callbacks
      BY <2>0 DEF Unchecked
    <3>7. \A o \in DOMAIN kept \ Callbacks : o \in Options /\ Has(o) /\ kept[o] # "refused"
      <4> SUFFICES ASSUME NEW o \in DOMAIN kept \ Callbacks PROVE o \in Options /\ Has(o) /\ kept[o] # "refused"
        OBVIOUS
      <4>1. o \in DOMAIN checked /\ o # "policy"
        BY <3>2, <3>4 DEF AllOptions, Callbacks
      <4> QED
        BY <3>3, <4>1
    <3> HIDE DEF kept
    <3> QED
      BY <1>0, <2>0, <3>1, <3>5, <3>6, <3>7, BuildingIsHonest
  <2> QED
    BY <2>1, <2>2
<1>4. CASE ConstructPython
  <2>0. injected = NoInjection /\ now = Resolve(given) /\ kind' = "live"
    BY <1>4 DEF ConstructPython, ConfigOf
  <2>1. CASE Malformed(given)
    <3>1. host' = "refused"
      BY <1>4, <2>1 DEF ConstructPython, RefuseHost
    <3>2. Throws(given, injected, FALSE)
      BY <2>0, <2>1 DEF Throws
    <3> QED
      BY <1>0, <3>1, <3>2, RefusingIsReasonable
  <2>2. CASE LimitsRefused
    <3>1. host' = "refused"
      BY <1>4, <2>2 DEF ConstructPython, RefuseHost
    <3>2. "scanLimits" \in given /\ given \subseteq Options /\ content["scanLimits"] = "refused"
      BY <2>2 DEF LimitsRefused, SnapshotInv, CallerTypeOK
    <3>3. now["scanLimits"] = "refused" /\ "scanLimits" \in DOMAIN now
      BY <2>0, <3>2 DEF Resolve, Snapshot, SnapshotInv, CallerTypeOK, Callbacks
    <3>4. "scanLimits" \in Requested(now) /\ Sent(now)["scanLimits"] = "refused"
      BY <3>3, <1>b, DetachedSendsItself DEF Requested, Callbacks
    <3>5. Verdict(now) # "none"
      BY <3>3, <3>4 DEF Verdict, ProbeFails, Callbacks
    <3> QED
      BY <1>0, <3>1, <3>5, RefusingIsReasonable
  <2>3. CASE Verdict(now) # "none" /\ ~Malformed(given) /\ ~LimitsRefused
    <3>1. host' = "refused"
      BY <1>4, <2>0, <2>3 DEF ConstructPython, RefuseHost
    <3> QED
      BY <1>0, <2>3, <3>1, RefusingIsReasonable
  <2>4. CASE Verdict(now) = "none" /\ ~Malformed(given) /\ ~LimitsRefused
    <3>1. ~Malformed(given \cap {"policy", "actionPolicy", "scanLimits"})
      BY <2>4 DEF Malformed
    <3>2. Build(now)
      BY <1>4, <2>0, <2>4, <3>1 DEF ConstructPython
    <3>3. ~Throws(given, injected, FALSE)
      BY <2>0, <2>4 DEF Throws
    <3>4. \A o \in DOMAIN now \ {"policy"} : o \in Options /\ Has(o) /\ now[o] # "refused"
      BY <1>a, <1>b, <2>4, VerifiedIsHonoured
    <3>5. Unchecked' = {"policy"}
      BY <2>0 DEF Unchecked
    <3>6. AllFound(kind', now)
      <4>1. Visible("live") = given /\ VisibleConfig("live") = injected
        BY DEF Visible, VisibleConfig, Copying
      <4> QED
        BY <2>0, <3>3, <4>1, FoundFacts
    <3> HIDE DEF now
    <3> QED
      BY <1>0, <2>0, <3>2, <3>4, <3>5, <3>6, BuildingIsHonest
  <2> QED
    BY <2>1, <2>2, <2>3, <2>4
<1> QED
  BY <1>1, <1>2, <1>3, <1>4

\* Every step keeps HonestInv.
LEMMA NextHonest == SnapshotInv /\ HonestInv /\ [Next]_optionVars => HonestInv'
<1> SUFFICES ASSUME SnapshotInv, HonestInv, [Next]_optionVars PROVE HonestInv'
  OBVIOUS
<1>1. CASE UNCHANGED optionVars
  <2>0. caller' = caller /\ hostVars' = hostVars /\ language' = language /\ core' = core
    BY <1>1 DEF optionVars
  <2>1. HostOnly /\ hostVars' = hostVars
    BY <2>0 DEF caller, hostVars, HostOnly
  <2>2. OfOptions(checked)' /\ OfOptions(injected.config)' /\ Honoured'
    BY <2>1 DEF HonestInv, OfOptions, HostOnly, hostVars, Honoured, AllFound, Visible, VisibleConfig, NotChecked,
      Unchecked, Has, Position
  <2>3. StillGiven'
    BY <2>1 DEF HonestInv, StillGiven, HostOnly, hostVars, ConfigOf, Resolve, Snapshot, Throws,
      Malformed, Bound, Conflicts
  <2>4. NoReason' => NoReason
    <3>1. UNCHANGED <<language, core, given, form, content, injected, waited, refusal, kind>>
      BY <2>1 DEF HostOnly, hostVars
    <3>2. ConfigOf(given, injected)' = ConfigOf(given, injected)
      BY <3>1 DEF ConfigOf, Resolve, Snapshot
    <3>3. \A c : Sent(c)' = Sent(c)
      BY <3>1 DEF Sent
    <3>4. \A o : Has(o)' = Has(o)
      BY <3>1 DEF Has, Position
    <3>5. Parses(core)' = Parses(core) /\ Malformed(given)' = Malformed(given)
      BY <3>1 DEF Parses, Malformed
    <3>6. \A c : Requested(c)' = Requested(c)
      BY DEF Requested
    <3> QED
      BY <3>1, <3>2, <3>3, <3>4, <3>5, <3>6 DEF NoReason, Requested, Sent
  <2> QED
    BY <2>1, <2>2, <2>3, <2>4 DEF HonestInv, HostOnly, hostVars
<1>2. CASE Next
  BY <1>2, CallerKeepsHonest, BeginKeepsHonest, FinishKeepsHonest DEF Next
<1> QED
  BY <1>1, <1>2

\* Options are honoured or the construction is refused for a reason, and a live
\* host never scans with an option its core does not have or refuses:
\* HonouredOrRefused, for every set of options, own or inherited, every released
\* core and any number of changes.
THEOREM HostsHonourOrRefuse == ScanOptionsSpec => []HonouredOrRefused
<1>1. SnapshotInv /\ HonestInv => HonouredOrRefused
  <2> SUFFICES ASSUME SnapshotInv, HonestInv PROVE HonouredOrRefused
    OBVIOUS
  <2>1. RefusedForAReason
    BY DEF RefusedForAReason, HonestInv, NoReason
  <2>2. ASSUME host = "live", ~Replaced
        PROVE  /\ DOMAIN Sends = DOMAIN config
               /\ \A o \in DOMAIN Sends \cap Options : config[o] # "refused" => Sends[o] # "refused"
    <3>1. Sends = Sent(config)
      BY <2>2 DEF Sends, Replaced
    <3>2. Detached(config)
      BY <2>2 DEF SnapshotInv
    <3> QED
      BY <3>1, <3>2, DetachedSendsItself DEF HonestInv, Sent
  <2>3. ASSUME host = "live", ~Replaced, changes = 0, ~LosesInherited PROVE Honours(given, injected)
    <3>1. Visible(kind) = given
      BY <2>3 DEF LosesInherited, Visible
    <3>2. VisibleConfig(kind) = injected
      BY <2>3 DEF LosesInherited, VisibleConfig
    <3> QED
      BY <2>2, <2>3, <3>1, <3>2 DEF HonestInv, Honoured, AllFound, Honours
  <2>4. ASSUME host = "live", ~Replaced, changes = 0, LosesInherited
        PROVE  Honours(given \ inherited, IF "scanConfig" \in inherited THEN NoInjection ELSE injected)
    <3>1. /\ Visible(kind) = given \ inherited
          /\ VisibleConfig(kind) = IF "scanConfig" \in inherited THEN NoInjection ELSE injected
      BY <2>4 DEF LosesInherited, Visible, VisibleConfig
    <3> QED
      BY <2>2, <2>4, <3>1 DEF HonestInv, Honoured, AllFound, Honours
  <2>5. ASSUME host = "live", ~Replaced, kind \notin InjectedKinds, ~(kind \in {"hooks", "singleHook"} /\ waited)
        PROVE  \A o \in DOMAIN Sends \ Unchecked : Has(o) /\ Sends[o] # "refused"
    BY <2>2, <2>5 DEF HonestInv, Honoured, NotChecked
  <2> QED
    BY <2>1, <2>3, <2>4, <2>5 DEF HonouredOrRefused, Unchecked
<1> QED
  BY <1>1, InitSnapshot, NextSnapshot, InitHonest, NextHonest, PTL DEF ScanOptionsSpec

-----------------------------------------------------------------------------
(* Crossings: the forms of a step.                                         *)

\* The crossing is inside one of its stages.
Working == crossing.at \notin {"idle", "invoke", "answered"}

\* The trail of audits and what it speaks of.
trailVars == <<mode, aborted, audits, handed, answer>>

\* A step inside a stage.
Moves ==
  /\ Working /\ UNCHANGED trailVars
  /\ crossing' \in Crossing
  /\ crossing'.at \notin {"idle", "invoke", "answered"}
  /\ crossing'.kind = crossing.kind /\ crossing'.asks = crossing.asks /\ crossing'.stage = crossing.stage
  /\ crossing'.at = "streaming" => crossing.kind = "streamHandler"

\* A step that ends a stage; a value is only given to a request that is not
\* cancelled, or by the streamed result, which polls for itself.
Concludes ==
  /\ Working /\ UNCHANGED <<mode, aborted, handed>>
  /\ \E outcome \in Outcomes :
       /\ Conclude(outcome)
       /\ outcome = "ok" => ~aborted \/ crossing.at = "streaming"

\* Going to a place inside a stage.
LEMMA GotoMoves ==
  ASSUME BoundaryTypeOK, Working, NEW place \in Places \ {"idle", "invoke", "answered"}, Goto(place),
         place = "streaming" => crossing.kind = "streamHandler",
         UNCHANGED <<mode, aborted, handed>>
  PROVE  Moves
  BY DEF BoundaryTypeOK, Crossing, Goto, Moves, trailVars, Places

\* The outcome of a stage is one of Outcomes.
LEMMA OutcomesAre ==
  /\ BlockReasons \subseteq Outcomes /\ "ok" \notin BlockReasons
  /\ {"ok", "aborted", "error", "policy", "unsupported_value", "limit_exceeded", "lifecycle", "core_error"} \subseteq Outcomes
  BY DEF BlockReasons, CoreFailures, Outcomes

\* The steps of the shape, the value and the handler move on or conclude.
LEMMA PlainSteps ==
  ASSUME BoundaryTypeOK,
         \/ ReadArguments \/ HandlerThrows \/ HandlerReturns \/ Stream \/ ReadResult
         \/ BlockFails \/ BlocksEnd \/ BeginValue \/ ValueFails
  PROVE  /\ Moves \/ Concludes
         /\ UNCHANGED <<known, told>>
<1>0. UNCHANGED <<mode, known, told, aborted, handed>>
  BY DEF ReadArguments, HandlerThrows, HandlerReturns, Stream, ReadResult, BlockFails, BlocksEnd, BeginValue, ValueFails
<1>1. CASE ReadArguments
  BY <1>0, <1>1, GotoMoves, OutcomesAre DEF ReadArguments, At, Working, Concludes, Places
<1>2. CASE HandlerThrows
  BY <1>0, <1>2, OutcomesAre DEF HandlerThrows, Thrown, At, Working, Concludes
<1>3. CASE HandlerReturns
  BY <1>0, <1>3, GotoMoves DEF HandlerReturns, At, Working, Places
<1>4. CASE Stream
  BY <1>0, <1>4 DEF Stream, At, Working, Concludes
<1>5. CASE ReadResult
  BY <1>0, <1>5, GotoMoves, OutcomesAre DEF ReadResult, At, Working, Concludes, Places
<1>6. CASE BlockFails \/ ValueFails
  BY <1>0, <1>6, OutcomesAre DEF BlockFails, ValueFails, At, Working, Concludes
<1>7. CASE BlocksEnd
  BY <1>0, <1>7, GotoMoves DEF BlocksEnd, At, Working, Places
<1>8. CASE BeginValue
  BY <1>0, <1>8, GotoMoves, OutcomesAre DEF BeginValue, At, Working, Concludes, Places
<1> QED
  BY <1>0, <1>1, <1>2, <1>3, <1>4, <1>5, <1>6, <1>7, <1>8

\* The loop of the backstop goes on or ends the stage.
LEMMA PassMoves ==
  ASSUME BoundaryTypeOK, NEW clean \in SUBSET Serialized, Working, ~aborted, Pass(clean),
         UNCHANGED <<mode, aborted, handed>>
  PROVE  Moves \/ Concludes
<1>1. CASE crossing.next = Len(crossing.parts)
  BY <1>1, OutcomesAre DEF Pass, Concludes
<1>2. CASE crossing.next # Len(crossing.parts)
  <2>1. crossing' = [crossing EXCEPT !.at = "backstop", !.next = crossing.next + 1, !.clean = clean]
    BY <1>2 DEF Pass
  <2>2. crossing.next + 1 \in Nat
    BY DEF BoundaryTypeOK, Crossing
  <2>3. crossing' \in Crossing
    BY <2>1, <2>2 DEF BoundaryTypeOK, Crossing, Places
  <2> QED
    BY <1>2, <2>1, <2>3 DEF Pass, Moves, trailVars, BoundaryTypeOK, Crossing, Working
<1> QED
  BY <1>1, <1>2

\* The steps of the backstop move on or conclude.
LEMMA BackstopSteps ==
  ASSUME BoundaryTypeOK, BackstopStep, crossing.next \in DOMAIN crossing.parts
  PROVE  Moves \/ Concludes
<1>0. UNCHANGED <<mode, aborted, handed>>
  BY DEF BackstopStep, SkipPart, ScanPart, PartFails, EndPart
<1>1. Part \in Serialized /\ crossing.clean \in SUBSET Serialized
  BY DEF Part, BoundaryTypeOK, Crossing
<1>2. CASE SkipPart
  BY <1>0, <1>1, <1>2, PassMoves, OutcomesAre DEF SkipPart, CancelledAtSkip, At, Working, Concludes
<1>3. CASE ScanPart
  <2>1. CASE aborted
    BY <1>0, <1>3, <2>1, OutcomesAre DEF ScanPart, At, Working, Concludes
  <2>2. CASE ~aborted
    <3>1. PICK v \in VerdictsOn(Part) :
            IF v = "block" THEN Conclude("policy")
            ELSE crossing' = [crossing EXCEPT !.at = "in part", !.verdict = v] /\ UNCHANGED <<audits, answer>>
      BY <1>3, <2>2 DEF ScanPart
    <3>2. v \in Verdicts
      BY <1>1, <3>1 DEF VerdictsOn, BoundaryTypeOK
    <3> QED
      BY <1>0, <1>3, <3>1, <3>2, OutcomesAre, ZenonT(30)
         DEF ScanPart, At, Working, Concludes, Moves, trailVars, BoundaryTypeOK, Crossing, Places
  <2> QED
    BY <2>1, <2>2
<1>4. CASE PartFails
  BY <1>0, <1>4, OutcomesAre DEF PartFails, At, Working, Concludes
<1>5. CASE EndPart
  <2>1. crossing.clean \cup (IF IsClean(crossing.verdict) THEN {Part} ELSE {}) \in SUBSET Serialized
    BY <1>1
  <2> QED
    BY <1>0, <1>5, <2>1, PassMoves, OutcomesAre DEF EndPart, At, Working, Concludes
<1> QED
  BY <1>2, <1>3, <1>4, <1>5 DEF BackstopStep

\* The parts of a value are as many as its blocks and one more.
LEMMA PartCountIs ==
  ASSUME BoundaryTypeOK
  PROVE  PartCount \in Nat \ {0}
  BY DEF PartCount, BoundaryTypeOK, Crossing

\* A block is prepared, or the parts of a value are laid out.
LEMMA LayoutSteps ==
  ASSUME BoundaryTypeOK, PrepareBlock \/ ValueEnds
  PROVE  Moves \/ Concludes
<1>1. CASE PrepareBlock
  <2>1. PICK payload \in {0, 1} :
          crossing' = [crossing EXCEPT
            !.blocks = Append(@, [raw |-> Len(@) + 1, payload |-> payload * (Len(@) + 1)])]
    BY <1>1 DEF PrepareBlock
  <2>2. Len(crossing.blocks) + 1 \in Nat /\ payload * (Len(crossing.blocks) + 1) \in Nat
    BY <2>1 DEF BoundaryTypeOK, Crossing
  <2>3. [raw |-> Len(crossing.blocks) + 1, payload |-> payload * (Len(crossing.blocks) + 1)] \in Block
    BY <2>2 DEF Block
  <2> DEFINE block == [raw |-> Len(crossing.blocks) + 1, payload |-> payload * (Len(crossing.blocks) + 1)]
  <2>4. Append(crossing.blocks, block) \in Seq(Block)
    BY <2>3 DEF BoundaryTypeOK, Crossing
  <2>5. crossing' = [crossing EXCEPT !.blocks = Append(crossing.blocks, block)]
    BY <2>1
  <2> HIDE DEF block
  <2>6. crossing' \in Crossing
    BY <2>4, <2>5 DEF BoundaryTypeOK, Crossing
  <2> QED
    BY <1>1, <2>5, <2>6 DEF PrepareBlock, At, Working, Moves, trailVars, BoundaryTypeOK, Crossing
<1>2. CASE ValueEnds
  <2>1. CASE Conclude("aborted")
    BY <1>2, <2>1, OutcomesAre DEF ValueEnds, At, Working, Concludes
  <2>2. CASE ~Conclude("aborted")
    <3>1. PICK parts \in [1 .. PartCount -> Serialized] :
            crossing' = [crossing EXCEPT !.at = "backstop", !.parts = parts]
      BY <1>2, <2>2 DEF ValueEnds
    <3>2. parts \in Seq(Serialized)
      BY PartCountIs
    <3> QED
      BY <1>2, <2>2, <3>1, <3>2 DEF ValueEnds, At, Working, Moves, trailVars, BoundaryTypeOK, Crossing, Places
  <2> QED
    BY <2>1, <2>2
<1> QED
  BY <1>1, <1>2

-----------------------------------------------------------------------------
(* Types.                                                                  *)

\* A new crossing is a crossing.
LEMMA NewCrossingType ==
  ASSUME NEW which \in Kinds, NEW asks \in BOOLEAN, NEW at \in Places,
         NEW stage \in {"arguments", "result", "resource"}
  PROVE  NewCrossing(which, asks, at, stage) \in Crossing
<1>1. <<>> \in Seq(Block) /\ <<>> \in Seq(Serialized)
  OBVIOUS
<1> QED
  BY <1>1 DEF NewCrossing, Crossing, Verdicts

\* The stage of a kind, and what each outcome is answered with, are known.
LEMMA StageAndWire ==
  ASSUME NEW which \in Kinds
  PROVE  /\ StageOf(which) \in {"result", "resource"}
         /\ \A outcome \in Outcomes : Wire(which, outcome) \in Answers
         /\ \A outcome \in Outcomes : Wire(which, outcome) = "value" <=> outcome = "ok"
<1>1. StageOf(which) \in {"result", "resource"}
  BY DEF StageOf
<1>2. ASSUME NEW outcome \in Outcomes
      PROVE  Wire(which, outcome) \in Answers /\ (Wire(which, outcome) = "value" <=> outcome = "ok")
  <2>1. CASE outcome = "ok"
    BY <2>1 DEF Wire, Answers, BlockReasons, CoreFailures
  <2>2. CASE outcome = "error"
    BY <2>2 DEF Wire, Answers, BlockReasons, CoreFailures
  <2>3. CASE outcome = "aborted" /\ which \in {"toolHandler", "streamHandler", "readHandler"}
    BY <2>3 DEF Wire, Answers, BlockReasons, CoreFailures
  <2>4. CASE outcome = "aborted" /\ which \notin {"toolHandler", "streamHandler", "readHandler"}
    BY <2>4 DEF Wire, Answers, BlockReasons, CoreFailures
  <2>5. CASE outcome \in BlockReasons
    BY <2>5 DEF Wire, Answers, BlockReasons, CoreFailures
  <2> QED
    BY <1>2, <2>1, <2>2, <2>3, <2>4, <2>5 DEF Outcomes
<1> QED
  BY <1>1, <1>2

\* A stage that concludes leaves what it changes in its type.
LEMMA ConcludeType ==
  ASSUME BoundaryTypeOK, NEW outcome \in Outcomes, Conclude(outcome)
  PROVE  crossing' \in Crossing /\ audits' \in Seq(AuditRecord) /\ answer' \in Answer
<1>1. [stage |-> crossing.stage, outcome |-> outcome] \in AuditRecord
  BY DEF BoundaryTypeOK, Crossing, AuditRecord
<1>2. audits' \in Seq(AuditRecord)
  BY <1>1 DEF Conclude, AuditRecords, BoundaryTypeOK
<1>3. crossing' \in Crossing
  BY ZenonT(30) DEF Conclude, BoundaryTypeOK, Crossing, Places
<1>4. crossing.kind \in Kinds /\ crossing.blocks \in Seq(Block) /\ <<>> \in Seq(Block)
  BY DEF BoundaryTypeOK, Crossing
<1>5. Wire(crossing.kind, outcome) \in Answers
  BY <1>4, StageAndWire
<1>6. answer' \in Answer
  <2>1. CASE GoesOn(outcome)
    BY <2>1 DEF Conclude, BoundaryTypeOK
  <2>2. CASE ~GoesOn(outcome)
    <3>1. answer' = [is |-> Wire(crossing.kind, outcome),
                     blocks |-> IF outcome = "ok" THEN crossing.blocks ELSE <<>>]
      BY <2>2 DEF Conclude, Reassembled
    <3>2. (IF outcome = "ok" THEN crossing.blocks ELSE <<>>) \in Seq(Block)
      BY <1>4
    <3> QED
      BY <1>5, <3>1, <3>2 DEF Answer
  <2> QED
    BY <2>1, <2>2
<1> QED
  BY <1>2, <1>3, <1>6

\* What a scan adds to what is known of the core.
LEMMA KnownType ==
  ASSUME BoundaryTypeOK, NEW part \in Serialized, NEW v \in Verdicts
  PROVE  [p \in DOMAIN known \cup {part} |-> IF p = part THEN v ELSE known[p]]
           \in UNION {[D -> Verdicts] : D \in SUBSET Serialized}
<1>1. PICK D \in SUBSET Serialized : known \in [D -> Verdicts]
  BY DEF BoundaryTypeOK
<1>2. D \cup {part} \in SUBSET Serialized
  OBVIOUS
<1>3. [p \in DOMAIN known \cup {part} |-> IF p = part THEN v ELSE known[p]] \in [D \cup {part} -> Verdicts]
  BY <1>1
<1> QED
  BY <1>2, <1>3

-----------------------------------------------------------------------------
(* The audit trail.                                                        *)

PassedArguments == [stage |-> "arguments", outcome |-> "ok"]

\* The audits of a crossing before its last stage.
Kept(asks) == IF asks THEN <<PassedArguments>> ELSE <<>>

\* What the audits, the handler and the place of a crossing say of each other.
Trail ==
  /\ crossing.at = "idle" => audits = <<>> /\ handed = "none"
  /\ crossing.at # "idle" =>
       /\ crossing.asks => crossing.kind \in AsksArguments
       /\ crossing.stage = "arguments" => crossing.asks \/ crossing.kind = "toolArguments"
       /\ crossing.kind = "toolArguments" => ~crossing.asks /\ crossing.stage = "arguments"
       /\ crossing.stage # "arguments" /\ crossing.at # "invoke" => crossing.stage = StageOf(crossing.kind)
  /\ crossing.at = "invoke" =>
       crossing.kind \in Invokes /\ audits = Kept(crossing.asks) /\ handed = "none"
  /\ Working /\ crossing.stage = "arguments" => audits = <<>> /\ handed = "none"
  /\ Working /\ crossing.stage # "arguments" =>
       audits = Kept(crossing.asks) /\ (crossing.kind \in Invokes => handed # "none")
  /\ crossing.at = "streaming" => crossing.kind = "streamHandler"
  /\ AuditedAsAnswered

\* Trails of one audit and of two.
LEMMA ShortTrails ==
  ASSUME NEW a, NEW b
  PROVE  /\ <<>> \o <<b>> = <<b>> /\ <<a>> \o <<b>> = <<a, b>>
         /\ Len(<<b>>) = 1 /\ DOMAIN <<b>> = 1..1 /\ <<b>>[1] = b
         /\ Len(<<a, b>>) = 2 /\ DOMAIN <<a, b>> = 1..2 /\ <<a, b>>[1] = a /\ <<a, b>>[2] = b
<1> DEFINE S == {a, b}  c == <<a>> \o <<b>>  d == <<a, b>>
<1>1. <<a>> \in Seq(S) /\ <<b>> \in Seq(S) /\ d \in Seq(S)
  OBVIOUS
<1>2. /\ c \in Seq(S) /\ Len(c) = Len(<<a>>) + Len(<<b>>)
      /\ \A i \in 1 .. Len(<<a>>) + Len(<<b>>) :
           c[i] = IF i <= Len(<<a>>) THEN <<a>>[i] ELSE <<b>>[i - Len(<<a>>)]
  BY <1>1, ConcatProperties
<1>3. Len(<<a>>) = 1 /\ Len(<<b>>) = 1 /\ <<a>>[1] = a /\ <<b>>[1] = b
  OBVIOUS
<1>4. Len(d) = 2 /\ d[1] = a /\ d[2] = b
  OBVIOUS
<1>5. c \in Seq(S) /\ Len(c) = 2 /\ c[1] = a /\ c[2] = b
  BY <1>2, <1>3
<1> HIDE DEF c, d, S
<1>6. c = d
  BY <1>1, <1>4, <1>5, SeqEqual
<1>7. <<>> \o <<b>> = <<b>>
  OBVIOUS
<1>8. DOMAIN <<b>> = 1..1 /\ DOMAIN <<a, b>> = 1..2
  OBVIOUS
<1> QED
  BY <1>3, <1>4, <1>6, <1>7, <1>8 DEF c, d

\* The trail of a crossing that ends with the stage of its result.
LEMMA ResultAnswered ==
  ASSUME NEW which \in Kinds \ {"toolArguments"}, NEW asks \in BOOLEAN, asks => which \in AsksArguments,
         NEW outcome \in Outcomes,
         crossing'.kind = which, crossing'.asks = asks,
         audits' = Kept(asks) \o <<[stage |-> StageOf(which), outcome |-> outcome]>>,
         answer'.is = Wire(which, outcome),
         outcome = "ok" /\ which \in Invokes => handed' # "none"
  PROVE  AuditedAsAnswered'
<1> DEFINE last == [stage |-> StageOf(which), outcome |-> outcome]
<1>1. last.stage = StageOf(which) /\ last.outcome = outcome
  OBVIOUS
<1>0. audits' = Kept(asks) \o <<last>>
  OBVIOUS
<1> HIDE DEF last
<1>2. answer'.is = "value" => outcome = "ok"
  BY StageAndWire
<1>3. CASE asks
  <2>1. audits' = <<PassedArguments, last>>
    BY <1>0, <1>3, ShortTrails DEF Kept
  <2> DEFINE both == <<PassedArguments, last>>
  <2>0. Len(both) = 2 /\ DOMAIN both = 1..2 /\ both[1] = PassedArguments /\ both[2] = last
    BY ShortTrails
  <2>a. audits' = both
    BY <2>1
  <2> HIDE DEF both
  <2>2. Len(audits') = 2 /\ DOMAIN audits' = 1..2 /\ audits'[1] = PassedArguments /\ audits'[2] = last
    BY <2>0, <2>a
  <2>3. Last(audits') = last
    BY <2>2 DEF Last
  <2>4. StageOf(which) = "result"
    BY <1>3 DEF StageOf, AsksArguments, OfResource
  <2>5. [i \in DOMAIN audits' |-> audits'[i].stage] = <<"arguments", "result">>
    BY <1>1, <2>2, <2>4 DEF PassedArguments
  <2> QED
    <3>0. Len(audits') # 1
      BY <2>2
    <3>a. crossing'.kind # "toolArguments"
      OBVIOUS
    <3>1. crossing'.asks /\ crossing'.kind # "toolArguments" /\ Len(audits') # 1
      BY <1>3, <3>0, <3>a
    <3>2. answer'.is = Wire(crossing'.kind, Last(audits').outcome)
      BY <1>1, <2>3
    <3>3. answer'.is = "value" /\ crossing'.kind \in Invokes => handed' # "none"
      BY <1>2
    <3> QED
      BY <2>5, <3>1, <3>2, <3>3 DEF AuditedAsAnswered
<1>4. CASE ~asks
  <2>1. audits' = <<last>>
    BY <1>0, <1>4, ShortTrails DEF Kept
  <2>2. Len(audits') = 1 /\ DOMAIN audits' = 1..1 /\ audits'[1] = last
    BY <2>1, ShortTrails, ZenonT(30)
  <2>3. Last(audits') = last
    BY <2>2 DEF Last
  <2>4. [i \in DOMAIN audits' |-> audits'[i].stage] = <<StageOf(which)>>
    BY <1>1, <2>2
  <2> QED
    BY <1>1, <1>2, <1>4, <2>2, <2>3, <2>4 DEF AuditedAsAnswered
<1> QED
  BY <1>3, <1>4

\* The trail of a crossing that ends with its arguments.
LEMMA ArgumentsAnswered ==
  ASSUME NEW which \in Kinds, NEW asks \in BOOLEAN, NEW outcome \in Outcomes,
         which = "toolArguments" \/ (asks /\ outcome # "ok"),
         which = "toolArguments" => ~asks,
         crossing'.kind = which, crossing'.asks = asks,
         audits' = <<[stage |-> "arguments", outcome |-> outcome]>>,
         answer'.is = Wire(which, outcome)
  PROVE  AuditedAsAnswered'
<1> DEFINE last == [stage |-> "arguments", outcome |-> outcome]
<1>1. last.stage = "arguments" /\ last.outcome = outcome
  OBVIOUS
<1>2. answer'.is = "value" /\ which \in Invokes => FALSE
  BY StageAndWire DEF Invokes
<1>3. Len(audits') = 1 /\ DOMAIN audits' = 1..1 /\ audits'[1] = last
  OBVIOUS
<1>4. Last(audits') = last
  BY <1>3 DEF Last
<1>5. [i \in DOMAIN audits' |-> audits'[i].stage] = <<"arguments">>
  BY <1>1, <1>3
<1> HIDE DEF last
<1> QED
  BY <1>1, <1>2, <1>3, <1>4, <1>5 DEF AuditedAsAnswered

\* A step inside a stage keeps the trail.
LEMMA MovesTrail ==
  ASSUME BoundaryTypeOK, Trail, Moves
  PROVE  Trail'
  BY DEF Trail, Moves, trailVars, Working, AuditedAsAnswered

\* The end of a stage keeps it.
LEMMA ConcludesTrail ==
  ASSUME BoundaryTypeOK, Trail, Concludes
  PROVE  Trail'
<1>1. PICK outcome \in Outcomes : Conclude(outcome)
  BY DEF Concludes
<1>2. Working /\ UNCHANGED handed
  BY DEF Concludes
<1>3. /\ crossing.kind \in Kinds /\ crossing.asks \in BOOLEAN
      /\ crossing.at \in Places /\ crossing.stage \in {"arguments", "result", "resource"}
  BY DEF BoundaryTypeOK, Crossing
<1>4. /\ crossing'.kind = crossing.kind /\ crossing'.asks = crossing.asks /\ crossing'.stage = crossing.stage
      /\ crossing'.at = IF GoesOn(outcome) THEN "invoke" ELSE "answered"
  BY <1>1 DEF Conclude, BoundaryTypeOK, Crossing
<1>5. audits' = audits \o <<[stage |-> crossing.stage, outcome |-> outcome]>>
  BY <1>1 DEF Conclude, AuditRecords
<1>6. CASE GoesOn(outcome)
  <2>1. crossing.stage = "arguments" /\ crossing.kind \in Invokes /\ outcome = "ok"
    BY <1>6 DEF GoesOn
  <2>2. crossing.asks /\ audits = <<>> /\ handed = "none"
    BY <1>2, <2>1 DEF Trail, Working, Invokes
  <2>3. audits' = Kept(crossing.asks)
    BY <1>5, <2>1, <2>2 DEF Kept, PassedArguments
  <2> QED
    BY <1>2, <1>4, <1>6, <2>1, <2>2, <2>3 DEF Trail, Working, AuditedAsAnswered
<1>7. CASE ~GoesOn(outcome)
  <2>1. answer'.is = Wire(crossing.kind, outcome)
    BY <1>1, <1>7 DEF Conclude
  <2>2. AuditedAsAnswered'
    <3>1. CASE crossing.stage = "arguments"
      <4>1. audits' = <<[stage |-> "arguments", outcome |-> outcome]>>
        BY <1>2, <1>5, <3>1 DEF Trail
      <4>2. crossing.kind = "toolArguments" \/ (crossing.asks /\ outcome # "ok")
        BY <1>2, <1>7, <3>1 DEF Trail, Working, GoesOn, AsksArguments, Invokes
      <4>3. crossing.kind = "toolArguments" => ~crossing.asks
        BY <1>2 DEF Trail, Working
      <4> QED
        BY <1>3, <1>4, <2>1, <4>1, <4>2, <4>3, ArgumentsAnswered
    <3>2. CASE crossing.stage # "arguments"
      <4>1. /\ crossing.kind # "toolArguments" /\ (crossing.asks => crossing.kind \in AsksArguments)
            /\ crossing.stage = StageOf(crossing.kind) /\ audits = Kept(crossing.asks)
            /\ crossing.kind \in Invokes => handed' # "none"
        BY <1>2, <3>2 DEF Trail, Working
      <4> QED
        BY <1>3, <1>4, <1>5, <2>1, <4>1, ResultAnswered
    <3> QED
      BY <3>1, <3>2
  <2> QED
    BY <1>2, <1>4, <1>7, <2>2 DEF Trail, Working
<1> QED
  BY <1>6, <1>7

\* A crossing starts with an empty trail.
LEMMA StartTrail ==
  ASSUME BoundaryTypeOK, Trail, NEW which \in Kinds, NEW asks \in BOOLEAN, StartCrossing(which, asks)
  PROVE  Trail'
<1>1. audits' = <<>> /\ handed' = "none"
  BY DEF StartCrossing, Trail, At
<1>2. CASE asks \/ which = "toolArguments"
  BY <1>1, <1>2 DEF StartCrossing, NewCrossing, Trail, Working, AuditedAsAnswered
<1>3. CASE ~(asks \/ which = "toolArguments")
  <2>1. crossing' = NewCrossing(which, asks, IF which \in Invokes THEN "invoke" ELSE "result", StageOf(which))
    BY <1>3 DEF StartCrossing
  <2>2. StageOf(which) # "arguments"
    BY StageAndWire
  <2> QED
    BY <1>1, <1>3, <2>1, <2>2 DEF NewCrossing, Trail, Working, AuditedAsAnswered, Kept
<1> QED
  BY <1>2, <1>3

\* The handler is invoked, or the crossing ends before it.
LEMMA InvokeTrail ==
  ASSUME BoundaryTypeOK, Trail, Invoke
  PROVE  Trail'
<1> DEFINE begun == NewCrossing(crossing.kind, crossing.asks, "awaiting", StageOf(crossing.kind))
<1>1. /\ crossing.kind \in Invokes /\ audits = Kept(crossing.asks) /\ handed = "none"
      /\ crossing.asks => crossing.kind \in AsksArguments
  BY DEF Invoke, At, Trail
<1>2. crossing.kind \in Kinds \ {"toolArguments"} /\ crossing.asks \in BOOLEAN
  BY <1>1 DEF BoundaryTypeOK, Crossing, Invokes
<1>3. StageOf(crossing.kind) # "arguments"
  BY <1>2, StageAndWire
<1>4. CASE crossing' = begun /\ handed' = Forwarded /\ UNCHANGED <<audits, answer>>
  BY <1>1, <1>2, <1>3, <1>4 DEF NewCrossing, Trail, Working, AuditedAsAnswered, Forwarded
<1>5. ASSUME NEW outcome \in {"aborted", "error"},
             audits' = audits \o AuditRecords(StageOf(crossing.kind), outcome),
             crossing' = [begun EXCEPT !.at = "answered"],
             answer' = [is |-> Wire(crossing.kind, outcome), blocks |-> <<>>],
             UNCHANGED handed
      PROVE  Trail'
  <2>1. /\ crossing'.kind = crossing.kind /\ crossing'.asks = crossing.asks
        /\ crossing'.stage = StageOf(crossing.kind) /\ crossing'.at = "answered"
    BY <1>5 DEF NewCrossing
  <2>2. audits' = Kept(crossing.asks) \o <<[stage |-> StageOf(crossing.kind), outcome |-> outcome]>>
    BY <1>1, <1>5 DEF AuditRecords
  <2>3. outcome \in Outcomes /\ outcome # "ok" /\ answer'.is = Wire(crossing.kind, outcome)
    BY <1>5 DEF Outcomes
  <2>4. AuditedAsAnswered'
    BY <1>1, <1>2, <2>1, <2>2, <2>3, ResultAnswered
  <2> QED
    BY <1>1, <1>2, <1>3, <2>1, <2>4 DEF Trail, Working
<1> QED
  BY <1>4, <1>5 DEF Invoke

-----------------------------------------------------------------------------
(* The backstop.                                                           *)

\* The parts among the first n that had a finding.
Reported(n) == {i \in 1 .. n : known[crossing.parts[i]] # "clean"}

\* The first n parts have been looked at and may pass.
PassedUpTo(n) ==
  \A i \in 1 .. n : crossing.parts[i] \in DOMAIN known /\ known[crossing.parts[i]] \in {"clean", "warn"}

\* Before the backstop there are no parts.
Fresh ==
  crossing.at \notin {"invoke", "backstop", "in part", "answered"} =>
    crossing.parts = <<>> /\ crossing.next = 1 /\ crossing.clean = {} /\ told = 0

\* Where the loop is.
InLoop ==
  /\ Len(crossing.parts) = PartCount
  /\ crossing.next \in 1 .. Len(crossing.parts)
  /\ PassedUpTo(crossing.next - 1)
  /\ \A p \in crossing.clean : p \in DOMAIN known /\ known[p] = "clean"

Looping ==
  /\ crossing.at = "backstop" => InLoop /\ told = Cardinality(Reported(crossing.next - 1))
  /\ crossing.at = "in part" =>
       /\ InLoop /\ told = Cardinality(Reported(crossing.next))
       /\ Part \in DOMAIN known /\ known[Part] = crossing.verdict

\* Every part has passed, or the value had none to look at.
PartsPassed ==
  \/ crossing.parts = <<>> /\ told = 0
  \/ /\ Len(crossing.parts) = PartCount
     /\ PassedUpTo(Len(crossing.parts)) /\ told = Cardinality(Reported(Len(crossing.parts)))

\* What a stage let through has passed.
Delivered == SanitizedOk => PartsPassed

Backstop == Fresh /\ Looping /\ Delivered

\* The last of a sequence that was appended to.
LEMMA LastAppended ==
  ASSUME NEW S, NEW s \in Seq(S), NEW r \in S
  PROVE  s \o <<r>> # <<>> /\ Last(s \o <<r>>) = r
<1>1. /\ Len(s \o <<r>>) = Len(s) + 1
      /\ (s \o <<r>>)[Len(s) + 1] = r
  BY ConcatProperties
<1>2. Len(s) \in Nat
  OBVIOUS
<1>3. Len(s \o <<r>>) # 0
  BY <1>1, <1>2
<1> QED
  BY <1>1, <1>3 DEF Last

\* A stage that ends keeps the backstop's facts: it lets nothing through but
\* what passed.
LEMMA ConcludeBackstop ==
  ASSUME BoundaryTypeOK, NEW outcome \in Outcomes, Conclude(outcome),
         outcome = "ok" => (PartsPassed \/ crossing.kind = "streamHandler") /\ UNCHANGED <<known, told>>
  PROVE  Backstop'
<1>1. /\ crossing'.kind = crossing.kind /\ crossing'.parts = crossing.parts /\ crossing'.blocks = crossing.blocks
      /\ crossing'.stage = crossing.stage /\ crossing'.at \in {"invoke", "answered"}
  BY DEF Conclude, BoundaryTypeOK, Crossing
<1>2. audits' = audits \o <<[stage |-> crossing.stage, outcome |-> outcome]>>
  BY DEF Conclude, AuditRecords
<1> DEFINE r == [stage |-> crossing.stage, outcome |-> outcome]
<1>3. r \in AuditRecord /\ r.outcome = outcome
  BY DEF AuditRecord, BoundaryTypeOK, Crossing
<1>4. audits \in Seq(AuditRecord) /\ audits' = audits \o <<r>>
  BY <1>2 DEF BoundaryTypeOK
<1> HIDE DEF r
<1>5. Last(audits').outcome = outcome
  BY <1>3, <1>4, LastAppended
<1>6. Fresh' /\ Looping'
  BY <1>1 DEF Fresh, Looping
<1>7. Delivered'
  <2>1. CASE outcome # "ok"
    BY <1>5, <2>1 DEF Delivered, SanitizedOk
  <2>2. CASE outcome = "ok" /\ crossing.kind = "streamHandler"
    BY <1>1, <2>2 DEF Delivered, SanitizedOk
  <2>3. CASE outcome = "ok" /\ PartsPassed /\ UNCHANGED <<known, told>>
    BY <1>1, <2>3 DEF Delivered, PartsPassed, PassedUpTo, Reported, PartCount
  <2> QED
    BY <2>1, <2>2, <2>3
<1> QED
  BY <1>6, <1>7 DEF Backstop

\* A stage that goes on before its backstop has nothing to tell.
LEMMA GotoBackstop ==
  ASSUME BoundaryTypeOK, Backstop,
         crossing.at \notin {"invoke", "backstop", "in part", "answered"},
         NEW place \in Places \ {"invoke", "backstop", "in part", "answered"}, Goto(place),
         UNCHANGED <<known, told>>
  PROVE  Backstop'
<1>1. crossing' = [crossing EXCEPT !.at = place]
  BY DEF Goto
<1>2. crossing'.at = place /\ crossing'.parts = crossing.parts /\ crossing'.next = crossing.next /\ crossing'.clean = crossing.clean
  BY <1>1 DEF BoundaryTypeOK, Crossing
<1> QED
  BY <1>2 DEF Backstop, Fresh, Looping, Delivered, SanitizedOk

\* Before its backstop, a stage that lets a value through had none to look at.
LEMMA FreshPassed ==
  ASSUME Backstop, crossing.at \notin {"invoke", "backstop", "in part", "answered"}
  PROVE  PartsPassed
  BY DEF Backstop, Fresh, PartsPassed

\* The steps of the shape, the value and the handler.
LEMMA PlainBackstop ==
  ASSUME BoundaryTypeOK, Trail, Backstop,
         \/ ReadArguments \/ HandlerThrows \/ HandlerReturns \/ Stream \/ ReadResult
         \/ BlockFails \/ BlocksEnd \/ BeginValue \/ ValueFails
  PROVE  Backstop'
<1>0. UNCHANGED <<known, told>>
  BY PlainSteps
<1>1. CASE ReadArguments
  BY <1>0, <1>1, GotoBackstop, ConcludeBackstop, FreshPassed, OutcomesAre DEF ReadArguments, At, Places
<1>2. CASE HandlerThrows
  BY <1>0, <1>2, ConcludeBackstop, OutcomesAre DEF HandlerThrows, Thrown, At
<1>3. CASE HandlerReturns
  BY <1>0, <1>3, GotoBackstop DEF HandlerReturns, At, Places
<1>4. CASE Stream
  BY <1>0, <1>4, ConcludeBackstop DEF Stream, At, Trail
<1>5. CASE ReadResult
  BY <1>0, <1>5, GotoBackstop, ConcludeBackstop, OutcomesAre DEF ReadResult, At, Places
<1>6. CASE BlockFails \/ ValueFails
  BY <1>0, <1>6, ConcludeBackstop, OutcomesAre DEF BlockFails, ValueFails, At
<1>7. CASE BlocksEnd
  BY <1>0, <1>7, GotoBackstop DEF BlocksEnd, At, Places
<1>8. CASE BeginValue
  BY <1>0, <1>8, GotoBackstop, ConcludeBackstop, OutcomesAre DEF BeginValue, At, Places
<1> QED
  BY <1>1, <1>2, <1>3, <1>4, <1>5, <1>6, <1>7, <1>8

\* Nothing is reported of no parts, and a part that may be reported is counted
\* as it is.
LEMMA ReportedCounts ==
  ASSUME BoundaryTypeOK
  PROVE  /\ Cardinality(Reported(0)) = 0
         /\ \A n \in Nat : IsFiniteSet(Reported(n)) /\ Cardinality(Reported(n)) \in Nat
         /\ \A n \in Nat \ {0} :
              Cardinality(Reported(n)) =
                Cardinality(Reported(n - 1)) + IF known[crossing.parts[n]] = "clean" THEN 0 ELSE 1
<1>1. Reported(0) = {}
  BY DEF Reported
<1>2. ASSUME NEW n \in Nat
      PROVE  IsFiniteSet(Reported(n)) /\ Cardinality(Reported(n)) \in Nat
  <2>1. IsFiniteSet(1 .. n)
    BY FS_Interval
  <2>2. Reported(n) \subseteq 1 .. n
    BY DEF Reported
  <2>3. IsFiniteSet(Reported(n))
    BY <2>1, <2>2, FS_Subset
  <2> QED
    BY <2>3, FS_CardinalityType
<1>3. ASSUME NEW n \in Nat \ {0}
      PROVE  Cardinality(Reported(n)) =
               Cardinality(Reported(n - 1)) + IF known[crossing.parts[n]] = "clean" THEN 0 ELSE 1
  <2>0. n - 1 \in Nat /\ IsFiniteSet(Reported(n - 1)) /\ Cardinality(Reported(n - 1)) \in Nat
    BY <1>2
  <2>1. CASE known[crossing.parts[n]] = "clean"
    <3>1. Reported(n) = Reported(n - 1)
      BY <2>1 DEF Reported
    <3> QED
      BY <2>0, <2>1, <3>1
  <2>2. CASE known[crossing.parts[n]] # "clean"
    <3>1. Reported(n) = Reported(n - 1) \cup {n} /\ n \notin Reported(n - 1)
      BY <2>2 DEF Reported
    <3>2. Cardinality(Reported(n)) = Cardinality(Reported(n - 1)) + 1
      BY <2>0, <3>1, FS_AddElement
    <3> QED
      BY <2>2, <3>2
  <2> QED
    BY <2>1, <2>2
<1> QED
  BY <1>1, <1>2, <1>3, FS_EmptySet

\* The loop goes on past a part that passed, or ends with all of them passed.
LEMMA PassBackstop ==
  ASSUME BoundaryTypeOK, NEW clean \in SUBSET Serialized, Pass(clean), UNCHANGED <<known, told>>,
         InLoop, PassedUpTo(crossing.next), told = Cardinality(Reported(crossing.next)),
         \A p \in clean : p \in DOMAIN known /\ known[p] = "clean"
  PROVE  Backstop'
<1>1. CASE crossing.next = Len(crossing.parts)
  <2>1. PartsPassed
    BY <1>1 DEF PartsPassed, InLoop
  <2> QED
    BY <1>1, <2>1, ConcludeBackstop, OutcomesAre DEF Pass
<1>2. CASE crossing.next # Len(crossing.parts)
  <2>1. crossing' = [crossing EXCEPT !.at = "backstop", !.next = crossing.next + 1, !.clean = clean]
    BY <1>2 DEF Pass
  <2>2. /\ crossing'.at = "backstop" /\ crossing'.next = crossing.next + 1 /\ crossing'.clean = clean
        /\ crossing'.parts = crossing.parts /\ crossing'.stage = crossing.stage /\ crossing'.blocks = crossing.blocks
    BY <2>1 DEF BoundaryTypeOK, Crossing
  <2>3. crossing.next \in Nat /\ Len(crossing.parts) \in Nat /\ crossing.next + 1 - 1 = crossing.next
    BY DEF BoundaryTypeOK, Crossing
  <2>4. crossing'.next \in 1 .. Len(crossing'.parts)
    BY <1>2, <2>2, <2>3 DEF InLoop
  <2>5. (crossing.next - 1)' = crossing.next
    BY <2>2, <2>3
  <2>6. PassedUpTo(crossing.next - 1)' /\ told' = Cardinality(Reported(crossing.next - 1)')
    BY <2>2, <2>5 DEF PassedUpTo, Reported
  <2>7. InLoop'
    BY <2>2, <2>4, <2>6 DEF InLoop, PartCount
  <2> QED
    BY <2>2, <2>6, <2>7 DEF Backstop, Fresh, Looping, Delivered, SanitizedOk
<1> QED
  BY <1>1, <1>2

\* One part more has passed.
LEMMA PassedNext ==
  ASSUME NEW n \in Nat \ {0}, PassedUpTo(n - 1),
         crossing.parts[n] \in DOMAIN known, known[crossing.parts[n]] \in {"clean", "warn"}
  PROVE  PassedUpTo(n)
<1>1. \A i \in 1 .. n : i \in 1 .. n - 1 \/ i = n
  OBVIOUS
<1> QED
  BY <1>1 DEF PassedUpTo

\* A part already found clean, and a part whose scan has returned, are passed.
LEMMA SkipAndEnd ==
  ASSUME BoundaryTypeOK, Backstop, SkipPart \/ EndPart
  PROVE  Backstop'
<1>0. UNCHANGED <<known, told>>
  BY DEF SkipPart, EndPart
<1>1. CASE crossing.at = "backstop" /\ InLoop /\ SkipPart
  <2>1. Part \in DOMAIN known /\ known[Part] = "clean" /\ crossing.clean \in SUBSET Serialized
    BY <1>1 DEF SkipPart, InLoop, BoundaryTypeOK, Crossing
  <2>2. crossing.next \in Nat \ {0}
    BY <1>1 DEF InLoop, BoundaryTypeOK, Crossing
  <2>3. told = Cardinality(Reported(crossing.next - 1))
    BY <1>1 DEF Backstop, Looping
  <2>4. Cardinality(Reported(crossing.next - 1)) \in Nat
    BY <2>2, ReportedCounts
  <2>5. told = Cardinality(Reported(crossing.next))
    BY <2>1, <2>2, <2>3, <2>4, ReportedCounts DEF Part
  <2>6. PassedUpTo(crossing.next)
    BY <1>1, <2>1, <2>2, PassedNext DEF InLoop, Part
  <2>7. \A p \in crossing.clean : p \in DOMAIN known /\ known[p] = "clean"
    BY <1>1 DEF InLoop
  <2>8. Conclude("aborted") \/ Pass(crossing.clean)
    BY <1>1 DEF SkipPart
  <2> QED
    BY <1>0, <1>1, <2>1, <2>5, <2>6, <2>7, <2>8, PassBackstop, ConcludeBackstop, OutcomesAre
<1>2. CASE crossing.at = "in part" /\ InLoop /\ EndPart
  <2>1. CASE Conclude("aborted") \/ Conclude("policy")
    BY <2>1, ConcludeBackstop, OutcomesAre
  <2>2. CASE ~PartRefused(crossing.verdict) /\ Pass(crossing.clean \cup IF IsClean(crossing.verdict) THEN {Part} ELSE {})
    <3>1. Part \in DOMAIN known /\ known[Part] = crossing.verdict /\ told = Cardinality(Reported(crossing.next))
      BY <1>2 DEF Backstop, Looping
    <3>2. known[Part] \in {"clean", "warn"}
      BY <2>2, <3>1 DEF PartRefused, BoundaryTypeOK, Crossing, Verdicts
    <3>0. crossing.parts \in Seq(Serialized) /\ crossing.next \in 1 .. Len(crossing.parts)
      BY <1>2 DEF InLoop, BoundaryTypeOK, Crossing
    <3>a. crossing.next \in Nat \ {0} /\ crossing.next \in DOMAIN crossing.parts
      BY <3>0
    <3>b. Part \in Serialized
      BY <3>0, <3>a DEF Part
    <3>3. Part \in Serialized /\ crossing.clean \in SUBSET Serialized
      BY <3>b DEF BoundaryTypeOK, Crossing
    <3>4. PassedUpTo(crossing.next)
      BY <1>2, <3>1, <3>2, <3>a, PassedNext DEF InLoop, Part
    <3> DEFINE clean == crossing.clean \cup IF IsClean(crossing.verdict) THEN {Part} ELSE {}
    <3>5. clean \in SUBSET Serialized /\ \A p \in clean : p \in DOMAIN known /\ known[p] = "clean"
      BY <1>2, <3>1, <3>3 DEF IsClean, InLoop
    <3>6. Pass(clean)
      BY <2>2
    <3> HIDE DEF clean
    <3> QED
      BY <1>0, <1>2, <3>1, <3>4, <3>5, <3>6, PassBackstop
  <2> QED
    BY <1>2, <2>1, <2>2 DEF EndPart
<1> QED
  BY <1>1, <1>2 DEF SkipPart, EndPart, At, Backstop, Looping

\* A scan of a part tells what the core told of it, now as before.
LEMMA ScanBackstop ==
  ASSUME BoundaryTypeOK, Backstop, ScanPart \/ PartFails
  PROVE  Backstop'
<1>0. InLoop /\ told = Cardinality(Reported(crossing.next - 1)) /\ crossing.at = "backstop"
  BY DEF ScanPart, PartFails, At, Backstop, Looping
<1>1. CASE Conclude("aborted") \/ Conclude("policy") \/ PartFails
  BY <1>1, ConcludeBackstop, OutcomesAre DEF PartFails
<1>2. CASE ~(Conclude("aborted") \/ Conclude("policy") \/ PartFails)
  <2>1. PICK v \in VerdictsOn(Part) :
          /\ known' = [p \in DOMAIN known \cup {Part} |-> IF p = Part THEN v ELSE known[p]]
          /\ told' = IF v = "clean" THEN told ELSE told + 1
          /\ v # "block"
          /\ crossing' = [crossing EXCEPT !.at = "in part", !.verdict = v]
    BY <1>2 DEF ScanPart
  <2>2. /\ crossing'.at = "in part" /\ crossing'.verdict = v /\ crossing'.next = crossing.next
        /\ crossing'.parts = crossing.parts /\ crossing'.clean = crossing.clean
        /\ crossing'.stage = crossing.stage /\ crossing'.blocks = crossing.blocks
    BY <2>1 DEF BoundaryTypeOK, Crossing
  <2>3. Part' = Part
    BY <2>2 DEF Part
  <2>4. Part \in DOMAIN known => v = known[Part]
    BY <2>1 DEF VerdictsOn
  <2>5. \A p \in DOMAIN known : p \in DOMAIN known' /\ known'[p] = known[p]
    BY <2>1, <2>4
  <2>6. Part \in DOMAIN known' /\ known'[Part] = v
    BY <2>1
  <2>7. crossing.next \in Nat \ {0} /\ crossing.next - 1 \in Nat
    BY <1>0 DEF InLoop, BoundaryTypeOK, Crossing
  <2>8. PassedUpTo(crossing.next - 1)' /\ InLoop'
    BY <1>0, <2>2, <2>5 DEF InLoop, PassedUpTo, PartCount
  <2>9. told' = Cardinality(Reported(crossing.next)')
    <3> DEFINE n == crossing.next
               had(i) == known'[crossing'.parts[i]] # "clean"
    <3>a. Reported(crossing.next)' = {i \in 1 .. n : had(i)}
      BY <2>2 DEF Reported
    <3>b. \A i \in 1 .. n - 1 : had(i) <=> known[crossing.parts[i]] # "clean"
      BY <1>0, <2>2, <2>5 DEF InLoop, PassedUpTo
    <3>c. had(n) <=> v # "clean"
      BY <2>2, <2>6 DEF Part
    <3>1. \A i \in 1 .. n : i \in 1 .. n - 1 \/ i = n
      BY <2>7
    <3>2. IsFiniteSet(Reported(crossing.next - 1)) /\ Cardinality(Reported(crossing.next - 1)) \in Nat
      BY <2>7, ReportedCounts
    <3>3. CASE v = "clean"
      <4>1. Reported(crossing.next)' = Reported(n - 1)
        BY <2>7, <3>a, <3>b, <3>c, <3>1, <3>3 DEF Reported
      <4> QED
        BY <1>0, <2>1, <3>3, <4>1
    <3>4. CASE v # "clean"
      <4>1. Reported(crossing.next)' = Reported(n - 1) \cup {n}
        BY <2>7, <3>a, <3>b, <3>c, <3>1, <3>4 DEF Reported
      <4>2. crossing.next \notin Reported(crossing.next - 1)
        BY <2>7 DEF Reported
      <4>3. Cardinality(Reported(crossing.next)') = Cardinality(Reported(crossing.next - 1)) + 1
        BY <3>2, <4>1, <4>2, FS_AddElement
      <4> QED
        BY <1>0, <2>1, <3>4, <4>3
    <3> QED
      BY <3>3, <3>4
  <2> QED
    BY <2>2, <2>3, <2>6, <2>8, <2>9 DEF Backstop, Fresh, Looping, Delivered, SanitizedOk
<1> QED
  BY <1>1, <1>2

\* A block is prepared before there is a part; the parts of a value are laid out
\* before any is looked at.
LEMMA LayoutBackstop ==
  ASSUME BoundaryTypeOK, Backstop, PrepareBlock \/ ValueEnds
  PROVE  Backstop'
<1>0. UNCHANGED <<known, told>>
  BY DEF PrepareBlock, ValueEnds
<1>1. CASE PrepareBlock
  <2>1. /\ crossing.at = "blocks" /\ crossing'.at = crossing.at /\ crossing'.parts = crossing.parts
        /\ crossing'.next = crossing.next /\ crossing'.clean = crossing.clean
    BY <1>1 DEF PrepareBlock, At, BoundaryTypeOK, Crossing
  <2> QED
    BY <1>0, <2>1 DEF Backstop, Fresh, Looping, Delivered, SanitizedOk
<1>2. CASE Conclude("aborted")
  BY <1>2, ConcludeBackstop, OutcomesAre
<1>3. CASE ValueEnds /\ ~Conclude("aborted")
  <2>1. PICK parts \in [1 .. PartCount -> Serialized] :
          crossing' = [crossing EXCEPT !.at = "backstop", !.parts = parts]
    BY <1>3 DEF ValueEnds
  <2>2. /\ crossing'.at = "backstop" /\ crossing'.parts = parts /\ crossing'.next = crossing.next
        /\ crossing'.clean = crossing.clean /\ crossing'.stage = crossing.stage
        /\ crossing'.blocks = crossing.blocks
    BY <2>1 DEF BoundaryTypeOK, Crossing
  <2>3. crossing.next = 1 /\ crossing.clean = {} /\ told = 0
    BY <1>3 DEF ValueEnds, At, Backstop, Fresh
  <2>4. PartCount' = PartCount /\ PartCount \in Nat \ {0} /\ Len(parts) = PartCount
    BY <2>2, PartCountIs DEF PartCount
  <2>5. crossing'.next - 1 = 0
    BY <2>2, <2>3
  <2>6. PassedUpTo(crossing.next - 1)'
    BY <2>5 DEF PassedUpTo
  <2>7. Reported(crossing.next - 1)' = {}
    BY <2>5 DEF Reported
  <2>8. InLoop'
    BY <2>2, <2>3, <2>4, <2>6 DEF InLoop
  <2>9. told' = Cardinality(Reported(crossing.next - 1)')
    BY <1>0, <2>3, <2>7, FS_EmptySet
  <2> QED
    BY <2>2, <2>8, <2>9 DEF Backstop, Fresh, Looping, Delivered, SanitizedOk
<1> QED
  BY <1>1, <1>2, <1>3

-----------------------------------------------------------------------------
(* Payloads.                                                               *)

\* Payloads are prepared only where they may pass, and only a crossing that is
\* answered with a value answers with blocks, its own.
Payloads ==
  /\ mode = "block" => \A i \in DOMAIN crossing.blocks : crossing.blocks[i].payload = 0
  /\ crossing.at # "answered" => answer = [is |-> "none", blocks |-> <<>>]
  /\ crossing.at = "answered" => answer.blocks \in {<<>>, crossing.blocks}
  /\ answer.is = "value" => answer.blocks = crossing.blocks

\* A stage that ends answers with its own blocks or none.
LEMMA ConcludePayloads ==
  ASSUME BoundaryTypeOK, Payloads, Working, NEW outcome \in Outcomes, Conclude(outcome), UNCHANGED mode
  PROVE  Payloads'
<1>1. crossing'.blocks = crossing.blocks /\ crossing'.at = IF GoesOn(outcome) THEN "invoke" ELSE "answered"
  BY DEF Conclude, BoundaryTypeOK, Crossing
<1>2. CASE GoesOn(outcome)
  BY <1>1, <1>2 DEF Conclude, Payloads, Working
<1>3. CASE ~GoesOn(outcome)
  <2>1. /\ answer'.is = Wire(crossing.kind, outcome)
        /\ answer'.blocks = IF outcome = "ok" THEN crossing.blocks ELSE <<>>
    BY <1>3 DEF Conclude, Reassembled
  <2>2. answer'.is = "value" => outcome = "ok"
    BY <2>1, StageAndWire DEF BoundaryTypeOK, Crossing
  <2> QED
    BY <1>1, <1>3, <2>1, <2>2 DEF Payloads
<1> QED
  BY <1>2, <1>3

\* A step inside a stage that prepares no block.
LEMMA MovesPayloads ==
  ASSUME BoundaryTypeOK, Payloads, Moves, crossing'.blocks = crossing.blocks
  PROVE  Payloads'
  BY DEF Payloads, Moves, trailVars, Working

\* A block is prepared with a payload only where payloads may pass.
LEMMA PreparePayloads ==
  ASSUME BoundaryTypeOK, Payloads, PrepareBlock
  PROVE  Payloads'
<1>1. PICK payload \in IF mode = "pass" THEN {0, 1} ELSE {0} :
        crossing' = [crossing EXCEPT
          !.blocks = Append(@, [raw |-> Len(@) + 1, payload |-> payload * (Len(@) + 1)])]
  BY DEF PrepareBlock
<1> DEFINE n == Len(crossing.blocks) + 1
           block == [raw |-> n, payload |-> payload * n]
<1>2. crossing'.blocks = Append(crossing.blocks, block) /\ crossing'.at = crossing.at
  BY <1>1 DEF BoundaryTypeOK, Crossing
<1>3. n \in Nat /\ crossing.blocks \in Seq(Block)
  BY DEF BoundaryTypeOK, Crossing
<1>4. mode = "block" => block.payload = 0
  BY <1>1, <1>3
<1>5. block.payload = payload * n /\ payload * n \in Nat
  BY <1>1, <1>3
<1>6. block \in Block
  BY <1>3, <1>5 DEF Block
<1> HIDE DEF block
<1>7. \A i \in DOMAIN crossing'.blocks :
        (i \in DOMAIN crossing.blocks /\ crossing'.blocks[i] = crossing.blocks[i]) \/ crossing'.blocks[i] = block
  BY <1>2, <1>3, <1>6
<1>8. crossing.at = "blocks" /\ UNCHANGED <<mode, answer>>
  BY DEF PrepareBlock, At
<1> QED
  BY <1>2, <1>4, <1>7, <1>8 DEF Payloads

-----------------------------------------------------------------------------
(* The invariant.                                                          *)

BoundaryInv == BoundaryTypeOK /\ Trail /\ Backstop /\ Payloads

\* The steps that begin a crossing, or the handler's part of one.
Begins == Invoke \/ \E which \in Kinds, asks \in BOOLEAN : StartCrossing(which, asks)

\* The steps inside a stage.
StageStep ==
  \/ HandlerThrows \/ HandlerReturns \/ Stream
  \/ ShapeStep \/ ValueStep \/ BackstopStep

\* Only a prepared block changes the blocks of a stage.
LEMMA BlocksStay ==
  ASSUME BoundaryTypeOK, StageStep, ~PrepareBlock
  PROVE  crossing'.blocks = crossing.blocks
<1>1. ASSUME NEW outcome, Conclude(outcome)
      PROVE  crossing'.blocks = crossing.blocks
  BY <1>1 DEF Conclude, BoundaryTypeOK, Crossing
<1>2. ASSUME NEW place, Goto(place)
      PROVE  crossing'.blocks = crossing.blocks
  BY <1>2 DEF Goto, BoundaryTypeOK, Crossing
<1>3. ASSUME NEW clean, Pass(clean)
      PROVE  crossing'.blocks = crossing.blocks
  BY <1>1, <1>3 DEF Pass, BoundaryTypeOK, Crossing
<1>4. CASE HandlerThrows \/ HandlerReturns \/ Stream
  BY <1>1, <1>2, <1>4 DEF HandlerThrows, HandlerReturns, Stream
<1>5. CASE ShapeStep
  BY <1>1, <1>2, <1>5 DEF ShapeStep, ReadArguments, ReadResult, BlockFails, BlocksEnd
<1>6. CASE BeginValue \/ ValueFails
  BY <1>1, <1>2, <1>6 DEF BeginValue, ValueFails
<1>7. CASE ValueEnds
  BY <1>1, <1>7 DEF ValueEnds, BoundaryTypeOK, Crossing
<1>8. CASE SkipPart \/ PartFails \/ EndPart
  BY <1>1, <1>3, <1>8 DEF SkipPart, PartFails, EndPart
<1>9. CASE ScanPart
  BY <1>1, <1>9 DEF ScanPart, BoundaryTypeOK, Crossing
<1> QED
  BY <1>4, <1>5, <1>6, <1>7, <1>8, <1>9 DEF StageStep, ValueStep, BackstopStep

\* A step inside a stage moves on in it or concludes it.
LEMMA StageSteps ==
  ASSUME BoundaryInv, StageStep
  PROVE  Moves \/ Concludes
<1>1. CASE BackstopStep
  <2>1. crossing.next \in DOMAIN crossing.parts
    <3>1. crossing.at \in {"backstop", "in part"}
      BY <1>1 DEF BackstopStep, SkipPart, ScanPart, PartFails, EndPart, At
    <3>2. crossing.next \in 1 .. Len(crossing.parts) /\ crossing.parts \in Seq(Serialized)
      BY <3>1 DEF BoundaryInv, Backstop, Looping, InLoop, BoundaryTypeOK, Crossing
    <3> QED
      BY <3>2
  <2> QED
    BY <1>1, <2>1, BackstopSteps DEF BoundaryInv
<1> QED
  BY <1>1, PlainSteps, LayoutSteps DEF BoundaryInv, StageStep, ShapeStep, ValueStep

\* What is known of the core and told to the caller keep their types.
LEMMA KnownAndTold ==
  ASSUME BoundaryInv, StageStep
  PROVE  known' \in UNION {[D -> Verdicts] : D \in SUBSET Serialized} /\ told' \in Nat
<1>1. CASE ScanPart
  <2>1. crossing.at = "backstop"
    BY <1>1 DEF ScanPart, At
  <2>2. crossing.next \in 1 .. Len(crossing.parts) /\ crossing.parts \in Seq(Serialized)
    BY <2>1 DEF BoundaryInv, Backstop, Looping, InLoop, BoundaryTypeOK, Crossing
  <2>3. Part \in Serialized
    BY <2>2 DEF Part
  <2>4. CASE UNCHANGED <<known, told>>
    BY <2>4 DEF BoundaryInv, BoundaryTypeOK
  <2>5. CASE ~UNCHANGED <<known, told>>
    <3>1. PICK v \in VerdictsOn(Part) :
            /\ known' = [p \in DOMAIN known \cup {Part} |-> IF p = Part THEN v ELSE known[p]]
            /\ told' = IF v = "clean" THEN told ELSE told + 1
      BY <1>1, <2>5 DEF ScanPart
    <3>2. v \in Verdicts
      BY <2>3, <3>1 DEF VerdictsOn, BoundaryInv, BoundaryTypeOK
    <3>3. told' \in Nat
      BY <3>1 DEF BoundaryInv, BoundaryTypeOK
    <3> QED
      BY <2>3, <3>1, <3>2, <3>3, KnownType DEF BoundaryInv
  <2> QED
    BY <2>4, <2>5
<1>2. CASE ~ScanPart
  <2>1. UNCHANGED <<known, told>>
    BY <1>2 DEF StageStep, HandlerThrows, HandlerReturns, Stream, ShapeStep, ValueStep, BackstopStep,
                ReadArguments, ReadResult, PrepareBlock, BlockFails, BlocksEnd, BeginValue, ValueFails,
                ValueEnds, SkipPart, PartFails, EndPart
  <2> QED
    BY <2>1 DEF BoundaryInv, BoundaryTypeOK
<1> QED
  BY <1>1, <1>2

\* A step inside a stage keeps the invariant.
LEMMA StageInv ==
  ASSUME BoundaryInv, StageStep
  PROVE  BoundaryInv'
<1>1. Moves \/ Concludes
  BY StageSteps
<1>2. BoundaryTypeOK'
  <2>1. CASE Moves
    BY <2>1, KnownAndTold DEF Moves, trailVars, BoundaryInv, BoundaryTypeOK
  <2>2. CASE Concludes
    <3>1. crossing' \in Crossing /\ audits' \in Seq(AuditRecord) /\ answer' \in Answer
      BY <2>2, ConcludeType DEF Concludes, BoundaryInv
    <3> QED
      BY <2>2, <3>1, KnownAndTold DEF Concludes, BoundaryInv, BoundaryTypeOK
  <2> QED
    BY <1>1, <2>1, <2>2
<1>3. Trail'
  BY <1>1, MovesTrail, ConcludesTrail DEF BoundaryInv
<1>4. Backstop'
  BY PlainBackstop, SkipAndEnd, ScanBackstop, LayoutBackstop
     DEF BoundaryInv, StageStep, ShapeStep, ValueStep, BackstopStep
<1>5. Payloads'
  <2>1. CASE PrepareBlock
    BY <2>1, PreparePayloads DEF BoundaryInv
  <2>2. CASE ~PrepareBlock
    BY <1>1, <2>2, BlocksStay, MovesPayloads, ConcludePayloads DEF BoundaryInv, Concludes
  <2> QED
    BY <2>1, <2>2
<1> QED
  BY <1>2, <1>3, <1>4, <1>5 DEF BoundaryInv

\* An empty sequence has no elements.
LEMMA NoneInEmpty ==
  ASSUME NEW s, s = <<>>
  PROVE  \A i \in DOMAIN s : FALSE
  OBVIOUS

\* A new crossing keeps the backstop's facts and the payloads'.
LEMMA NewKeeps ==
  ASSUME NEW which \in Kinds, NEW asks \in BOOLEAN, NEW at \in Places \ {"backstop", "in part", "answered"},
         NEW stage \in {"arguments", "result", "resource"},
         crossing' = NewCrossing(which, asks, at, stage), told' = 0,
         at = "invoke" => audits' = <<>>,
         answer' = [is |-> "none", blocks |-> <<>>]
  PROVE  Backstop' /\ Payloads'
<1>1. crossing'.at = at /\ crossing'.parts = <<>> /\ crossing'.next = 1 /\ crossing'.clean = {} /\ crossing'.blocks = <<>>
  BY DEF NewCrossing
<1>2. Backstop'
  BY <1>1 DEF Backstop, Fresh, Looping, Delivered, SanitizedOk
<1>a. answer'.is = "none" /\ answer'.blocks = <<>>
  OBVIOUS
<1>b. \A i \in DOMAIN crossing'.blocks : FALSE
  BY <1>1, NoneInEmpty
<1>3. answer'.is = "none" /\ answer'.blocks = <<>> /\ \A i \in DOMAIN crossing'.blocks : FALSE
  BY <1>a, <1>b
<1>4. Payloads'
  BY <1>1, <1>3 DEF Payloads
<1> QED
  BY <1>2, <1>4

\* The start of a crossing keeps the invariant.
LEMMA StartInv ==
  ASSUME BoundaryInv, NEW which \in Kinds, NEW asks \in BOOLEAN, StartCrossing(which, asks)
  PROVE  BoundaryInv'
<1> DEFINE at == IF asks \/ which = "toolArguments" THEN "arguments" ELSE IF which \in Invokes THEN "invoke" ELSE "result"
           stage == IF asks \/ which = "toolArguments" THEN "arguments" ELSE StageOf(which)
<1>1. crossing' = NewCrossing(which, asks, at, stage)
  BY DEF StartCrossing
<1>2. at \in Places \ {"backstop", "in part", "answered"} /\ stage \in {"arguments", "result", "resource"}
  BY StageAndWire DEF Places
<1>3. /\ told' = 0 /\ audits' = <<>> /\ answer' = [is |-> "none", blocks |-> <<>>]
      /\ UNCHANGED <<mode, known, told, audits, handed, answer>> /\ aborted' \in BOOLEAN
  BY DEF StartCrossing, At, BoundaryInv, BoundaryTypeOK, Trail, Backstop, Fresh, Payloads
<1> HIDE DEF at, stage
<1>4. crossing' \in Crossing
  BY <1>1, <1>2, NewCrossingType
<1>5. BoundaryTypeOK'
  BY <1>3, <1>4 DEF BoundaryInv, BoundaryTypeOK
<1>6. Backstop' /\ Payloads'
  BY <1>1, <1>2, <1>3, NewKeeps
<1> QED
  BY <1>5, <1>6, StartTrail DEF BoundaryInv

\* The call of the host's function keeps the invariant.
LEMMA InvokeInv ==
  ASSUME BoundaryInv, Invoke
  PROVE  BoundaryInv'
<1> DEFINE stage == StageOf(crossing.kind)
           begun == NewCrossing(crossing.kind, crossing.asks, "awaiting", stage)
<1>1. /\ crossing.kind \in Kinds /\ crossing.asks \in BOOLEAN /\ stage \in {"result", "resource"}
      /\ "awaiting" \in Places
  BY StageAndWire DEF BoundaryInv, BoundaryTypeOK, Crossing, Places
<1>2. begun \in Crossing
  BY <1>1, NewCrossingType
<1>3. UNCHANGED <<mode, known, aborted>> /\ told' = 0
  BY DEF Invoke
<1>4. answer = [is |-> "none", blocks |-> <<>>]
  BY DEF Invoke, At, BoundaryInv, Payloads
<1>5. CASE crossing' = begun /\ handed' = Forwarded /\ UNCHANGED <<audits, answer>>
  <2>1. BoundaryTypeOK'
    BY <1>2, <1>3, <1>5 DEF BoundaryInv, BoundaryTypeOK, Forwarded
  <2>2. Backstop' /\ Payloads'
    <3>1. "awaiting" \in Places \ {"backstop", "in part", "answered"} /\ stage \in {"arguments", "result", "resource"}
      BY <1>1
    <3>2. answer' = [is |-> "none", blocks |-> <<>>]
      BY <1>4, <1>5
    <3> HIDE DEF stage
    <3> QED
      BY <1>1, <1>3, <1>5, <3>1, <3>2, NewKeeps
  <2> QED
    BY <2>1, <2>2, InvokeTrail DEF BoundaryInv
<1>6. ASSUME NEW outcome \in {"aborted", "error"},
             audits' = audits \o AuditRecords(stage, outcome),
             crossing' = [begun EXCEPT !.at = "answered"],
             answer' = [is |-> Wire(crossing.kind, outcome), blocks |-> <<>>],
             UNCHANGED handed
      PROVE  BoundaryInv'
  <2>0. outcome \in Outcomes /\ outcome # "ok"
    BY <1>6, OutcomesAre
  <2>1. [stage |-> stage, outcome |-> outcome] \in AuditRecord
    BY <1>1, <2>0 DEF AuditRecord
  <2>2. audits \in Seq(AuditRecord) /\ audits' = audits \o <<[stage |-> stage, outcome |-> outcome]>>
    BY <1>6 DEF AuditRecords, BoundaryInv, BoundaryTypeOK
  <2>3. audits' \in Seq(AuditRecord) /\ Last(audits').outcome = outcome
    <3> DEFINE r == [stage |-> stage, outcome |-> outcome]
    <3>1. r \in AuditRecord /\ r.outcome = outcome /\ audits' = audits \o <<r>>
      BY <2>1, <2>2
    <3> HIDE DEF r
    <3> QED
      BY <2>2, <3>1, LastAppended
  <2>4. crossing' \in Crossing
    BY <1>2, <1>6 DEF Crossing, Places
  <2>5. Wire(crossing.kind, outcome) \in Answers \ {"value"}
    BY <1>1, <2>0, StageAndWire
  <2>6. answer' \in Answer
    BY <1>6, <2>5 DEF Answer
  <2>7. BoundaryTypeOK'
    BY <1>3, <1>6, <2>3, <2>4, <2>6 DEF BoundaryInv, BoundaryTypeOK
  <2>8. crossing'.at = "answered" /\ crossing'.blocks = <<>>
    BY <1>6 DEF NewCrossing
  <2>9. Backstop' /\ Payloads'
    BY <1>6, <2>0, <2>3, <2>5, <2>8 DEF Backstop, Fresh, Looping, Delivered, SanitizedOk, Payloads
  <2> QED
    BY <2>7, <2>9, InvokeTrail DEF BoundaryInv
<1> QED
  BY <1>5, <1>6 DEF Invoke

\* A cancellation keeps it.
LEMMA CancelInv ==
  ASSUME BoundaryInv, Cancel
  PROVE  BoundaryInv'
<1>1. UNCHANGED <<mode, crossing, known, told, audits, handed, answer>> /\ aborted' \in BOOLEAN
  BY DEF Cancel
<1>2. BoundaryTypeOK'
  BY <1>1 DEF BoundaryInv, BoundaryTypeOK
<1>3. Trail'
  BY <1>1 DEF BoundaryInv, Trail, Working, AuditedAsAnswered
<1>4. Backstop'
  BY <1>1 DEF BoundaryInv, Backstop, Fresh, Looping, InLoop, PassedUpTo, Reported, PartCount, Part,
              Delivered, SanitizedOk, PartsPassed
<1>5. Payloads'
  BY <1>1 DEF BoundaryInv, Payloads
<1> QED
  BY <1>2, <1>3, <1>4, <1>5 DEF BoundaryInv

\* At the start nothing has happened.
LEMMA InitInv ==
  ASSUME BoundaryInit
  PROVE  BoundaryInv
<1>1. crossing = NewCrossing("toolResult", FALSE, "idle", "result")
  BY DEF BoundaryInit
<1>2. "toolResult" \in Kinds /\ "idle" \in Places /\ FALSE \in BOOLEAN
  BY DEF Kinds, Places
<1>3. crossing \in Crossing
  BY <1>1, <1>2, NewCrossingType
<1>4. known \in [{} -> Verdicts] /\ {} \in SUBSET Serialized
  BY DEF BoundaryInit
<1>5. <<>> \in Seq(AuditRecord) /\ <<>> \in Seq(Block)
  OBVIOUS
<1>6. BoundaryTypeOK
  BY <1>3, <1>4, <1>5 DEF BoundaryInit, BoundaryTypeOK, Answer, Answers
<1>7. crossing.at = "idle" /\ crossing.parts = <<>> /\ crossing.next = 1 /\ crossing.clean = {} /\ crossing.blocks = <<>>
  BY <1>1 DEF NewCrossing
<1>8. Trail
  BY <1>7 DEF BoundaryInit, Trail, Working, AuditedAsAnswered
<1>9. Backstop
  BY <1>7 DEF BoundaryInit, Backstop, Fresh, Looping, Delivered, SanitizedOk
<1>a. answer.is = "none" /\ answer.blocks = <<>>
  BY DEF BoundaryInit
<1>b. \A i \in DOMAIN crossing.blocks : FALSE
  BY <1>7
<1>10. answer = [is |-> "none", blocks |-> <<>>]
  BY DEF BoundaryInit
<1>11. Payloads
  BY <1>7, <1>10, <1>a, <1>b DEF Payloads
<1> QED
  BY <1>6, <1>8, <1>9, <1>11 DEF BoundaryInv

\* Every step is one of these, or changes nothing.
LEMMA StepForms ==
  ASSUME [BoundaryNext]_boundaryVars
  PROVE  Begins \/ StageStep \/ Cancel \/ UNCHANGED boundaryVars
  BY DEF BoundaryNext, HandlerStep, Begins, StageStep

\* The invariant is kept by every step.
LEMMA NextInv ==
  ASSUME BoundaryInv, [BoundaryNext]_boundaryVars
  PROVE  BoundaryInv'
<1>1. CASE UNCHANGED boundaryVars
  <2>1. BoundaryTypeOK'
    BY <1>1 DEF boundaryVars, BoundaryInv, BoundaryTypeOK
  <2>2. Trail'
    BY <1>1 DEF boundaryVars, BoundaryInv, Trail, Working, AuditedAsAnswered
  <2>3. Backstop'
    BY <1>1 DEF boundaryVars, BoundaryInv, Backstop, Fresh, Looping, InLoop, PassedUpTo, Reported,
                PartCount, Part, Delivered, SanitizedOk, PartsPassed
  <2>4. Payloads'
    BY <1>1 DEF boundaryVars, BoundaryInv, Payloads
  <2> QED
    BY <2>1, <2>2, <2>3, <2>4 DEF BoundaryInv
<1> QED
  BY <1>1, StepForms, StartInv, InvokeInv, StageInv, CancelInv DEF Begins

LEMMA BoundaryInvariant == BoundarySpec => []BoundaryInv
<1>1. BoundaryInit => BoundaryInv
  BY InitInv
<1>2. BoundaryInv /\ [BoundaryNext]_boundaryVars => BoundaryInv'
  BY NextInv
<1> QED
  BY <1>1, <1>2, PTL DEF BoundarySpec

-----------------------------------------------------------------------------
(* The theorems.                                                           *)

\* Every variable stays in its type.
THEOREM BoundaryTypes == BoundarySpec => []BoundaryTypeOK
<1>1. BoundaryInv => BoundaryTypeOK
  BY DEF BoundaryInv
<1> QED
  BY <1>1, BoundaryInvariant, PTL

\* The audit trail of every crossing tells what happened in it.
THEOREM AuditsTellWhatHappened == BoundarySpec => []AuditedAsAnswered
<1>1. BoundaryInv => AuditedAsAnswered
  BY DEF BoundaryInv, Trail
<1> QED
  BY <1>1, BoundaryInvariant, PTL

\* What the boundary delivers has passed the backstop whole, however many
\* blocks it has, and each payload is in the block it came from.
THEOREM DeliveredHasPassed == BoundarySpec => []DeliveredPassed
<1>1. ASSUME BoundaryInv
      PROVE  DeliveredPassed
  <2>1. PassedBackstop
    BY <1>1 DEF BoundaryInv, Backstop, Delivered, PassedBackstop, PartsPassed, PassedUpTo, PartCount,
                BoundaryTypeOK, Crossing
  <2>2. ASSUME SanitizedOk
        PROVE  told = Cardinality({i \in DOMAIN crossing.parts : known[crossing.parts[i]] # "clean"})
    <3>1. PartsPassed
      BY <1>1, <2>2 DEF BoundaryInv, Backstop, Delivered
    <3>2. CASE crossing.parts = <<>> /\ told = 0
      <4>1. {i \in DOMAIN crossing.parts : known[crossing.parts[i]] # "clean"} = {}
        BY <3>2
      <4> QED
        BY <3>2, <4>1, FS_EmptySet
    <3>3. CASE told = Cardinality(Reported(Len(crossing.parts)))
      <4>1. DOMAIN crossing.parts = 1 .. Len(crossing.parts)
        BY <1>1 DEF BoundaryInv, BoundaryTypeOK, Crossing
      <4> QED
        BY <3>3, <4>1 DEF Reported
    <3> QED
      BY <3>1, <3>2, <3>3 DEF PartsPassed
  <2>3. ReportedPerPart
    BY <2>2 DEF ReportedPerPart
  <2>4. PayloadsAreTheirs
    <3>1. crossing.at = "answered" \/ answer.blocks = <<>>
      BY <1>1 DEF BoundaryInv, Payloads
    <3>2. answer.blocks = <<>> \/ answer.blocks = crossing.blocks
      BY <1>1, <3>1 DEF BoundaryInv, Payloads
    <3>3. mode = "block" => \A i \in DOMAIN answer.blocks : answer.blocks[i].payload = 0
      BY <1>1, <3>2 DEF BoundaryInv, Payloads
    <3> QED
      BY <1>1, <3>3 DEF PayloadsAreTheirs, BoundaryInv, Payloads
  <2> QED
    BY <2>1, <2>3, <2>4 DEF DeliveredPassed
<1> QED
  BY <1>1, BoundaryInvariant, PTL

\* Only the call of the host's function hands it anything, once the arguments
\* were let through.
LEMMA HandsOnce ==
  ASSUME BoundaryInv, [BoundaryNext]_boundaryVars, handed' # handed
  PROVE  /\ handed = "none" /\ ~aborted
         /\ crossing.asks => ArgumentsPassed /\ handed' = "sanitized"
<1>1. StageStep => handed' = handed
  BY StageSteps DEF Moves, Concludes, trailVars
<1>2. Invoke
  BY <1>1, StepForms DEF Begins, StartCrossing, Cancel, boundaryVars
<1>3. ~aborted /\ handed' = Forwarded
  BY <1>2 DEF Invoke
<1>4. handed = "none" /\ audits = Kept(crossing.asks)
  BY <1>2 DEF Invoke, At, BoundaryInv, Trail
<1>5. crossing.asks => audits # <<>> /\ Head(audits) = PassedArguments
  BY <1>4 DEF Kept
<1> QED
  BY <1>3, <1>4, <1>5 DEF Forwarded, ArgumentsPassed, PassedArguments

\* A value is answered by the end of a stage alone.
LEMMA AnswersUncancelled ==
  ASSUME BoundaryInv, [BoundaryNext]_boundaryVars, answer'.is = "value", answer.is # "value"
  PROVE  ~aborted \/ crossing.kind = "streamHandler"
<1>1. crossing.kind \in Kinds
  BY DEF BoundaryInv, BoundaryTypeOK, Crossing
<1>2. ~Invoke
  <2>1. Invoke => answer' = answer \/ answer'.is \in {Wire(crossing.kind, "aborted"), Wire(crossing.kind, "error")}
    BY DEF Invoke
  <2>2. Wire(crossing.kind, "aborted") # "value" /\ Wire(crossing.kind, "error") # "value"
    BY <1>1, OutcomesAre, StageAndWire
  <2> QED
    BY <2>1, <2>2
<1>3. Concludes
  BY <1>2, StepForms, StageSteps DEF Begins, StartCrossing, Cancel, boundaryVars, Moves, trailVars
<1>4. PICK outcome \in Outcomes : Conclude(outcome) /\ (outcome = "ok" => ~aborted \/ crossing.at = "streaming")
  BY <1>3 DEF Concludes
<1>5. answer'.is = Wire(crossing.kind, outcome)
  BY <1>4 DEF Conclude
<1>6. outcome = "ok"
  BY <1>1, <1>4, <1>5, StageAndWire
<1> QED
  BY <1>4, <1>6 DEF BoundaryInv, Trail

\* No handler runs past a refusal or a cancellation, and no value is answered
\* past one.
THEOREM NoStepPastARefusal == BoundarySpec => NothingPastARefusal
<1>1. BoundaryInv /\ [BoundaryNext]_boundaryVars =>
        [handed' # handed =>
           /\ handed = "none" /\ ~aborted
           /\ crossing.asks => ArgumentsPassed /\ handed' = "sanitized"]_boundaryVars
  BY HandsOnce
<1>2. BoundaryInv /\ [BoundaryNext]_boundaryVars =>
        [answer'.is = "value" /\ answer.is # "value" =>
           ~aborted \/ crossing.kind = "streamHandler"]_boundaryVars
  BY AnswersUncancelled
<1> QED
  BY <1>1, <1>2, BoundaryInvariant, PTL DEF BoundarySpec, NothingPastARefusal, HandlerRunsCleared, ValueIsNotCancelled
===============================================================================
