---------------------------- MODULE StagedRelease ----------------------------
(***************************************************************************)
(* What a staged stream promises its caller, and nothing about how: the    *)
(* pieces the scanner clears are taken in the order it cleared them, no    *)
(* piece is seen outside before the one release, the release hands over    *)
(* all of them, and a refused stream never releases anything.              *)
(***************************************************************************)
EXTENDS Naturals, Sequences

VARIABLES
  phase,    \* "open", then "released" or "refused", for good
  content,  \* the pieces taken and not yet released, while open
  output    \* what the caller has been given

stagedVars == <<phase, content, output>>

StagedInit == phase = "open" /\ content = <<>> /\ output = <<>>

\* The next piece in scan order is taken.  Pieces are numbered as scanned.
Take ==
  /\ phase = "open"
  /\ content' = Append(content, Len(content) + 1)
  /\ UNCHANGED <<phase, output>>

Refuse ==
  /\ phase = "open"
  /\ phase' = "refused"
  /\ content' = <<>>
  /\ UNCHANGED output

\* The one release.  The call that asks for it may bring a last piece.
Release ==
  /\ phase = "open"
  /\ phase' = "released"
  /\ output' \in {content, Append(content, Len(content) + 1)}
  /\ content' = <<>>

StagedNext == Take \/ Refuse \/ Release

StagedSpec == StagedInit /\ [][StagedNext]_stagedVars
==============================================================================
