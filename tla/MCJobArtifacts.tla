--------------------------- MODULE MCJobArtifacts ---------------------------
(* Constant values for checking JobArtifacts on small instances.           *)
EXTENDS JobArtifacts

CONSTANTS j1, j2, part, final, relabelled, dossier, evidence

RoleOf(d) == CASE d = part -> "partial" [] d = final -> "final" [] d = relabelled -> "ended"
               [] d = dossier -> "dossier" [] d = evidence -> "evidence"

\* One partial result, what its end hook makes of it, and one final result.
Comparison == {part, final, relabelled}
ComparisonRole == [d \in Comparison |-> RoleOf(d)]
Relabel == [d \in Comparison |-> relabelled]

\* What a release build registers while it runs.
Release == {dossier, evidence}
ReleaseRole == [d \in Release |-> RoleOf(d)]
NoEnded == [d \in Release |-> d]

\* Only a final result.
Build == {final}
BuildRole == [d \in Build |-> RoleOf(d)]
NoRelabel == [d \in Build |-> d]
TwoAttempts == [j \in {j1} |-> 2]
TwoAndNone == [j \in {j1, j2} |-> IF j = j1 THEN 2 ELSE 0]
TwoAndOne == [j \in {j1, j2} |-> IF j = j1 THEN 2 ELSE 1]
=============================================================================
