\* Two jobs of one key with partial and final results beside maintenance.
SPECIFICATION Spec
CONSTANTS
  j1 = j1  j2 = j2  part = part  final = final  relabelled = relabelled
  dossier = dossier  evidence = evidence
  NoDigest = NoDigest  NoJob = NoJob
  Job = {j1, j2}
  Digest <- Comparison
  Role <- ComparisonRole
  EndedOf <- Relabel
  Losable = {final}
  MaxFence <- TwoAndNone
  ListLimit = 3
  MaxPublishing = 1
INVARIANTS TypeOK
PROPERTIES UnfencedOnlyEnded CollectsGarbage
