\* Two jobs that build the same content, whose file is lost in between.
SPECIFICATION Spec
CONSTANTS
  j1 = j1  j2 = j2  part = part  final = final  relabelled = relabelled
  dossier = dossier  evidence = evidence
  NoDigest = NoDigest  NoJob = NoJob
  Job = {j1, j2}
  Digest <- Build
  Role <- BuildRole
  EndedOf <- NoRelabel
  Losable = {final}
  MaxFence <- TwoAndOne
  ListLimit = 3
  MaxPublishing = 1
PROPERTIES CompletionAnswers
