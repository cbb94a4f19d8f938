\* A file that is reused while the collector looks at it.
SPECIFICATION Spec
CONSTANTS
  j1 = j1  j2 = j2  part = part  final = final  relabelled = relabelled
  dossier = dossier  evidence = evidence
  NoDigest = NoDigest  NoJob = NoJob
  Job = {j1, j2}
  Digest <- Build
  Role <- BuildRole
  EndedOf <- NoRelabel
  Losable = {}
  MaxFence <- TwoAndOne
  ListLimit = 3
  MaxPublishing = 1
PROPERTIES ReuseRestartsGrace
