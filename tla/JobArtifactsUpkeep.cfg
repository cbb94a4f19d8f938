\* A release build that may fail and be tried again, under recurring maintenance.
SPECIFICATION FairSpec
CONSTANTS
  j1 = j1  j2 = j2  part = part  final = final  relabelled = relabelled
  dossier = dossier  evidence = evidence
  NoDigest = NoDigest  NoJob = NoJob
  Job = {j1}
  Digest <- Release
  Role <- ReleaseRole
  EndedOf <- NoEnded
  Losable = {dossier, evidence}
  MaxFence <- TwoAttempts
  ListLimit = 1
  MaxPublishing = 1
PROPERTIES AnswersBegin DanglingNoticed EndedReclaimed
