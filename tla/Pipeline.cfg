CONSTANTS
  Requests = {r1, r2}
  MaxAnswers = 2
  RestartKinds = {"stop", "kill", "pod"}
  MaxRestarts = 1
  MayFail = TRUE
CHECK_DEADLOCK FALSE
SPECIFICATION FairSpec
INVARIANTS TypeOK CommitMarker OneEdition AnswersUsed
PROPERTIES StageKept JobFinishes KeepsPromise
