CONSTANTS
  u1 = u1
  Audits = {a1, a2}
  Actors = {u1}
  OwnerOf <- MCOwnerOf
  Workers = {w1}
  Requests = {r1}
  Boot = Boot
  NoAudit = NoAudit
  NoMsg = NoMsg
  MaxRun = 1
  MaxMsgs = 3
  MinIdle = 2
  LockTtl = 4
  RestartKinds = {"stop", "pod"}
  MaxRestarts = 2
  Sweeping = FALSE
  Outcomes = {"clean"}
  RunsMayFail = FALSE
  BeatMayFail = FALSE
  MaxFaults = 0
SPECIFICATION FairSpec
INVARIANT WorkNotLost
PROPERTIES UploadServed JobsEnd
