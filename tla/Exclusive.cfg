CONSTANTS
  u1 = u1
  Audits = {a1}
  Actors = {u1}
  OwnerOf <- MCOwnerOf
  Workers = {w1, w2, w3}
  Requests = {r1}
  Boot = Boot
  NoAudit = NoAudit
  NoMsg = NoMsg
  MaxRun = 2
  MaxMsgs = 2
  MinIdle = 2
  LockTtl = 4
  RestartKinds = {"stop", "kill"}
  MaxRestarts = 1
  Sweeping = FALSE
  Outcomes = {"questions"}
  RunsMayFail = FALSE
  BeatMayFail = FALSE
  MaxFaults = 1
SPECIFICATION Spec
INVARIANTS TypeOK ExclusiveRun LockHeld RunSlotRespected
SYMMETRY Symmetry
