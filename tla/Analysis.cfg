CONSTANTS
  BaseKeys <- MCBaseKeys
  StressKeys <- MCStressKeys
  UnusedCap = 3
  MaxConclusions = 8
  Books <- MCBooks
  Agreeing <- MCAgreeing
  Deltas <- MCDeltas
  Grains = {4, 12}
  MaxRevisions = 1
SPECIFICATION Spec
CHECK_DEADLOCK FALSE
INVARIANTS AgreeingAccountsPass EditsExplained EditsCaught GrainKeepsIdentities GrainKeepsControls BetterNeverFlags FindingsConcluded HardcodesCaught
