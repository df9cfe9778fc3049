CONSTANTS
  Audits = {a1, a2}
  Nobody = Nobody
  MaxEmbed = 2
  MaxLlm = 1
  EmbedBudget = 1
  LlmBudget = 1
  MaxRows = 1
  MaxAgain = 1
  HitKinds = {"kill", "fault"}
  MaxHits = 1
CHECK_DEADLOCK FALSE
SPECIFICATION FairSpec
INVARIANTS TypeOK BudgetPerRun PortCapRespected VectorsOnce
PROPERTIES SlotsReturned RunsEnd
