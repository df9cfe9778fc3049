CONSTANTS
  Layout <- Rows
  Norm <- Lower
  Taxonomy <- Concepts
  Revenue = "pnl.revenue"
  GmvConcept = "pnl.gmv"
  GmvLabel = "gmv"
  Unknown = "unknown"
  None = "none"
  NoFile = NoFile
  BangSheets = {"c!"}
  Ranking <- Similar
  Confident <- Sure
  TopK = 2
  EarlierGlossaries <- Earlier
  Identities <- Rules
  FirstCell <- Title
  Findings <- Outliers
  StaleAnswers = FALSE
  MaxElsewhere = 1
CHECK_DEADLOCK FALSE
SPECIFICATION FairSpec
INVARIANTS TypeOK GmvNotRevenue AnswersHonoured AnswersMeanTheirRows NoQuestionLost
PROPERTIES QuestionsRunOut
