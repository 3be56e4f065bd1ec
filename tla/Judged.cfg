\* A shingle of three words, a threshold of a third, the settings' thresholds for scores.
SPECIFICATION JudgementSpec
CONSTANTS
  a = a
  b = b
  x = x
  NaN = NaN
  Words = {a, b, x}
  Texts <- MCTexts
  Sent <- MCSent
  N = 3
  Recent = 2
  Threshold <- MCThird
  Attempts = 3
  One = 10000
  Bodies <- MCBodies
  Titles <- MCTitles
  RawScores <- MCRawScores
  Forbidden = {x}
  MinSentences = 2
  MaxSentences = 2
  MaxLength = 5
  Relevance = 6000
  Confidence = 7500
  AutoApprove = TRUE
INVARIANTS VerdictIsRight RatingIsSound ApprovedIsFit
CHECK_DEADLOCK FALSE
