SPECIFICATION FairSpec
CONSTANTS
  Jobs <- MCJobs
  MaxAttempts = 2
  Spacing = 1
  BaseDelay = 1
  MaxBackoff = 2
  HasGemini = TRUE
  MaxFaults = 2
  Scenarios <- MCScenarios
  Threads = 2
  BatchSize = 2
  Answers <- MCAnswers
  Judgements <- MCJudgements
  FirstAbstracts <- MCAbstracts
  References <- MCReferences
  Embedded <- MCReferences
  Indexed <- MCIndexed
  RecentEnough <- MCReferences
  Semantic <- MCSemantic
  Bm25 <- MCBm25
  CrossEncoder <- MCCrossEncoder
  ClaimTokens <- MCClaimTokens
  ReferenceTokens <- MCReferenceTokens
  RetrievalLimit = 3
  RerankLimit = 3
  RetrieveClaimLimit = 2
  VerifyClaimLimit = 2
  VerifyLimit = 2
  GoalKeywords <- MCGoalKeywords
  NameOf <- MCNameOf
  Length <- MCLength
  Generic <- MCGeneric
  MaxKeywords = 2
INVARIANTS
  TypeOK
  RequestsBounded
  StartsApart
  DecisionsOnTheirSentence
  ClaimsAreComplete
  RerunRepeats
  VerdictsOnTheirPair
  RanksAreSound
  NoFalseSupport
  ShortlistIsBest
  SdgIsGrounded
PROPERTIES
  PoolDrains
CHECK_DEADLOCK FALSE
