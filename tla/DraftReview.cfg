SPECIFICATION Spec
CONSTANTS
  NoText = NoText
  Requests <- MCRequests
  Pairs <- MCPairs
  Paper <- MCPaper
  RefOf <- MCRefOf
  MaxAnalyses = 2
  MaxRecommends = 2
INVARIANTS
  TypeOK
  CitedIffAccepted
  TextsAgree
CHECK_DEADLOCK FALSE
