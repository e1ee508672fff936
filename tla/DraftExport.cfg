SPECIFICATION Spec
CONSTANTS
  Files <- MCFiles
  Paper <- MCPaper
  FamilyNames <- MCFamilyNames
  GivenNames <- MCGivenNames
  Formats = {"docx", "md", "json"}
  Modes = {"tracked_changes", "direct", "placeholder"}
  MaxAccepted = 2
INVARIANTS
  TypeOK
  OffsetsAreExact
  CitationsInPlace
  PlainParagraphsGetTheirs
  OneOutcomeEach
  MarkdownAgrees
  ListedAsCited
  CitationsIdentify
  
CHECK_DEADLOCK FALSE
