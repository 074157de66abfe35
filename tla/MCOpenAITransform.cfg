CONSTANTS
  t1 = t1
  t2 = t2
  NoId = NoId
  ToolIds = {t1, t2}
  Protocols = {"chat", "pairs", "mixed"}
  Sizes = {1, 2}
  Slabs = {0, 1}
  Gates = {1, 3}
  KeepTail = 1
  Recent = {0, 1}
  MinCollapsePrefix = 1
  MinCollapseTokens = 2
  CollapseChunk = 1
  FreezeChunk = 1
  SectionTokens = 3
  MaxImages = 3
  ProviderImageCap = 3
  PageTokens = 2
  MaxChat = 7
  MaxInput = 5
SPECIFICATION OpenAISpec
SYMMETRY Renamings
INVARIANTS
  CallsKeepResults
  NothingLost
  ImagesAllowed
PROPERTIES
  SectionsRepeat
\* The conversation ends at MaxChat or MaxInput messages.
CHECK_DEADLOCK FALSE
