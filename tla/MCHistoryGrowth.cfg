\* Protected = 1, MinPrefix = 2, KeepTail = 1: a conversation of four messages
\* collapses, one of eight in six chunks, up to three steps of the grid.
\* Turns of length 2 are long; a page holds two short messages.  With
\* CollapseChunk = 1 the cutoff takes every value.
CONSTANTS
  t1 = t1
  ToolIds = {t1}
  Lengths = {1, 2}
  TypedMax = 1
  Budgets = {3}
  KeepTail = 1
  MinPrefix = 2
  CollapseChunk = 1
  FreezeChunk = 1
  Protected = 1
  PageChars = 2
  MaxLen = 8
SPECIFICATION GrowthSpec
INVARIANTS
  CutIsClosed
  
PROPERTIES
  ImagesBuildUp
  CarryOverRepeats
\* The conversation ends at MaxLen.
CHECK_DEADLOCK FALSE
