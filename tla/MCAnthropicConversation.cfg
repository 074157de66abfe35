\* Five places for images, one of them the margin, and five bytes: a slab, a
\* collapse and two results together go over both.  Five messages are three
\* turns of the user: pins, a listing and a number that refers to it.
CONSTANTS
  PinTexts <- MCPinTexts
  Begins <- MCBegins
  Length <- MCLength
  PinMax = 2
  PinTotalMax = 3
  MaxImages = 5
  SafetyMargin = 1
  HistoryImages = 2
  MaxBytes = 5
  Renderings <- MCRenderings
  Systems <- MCSystems
  Tools <- MCTools
  Turns <- MCTurns
  Answers <- MCAnswers
  MaxTurns = 5
SPECIFICATION ConversationSpec
INVARIANTS
  ImagesAccounted
  MarkersBounded
  
  UnpinHitsListed
  StripRepeats
\* The conversation ends at MaxTurns.
CHECK_DEADLOCK FALSE
