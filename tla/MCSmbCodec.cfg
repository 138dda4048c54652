CONSTANTS
  None = None
  Texts <- MCTexts
  Lists <- MCLists
  Sizes <- MCSizes
  Responses <- MCResponses
  Dialects = {1, 2, 4, 5}
SPECIFICATION CodecSpec
INVARIANTS
  ReadsInBounds
  RepliesComeBack
  RequestsArrive
