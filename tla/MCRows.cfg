SPECIFICATION Spec
CONSTANTS
  Samples <- MCSamples
  SortKeys = {"Rate", "Name"}
  Texts <- MCTexts
  NameCols = 3
  Chars <- MCChars
  LowerOf <- MCLowerOf
  Cased <- MCCased
  Ignorable <- MCIgnorable
  WidthOf <- MCWidthOf
  Emoji <- MCEmoji
  Textual <- MCTextual
  Joined <- MCJoined
CHECK_DEADLOCK FALSE
INVARIANTS FlowsBelong ColumnsLineUp
PROPERTIES PlacesAreKept FilterNarrows
