SPECIFICATION Spec
CONSTANTS
  EOF = EOF
  NULL = NULL
  Char <- MCChar
  Rare <- MCRare
  Saved <- MCSaved
  Texts <- MCTexts
  MaxDepth = 4
  UcsDigits = 2
  FractionDigits = 1
  MaxText = 7
  MaxRare = 2
  MaxString = 1
INVARIANTS
  ReadsTheGrammar
  PrintedIsReadBack
  RefsCounted
