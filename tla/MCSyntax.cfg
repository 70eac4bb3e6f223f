SPECIFICATION Spec
CONSTANTS
  Letters <- MCLetters
  Digits <- MCDigits
  NAME_LEN = 4
  MAX_PARAMS = 1
  Chars <- MCChars
  MaxChars = 4
  Words <- MCWords
  MaxWords = 7
CONSTRAINT Viable
CHECK_DEADLOCK FALSE
INVARIANTS
  TokensCoverTheText
  BlanksCarryNoMeaning
  WrittenTreesParseBack
  OnlyMessageCallsHang
  LinesStandAlone
  StringsComeApartAndTogether
