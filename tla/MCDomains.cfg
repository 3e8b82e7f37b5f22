SPECIFICATION Spec
CONSTANTS
  Letters <- MCLetters
  MaxLabel = 3
  FileLimit = 7
  Texts <- MCTexts
INVARIANTS
  TypeOK
  NamesRead
  RejectsFirstIllFormed
  NamesFitButForOneByte
CHECK_DEADLOCK FALSE
