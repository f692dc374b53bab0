CONSTANTS
  Byte = 2
  Half = 4
  Word = 8
  Entries <- MCEntries
  SpecTypes <- MCTypes
  Depth = 5
  MaxBytes = 2
  TextRank <- MCTextRank
  LongTexts <- MCLongTexts
  Decimal <- MCDecimal
  Aliases <- MCAliases
  HexTexts <- MCHexTexts
  HexOf <- MCHexOf
  Strkeys <- MCStrkeys
  Inputs <- MCInputs
  Outputs <- MCOutputs
SPECIFICATION Spec
INVARIANTS NumbersInRangeAreTaken
