SPECIFICATION Spec
CONSTANTS
  MaxInt = 50
  Exports <- MCExports
  Texts <- MCTexts
  MaxFailures = 1
  MaxSaves = 1
  MCLength = 1
INVARIANT SaveReports
