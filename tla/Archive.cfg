SPECIFICATION Spec
CONSTANTS
  MaxInt = 50
  Exports <- MCExports
  Texts <- MCTexts
  MaxFailures = 1
  MaxSaves = 2
  MCLength = 3
INVARIANTS
  TypeOK
  LoadsWhatItSays
  ReturnedIsFrozen
  SavedUnlessDropped
  RoundTrip
  CutShort
  LabelsAsWritten
PROPERTY FrozenForGood
