SPECIFICATION Spec
CONSTANTS
  f = f  g = g  torn = torn
  Contents <- MCContents
  Torn = torn
  Runes <- MCRunes
  Reasons <- MCReasons
  MaxSlug = 4
  Limit = 2
  PerSecond = 3
  MaxClock = 4
  Digits <- MCDigits
SYMMETRY Symmetry
INVARIANTS TypeOK BackupsStay ReasonReads
PROPERTIES  SaveIsReversible
