SPECIFICATION Spec
CONSTANTS
  Files <- MCFiles
  Environs <- MCEnvirons
  BadUrls <- MCBadUrls
  BadDurations <- MCBadDurations
  BadPatterns <- MCBadPatterns
  RefusedPaths <- MCRefusedPaths
  Numeral <- MCNumeral
  Runes <- MCRunes
  Kilo = 4
  MaxInt = 127
INVARIANTS AcceptedIsServed RunsAsWritten BlocksAnswerAsSet LimitAsWritten
