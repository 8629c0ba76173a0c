SPECIFICATION Spec
CONSTANTS
  a = a  b = b
  Letters <- MCLetters
  Words <- MCWords
  Bounds = {0, 1, 2}
  Texts <- MCTexts
INVARIANTS MatchesWhatIsNear EvidenceIsNearest
