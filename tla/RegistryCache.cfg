CONSTANTS
  s1 = s1
  s2 = s2
  IssuableSchemes <- TwoSchemes
  Readers = {h1, h2}
  MaxVersion = 2
  RegistryHangs = TRUE
  NoAnswer = NoAnswer
SPECIFICATION FairSpec
INVARIANTS MetadataNeverGoesBack OutageDropsNothing
PROPERTY CatchesUp
