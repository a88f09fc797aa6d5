CONSTANTS
  MainPlaces = {m1, m2}
  FaultPlaces = {m2}
  FrameWords = 2
  Values = {v1, v2}
  Junk = Junk
  MaxNest = 3
  NoPlace = NoPlace
SPECIFICATION FairSpec
INVARIANT BodyExclusive
PROPERTIES ReturnsIntact MainResumes
