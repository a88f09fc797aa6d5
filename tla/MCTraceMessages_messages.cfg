CONSTANTS
  HasF = TRUE
  HasD = TRUE
  MainAddress <- SomeAddress
  Ids = {1, 4}
  Lossy = TRUE
  None = None
SPECIFICATION Spec
INVARIANT RoundTrip
PROPERTY NoFalseValue
