SPECIFICATION FairSpec
CONSTANTS
  Connection = {c1, c2}
  String = {"", "a", "b"}
  NoString = NoString
  Failing = {}
  MaxFrames = 3
INVARIANTS TypeOK ChattersOpen NamesUnique OneOrder NobodyWronglyGone
PROPERTIES ImplementsRoom 
