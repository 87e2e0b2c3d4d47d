SPECIFICATION FairSpec
CONSTANTS
  N = 3
  Wave = 1
  Kinds = {"XNM"}
  Fates = {"accept", "hold"}
PROPERTY GoodRowsLeave
