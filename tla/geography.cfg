SPECIFICATION FairSpec
CONSTANTS
  Node = {1, 2, 3, 4, 5}
  Files <- FilesValue
  CacheSize = 1
  EndValues <- EndValuesValue
INVARIANTS TypeOK AnswersNearest CacheSound
PROPERTIES VisitsInOrder SearchEnds
