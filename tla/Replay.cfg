\* Two replays into one records file, a misnamed image, and one rendering or removal.
SPECIFICATION Spec
CONSTANTS
  Replays = {"p1", "p2"}
  Names = {1, 2, 3}
  Ids = {1, 2}
  Folders <- MCFolders
  MaxEdits = 1
INVARIANTS
  MetaMeansWhole
  RecordIsOfItsImage
PROPERTIES
  RecordsAreKept
  ReplaysEnd
