\* Three edits, stamps or pull requests of others, over two days.
CONSTANTS
  Doc <- MCDoc
  SpecDoc <- MCDoc
  MANIFEST <- MCCollected
  Routed <- MCCollected
  outputPathFor <- MCPath
  Written <- MCWritten
  Text = {1}
  Nav = {1, 2}
  Absent = Absent
  FirstDoc <- MCFirstDoc
  FirstIndex <- MCFirstIndex
  Squash = TRUE
  Strict = TRUE
  LastDay = 1
  MaxEdits = 3
SPECIFICATION Spec
INVARIANTS
  TypeOK
  RecipeIsEnough
  DatesAreMains
  ForwardStampNamesOneText
PROPERTY PublishesWhole
