SPECIFICATION Spec
CONSTANTS
  Datasets = {1,2}
  w1 = w1
  w2 = w2
  Writers = {w1}
  r1 = r1
  Readers = {r1}
  Strict = {r1}
  part = part
  head = head
  Scopes = {part}
  Merges = {}
  Keys = {1}
  Span <- MCSpan
  Holds <- MCHolds
  Feeds <- MCFeeds
  MaxInputs = 2
  MaxFiles = 2
  MaxGarbage = 2
  MaxVersions = 2
  Verdicts <- OfPart
  Reads <- Whole
  Watched = {}
  LateCommits = FALSE
INVARIANTS
  ReadersFindFiles
PROPERTIES
  CursorStable TableSpec
CHECK_DEADLOCK FALSE
SYMMETRY Sym
