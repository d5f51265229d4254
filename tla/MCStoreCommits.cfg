SPECIFICATION LiveSpec
CONSTANTS
  Datasets = {1}
  w1 = w1
  w2 = w2
  Writers = {w1, w2}
  r1 = r1
  Readers = {}
  Strict = {}
  part = part
  head = head
  Scopes = {part, head}
  Merges = {head}
  Keys = {1, 2}
  Span <- MCSpan
  Holds <- MCHolds
  Feeds <- MCFeeds
  MaxInputs = 2
  MaxFiles = 3
  MaxGarbage = 2
  MaxVersions = 2
  Verdicts <- OfNone
  Reads <- Whole
  Watched = {1}
  LateCommits = TRUE
INVARIANTS
  StoreConsistent AnswersAreTrue
PROPERTIES
  NothingOverwritten TableSpec GarbageGoes
CHECK_DEADLOCK FALSE
