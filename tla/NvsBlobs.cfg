SPECIFICATION Spec
CONSTANTS
  PageCount = 3
  EntryCount = 5
  Scalars = {}
  Blobs = {"b"}
  Values = {}
  Sizes = {1, 6}
  SmallTail = 1
INVARIANT ValuesKept
INVARIANT NothingLeftBehind
INVARIANT ReserveKept
