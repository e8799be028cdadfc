SPECIFICATION Spec
SYMMETRY Symmetry
CONSTANTS
  PageCount = 3
  EntryCount = 4
  Scalars = {"a"}
  Blobs = {"b"}
  Values = {v1, v2}
  v1 = v1
  v2 = v2
  Sizes = {2, 5}
  SmallTail = 1
INVARIANT ValuesKept
INVARIANT NothingLeftBehind
INVARIANT ReserveKept
