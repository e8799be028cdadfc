SPECIFICATION Spec
CONSTANTS
  PageCount = 3
  EntryCount = 4
  Scalars = {"a"}
  Blobs = {"b"}
  Values = {1, 2}
  Sizes = {2, 3}
  SmallTail = 1
INVARIANT NothingSpoiled
