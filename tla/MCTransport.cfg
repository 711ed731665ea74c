SPECIFICATION Spec
CONSTANTS
  Fetchers = {f1, f2}
  Keys = {"snapshot", "heap-dump"}
  Verbs = {"snapshot", "heap-dump"}
  VerbOf <- MCVerbOf
  Data = {"d0", "d1", "d2"}
  Elapsed = {1}
  FrameTotal <- MCFrameTotal
  InlineData = {"d0"}
  CacheLimit = 1
  Stamps = {1}
  MaxGeneration = 1
  Null = Null
  Partial = Partial
SYMMETRY MCSymmetry
INVARIANT RejectedOnlyIfDisturbed
PROPERTIES NoStaleAcceptance FetchIsAtomic
