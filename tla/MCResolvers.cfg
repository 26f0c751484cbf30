SPECIFICATION ResolverSpec
CONSTANTS
  Commits <- MCCommits
  CommitNames <- MCCommitNames
  Refs <- MCRefs
  Digests = {"d1", "d2"}
  MaxHits = 2
INVARIANTS PinnedBytes AnyListingOrder  TagIsHonoured
PROPERTY OneSourcePerFile
CHECK_DEADLOCK FALSE
