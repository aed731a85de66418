SPECIFICATION Spec
CONSTANTS
  Txs = {1, 2, 3}
  Queries = {all, narrow}
  Unfiltered = all
  Matches <- MCMatches
  Searches = {s1, s2}
  PageSize = 1
  Stored = {{1, 2}}
  None = None
  MaxCommits = 1
  MaxCalls = 3
INVARIANTS TimelineMatchesQuery PendingHasOwner
PROPERTIES NeverOlder ResumeServed
