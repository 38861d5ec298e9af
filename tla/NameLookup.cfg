SPECIFICATION FairSpec
CONSTANTS
  Searched <- MCSearched
  Indexed <- MCIndexed
  Ids <- MCIds
INVARIANTS
  NamesExactlyTheListed
  ReadsOnlyTheTable
PROPERTIES
  Returns
