SPECIFICATION FairSpec
CONSTANTS
  lt1 = lt1
  lt2 = lt2
  s1 = s1
  s2 = s2
  empty = empty
  Producers <- MCProducers
  Items <- MCItems
  Blank <- empty
  Manager = manager
  Free = free
  MaxInserts = 3
INVARIANTS MutualExclusion
PROPERTIES ImplementsHandoff EverythingTaken
