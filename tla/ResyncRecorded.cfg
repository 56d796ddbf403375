SPECIFICATION ReferenceDataSpec
CONSTANTS
  w1 = w1
  w2 = w2
  Words = {w1, w2}
  Releases <- SmallReleases
  Importers = {i1}
  Readers = {r1}
  BatchSize = 2
  MaxImports = 1
  a1 = a1
  a2 = a2
  g1 = g1
  g2 = g2
  c1 = c1
  c2 = c2
  v1 = v1
  v2 = v2
  AreaFeeds <- SmallAreas
  RegionFeeds <- SmallRegions
  CommunityFeeds <- SmallCommunities
  Mappings = {m1}
  Labels = {l1}
  Districts = {d1}
  Editors = {e1}
  MaxSyncs = 2
  MaxRequests = 1
  None = None
  Gone = Gone
  Forms <- SmallForms
  Files <- SmallFiles
  Languages = {"uk"}
  MaxIds = 3
  MaxEdits = 3
  Facts <- SmallFacts
  MaxFacts = 0
CHECK_DEADLOCK FALSE
INVARIANT
  FailuresRecorded
