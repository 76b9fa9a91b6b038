SPECIFICATION FairSpec
CONSTANTS
  NoHandler = NoHandler NoRow = NoRow Absent = Absent
  v1 = v1 v2 = v2
  Handlers = {p1, p2}
  ReadLocks = TRUE
  Last = 4
  Contents = {v1, v2}
  Once = {2, 3}
  Requires <- MCRequires
  Releases <- MCReleases
INVARIANTS TypeOK RecordedIsApplied AppliedOnceInOrder MigratedIsComplete
PROPERTIES SchemaOnlyGrows LoneStartMigrates
