SPECIFICATION Spec
CONSTANTS
  NoHandler = NoHandler Stranger = Stranger Nobody = Nobody NoRow = NoRow
  Down = Down
  h1 = h1 h2 = h2 c1 = c1 c2 = c2
  Handlers = {h1, h2}
  ReadLocks = TRUE
  Codes = {c1, c2}
  AccountIds = {a1, a2, a3}
  DeviceIds = {d1, d2, d3}
  SpaceIds = {s1}
SYMMETRY Symmetry
INVARIANTS TypeOK OneAccountPerCode ReferencesHold AnswersAreDurable SeededWhenServing ListedSpacesAreComplete
PROPERTY DirectoryOnlyGrows
