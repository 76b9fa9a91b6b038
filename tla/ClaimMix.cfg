SPECIFICATION Spec
CONSTANTS
  NoHandler = NoHandler Stranger = Stranger NoDevice = NoDevice Nobody = Nobody NoRow = NoRow
  s1 = s1 s2 = s2 a1 = a1 a2 = a2 d1 = d1 d2 = d2
  i1 = i1 i2 = i2 m1 = m1 m2 = m2 m3 = m3 m4 = m4
  Accounts = {a1, a2}
  Times = {1, 2}
  Handlers = {h1, h2}
  ReadLocks = FALSE
  Spaces = {s1}
  Devices = {d1, d2}
  Owner <- MCOwner
  Invites = {i1, i2}
  MemberIds = {m1, m2, m3, m4}
  MaxAttempts = 3
  Jobs <- ClaimMixJobs
  Limits <- MCLimits
SYMMETRY HandlerSymmetry
INVARIANTS TypeOK ClaimsAccounted WithinLimit StateTellsUse RefusalsAreTrue OneUsePerRequest AdmittedMeansPresent
PROPERTIES AdmittedInTime RefinesLedger
