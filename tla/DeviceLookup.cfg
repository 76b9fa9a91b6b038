SPECIFICATION Spec
CONSTANTS
  NoHandler = NoHandler Stranger = Stranger NoSpace = NoSpace NoRow = NoRow
  h1 = h1 h2 = h2 s1 = s1 d1 = d1 d2 = d2
  e1 = e1 e2 = e2 e3 = e3 r1 = r1 r2 = r2 p1 = p1 p2 = p2
  Spaces = {s1}
  Devices = {d1, d2}
  Handlers = {h1, h2}
  ReadLocks = TRUE
  Envelopes = {e1, e2, e3}
  Refs = {r1, r2}
  Payloads = {p1, p2}
  MaxTime = 1
  MaxAttempts = 2
  Jobs <- SubmitJobs1
INVARIANTS NotFoundIsTrue
