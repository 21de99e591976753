CONSTANTS
  Run = {r1, b1}
  Build = {b1}
  Old = {c1, n1}
  Net = {n1}
  Max = 2
  Timeout = 1
  MaxNow = 6
  N = 2
  MaxFile = 2
  MaxTotal = 3
  MaxSignals = 2
  MaxEdits = 1
  Attempts = 2
  None = None
  NQ = 2
  Page = {1, 2, 3}
  Vuln = {"v1", "v2"}
  Services <- MCServices
  Budgets = {3, 8}
  Batch = 1
  MaxPages = 3
  MaxDetails = 1
  ResponseCap = 2
  Proc = {p1, p2}
  Free = Free
  Gen = {g1, g2, g3}
  File = {f1, f2}
  Scopes = {{f1}, {f1, f2}}
  MaxClock = 2
  Wrapper = {w1, w2}
  Names = 2
  MaxLines = 4
  Turn = {t1, t2}
  MaxRecords = 3
  NRuns = 2
  MaxChanges = 1
  Ranges <- MCRanges
  Claims <- MCClaims
SPECIFICATION Spec
INVARIANTS TypeOK JanitorSpares   AnswerIsOwn 
SYMMETRY Symmetry
CHECK_DEADLOCK FALSE
