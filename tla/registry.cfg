SPECIFICATION Spec
CONSTANTS
  Callers = {c1, c2}
  Orgs = {acme, globex}
  Blank = blank
  Rejected = rejected
  None = none
  MaxLogins = 2
  Services = {s1}
  Names = {n1}
  Urls = {u1}
  Envs = {e1}
  Tokens = {t1, t2}
  Gone = gone
  Slots = {q1, q2}
  MaxRequests = 3
  Workloads <- MCWorkloads
SYMMETRY MCSymmetry
INVARIANTS TenantsAreApart
PROPERTIES NobodyActsForAnother HarmNeedsOverlap
CHECK_DEADLOCK FALSE
