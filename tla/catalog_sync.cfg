SPECIFICATION Spec
CONSTANTS
  Callers = {c1}
  Orgs = {acme}
  Blank = blank
  Rejected = rejected
  None = none
  MaxLogins = 1
  Services = {s1}
  Names = {n1}
  Urls = {u1}
  Envs = {e1}
  Tokens = {t1}
  Gone = gone
  Slots = {q1}
  MaxRequests = 2
  Workloads <- MCSyncWorkloads
INVARIANTS SyncRegistersOwners
CHECK_DEADLOCK FALSE
