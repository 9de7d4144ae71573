\* Two people, two companies, two requests that overlap, any team to begin with.
SPECIFICATION Spec
CONSTANTS
  u1 = u1  u2 = u2  c1 = c1  c2 = c2  t1 = t1  r1 = r1  r2 = r2
  Users = {u1, u2}
  Companies = {c1, c2}
  Tasks = {t1}
  TaskCompany <- OfFirst
  Given = {"SUPER_ADMIN", "CA", "VIEWER"}
  Changes <- Each
  Requests = {r1, r2}
  MaxRequests = 2
  MaxFaults = 1
SYMMETRY Handles
INVARIANTS WorkCanBeOpened ListNamesTheRole
PROPERTIES AdminRemains
\* Requests run out.
CHECK_DEADLOCK FALSE
