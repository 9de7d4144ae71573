\* Two companies, two CINs, two numbers; two requests, a form and what it is told.
SPECIFICATION CompaniesSpec
CONSTANTS
  c1 = c1  c2 = c2  x1 = x1  x2 = x2  n1 = n1  n2 = n2  r1 = r1  r2 = r2
  e1 = e1  e2 = e2
  Companies = {c1, c2}
  Cins = {x1, x2}
  Numbers = {n1, n2}
  Emails = {e1, e2}
  Requests = {r1, r2}
  MaxRequests = 2
  MaxFaults = 1
  MaxEdits = 4
  MaxClicks = 6
SYMMETRY Handles
VIEW View
INVARIANTS CalendarFollows CinHeldOnce EntryOfTheNumber AccountHasItsCompany
\* Requests and the user's patience run out.
CHECK_DEADLOCK FALSE
