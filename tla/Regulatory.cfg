\* One process, one request at a time; failures and restarts at every step.
CONSTANTS
  older = older
  newer = newer
  Replicas = {api}
  Workers = {w1}
  Home <- HomeOfAll
  Rules = {boardMeeting}
  Carved = {boardMeeting}
  Companies = {c1}
  Circulars = {1, 2}
  Proposals = {older, newer}
  CircularOf <- DraftedBy
  RuleOf <- SameRule
  Unsound = {}
  Patches <- ExtendOrWithdraw
  MaxOverlays = 2
  MaxDay = 1
SPECIFICATION Spec
INVARIANTS ReviewsHonest ViewIsCurrent CalendarFollows
