SPECIFICATION Spec
CONSTANT Profiles <- MCProfiles
CONSTANT Days <- MCDays
CONSTANT EventTypes = {"DIR-12"}
CONSTANT MaxEvents = 1
CONSTANT Amendments <- MCAmendments
INVARIANT CalendarIsStatutory
INVARIANT TwinsAgree
INVARIANT RegistrationsMatchCalendar
INVARIANT StandingFollowsFilings
INVARIANT AmendmentsTold
PROPERTY WindowSlides
