\* Two drafts and one operator, or one draft and two, who attend; pages of one place, a
\* fault or a restart.
SPECIFICATION AttendedSpec
CONSTANTS
  o1 = o1
  o2 = o2
  u1 = u1
  u2 = u2
  Drafts = {o1, o2}
  Users = {u1, u2}
  PageSize = 1
  MaxCards = 1
  MaxLoad = 2
  MaxTroubles = 1
INVARIANTS TypeOK
PROPERTIES DecidedBeforePressStands EveryOperatorIsTold EveryDraftIsDecided
CHECK_DEADLOCK FALSE
