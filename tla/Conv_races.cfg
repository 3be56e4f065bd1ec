\* One conversation, a poller and a poller that also serves tasks, two
\* follow-ups scheduled, two replies, one fault.
SPECIFICATION FairSpec
CONSTANTS
  o1 = o1
  ann = ann
  Outreaches <- OneOutreach
  Contacts = {ann}
  ContactOf <- ToAnn
  NoOutreach = NoOutreach
  Pollers = {p1, p2}
  TaskConsumers = {p2}
  Schedulers = {s1}
  MaxFollowups = 1
  ReplyTargets = {"outreach", "followup"}
  MaxSchedules = 2
  MaxSends = 1
  MaxReplies = 2
  MaxFaults = 1
INVARIANTS TypeOK
PROPERTIES ConsentKept DueIsRun OptOutIsHeard
CHECK_DEADLOCK FALSE
