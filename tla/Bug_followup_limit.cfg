\* One poller, one scheduled follow-up, no reply, no fault.
SPECIFICATION Spec
CONSTANTS
  o1 = o1
  ann = ann
  Outreaches <- OneOutreach
  Contacts = {ann}
  ContactOf <- ToAnn
  NoOutreach = NoOutreach
  Pollers = {p1}
  TaskConsumers = {}
  Schedulers = {s1}
  MaxFollowups = 1
  ReplyTargets = {"outreach"}
  MaxSchedules = 1
  MaxSends = 2
  MaxReplies = 0
  MaxFaults = 0
INVARIANTS FollowupsWithinLimit
CHECK_DEADLOCK FALSE
