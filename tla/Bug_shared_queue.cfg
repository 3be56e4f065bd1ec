\* run-all: the process of the sender also analyzes, from the same queue.
SPECIFICATION FairSpec
CONSTANTS
  o1 = o1
  o2 = o2
  ann = ann
  Outreaches <- OneOutreach
  Contacts = {ann}
  ContactOf <- ToAnn
  NoOutreach = NoOutreach
  Processes = {bot}
  Senders = {bot}
  Analyzers = {bot}
  Desks = {bot}
  Calls = {c1}
  TelegramOutcomes <- OnlyOk
  LimitsBind = FALSE
  MaxAttempts = 2
  QueueCap = 2
  MaxStrays = 0
  MaxFaults = 0
  MaxCrashes = 0
PROPERTIES ApprovedIsSent
CHECK_DEADLOCK FALSE
