\* One process and one operator, two outreaches to one contact, a queue of one
\* place, a stray task, no fault.
SPECIFICATION FairSpec
CONSTANTS
  o1 = o1
  o2 = o2
  ann = ann
  Outreaches <- TwoOutreaches
  Contacts = {ann}
  ContactOf <- BothToAnn
  NoOutreach = NoOutreach
  Processes = {bot}
  Senders = {bot}
  Analyzers = {}
  Desks = {bot}
  Calls = {c1}
  TelegramOutcomes <- AllOutcomes
  LimitsBind = TRUE
  MaxAttempts = 2
  QueueCap = 1
  MaxStrays = 1
  MaxFaults = 0
  MaxCrashes = 0
PROPERTIES ConsentKept NothingSilentlyLost TaskFinishes
CHECK_DEADLOCK FALSE
