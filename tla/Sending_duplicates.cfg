\* One outreach, two processes that both send, two concurrent operators, a stray
\* task, a failing transaction and a crash.
SPECIFICATION Spec
CONSTANTS
  o1 = o1
  o2 = o2
  ann = ann
  Outreaches <- OneOutreach
  Contacts = {ann}
  ContactOf <- ToAnn
  NoOutreach = NoOutreach
  Processes = {p1, p2}
  Senders = {p1, p2}
  Analyzers = {p1}
  Desks = {p1, p2}
  Calls = {c1, c2}
  TelegramOutcomes <- AllOutcomes
  LimitsBind = TRUE
  MaxAttempts = 2
  QueueCap = 2
  MaxStrays = 1
  MaxFaults = 1
  MaxCrashes = 1
INVARIANTS TypeOK AtMostOneDelivery ApprovedBeforeDelivery SentIsTrue RecordNeverRaises RejectedIsNeverSent
PROPERTIES PromiseKept ApprovalLeavesATrace
CHECK_DEADLOCK FALSE
