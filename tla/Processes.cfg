\* Three tasks for a queue of one place, the two consumers of run-all.
SPECIFICATION Spec
CONSTANTS
  t1 = t1
  t2 = t2
  t3 = t3
  analyzer = analyzer
  outreach = outreach
  NoTask = NoTask
  Tasks = {t1, t2, t3}
  Consumers = {analyzer, outreach}
  Programs <- MCPrograms
  QueueCap = 1
  MaxAttempts = 5
  MaxStarts = 2
  MaxFaults = 2
INVARIANTS TypeOK UnfinishedIsRecorded ClientsOutliveHandlers
PROPERTIES LifeKept QueuedIsHandled
CHECK_DEADLOCK FALSE
