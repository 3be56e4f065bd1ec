\* Two equal posts that name one @username and one of an author, two analyzers, three
\* parse tasks, an operator, auto-approval, a fault and a crash.
SPECIFICATION Spec
CONSTANTS
  m1 = m1
  m2 = m2
  m3 = m3
  ann = ann
  bob = bob
  Posts <- ThreePosts
  ChannelOf <- OwnChannels
  TextOf <- Copies
  Contacts = {ann, bob}
  ContactOf <- FromBobAndAnn
  NoContact = NoContact
  Reachable = {ann}
  NoPost = NoPost
  Scanners = {s1}
  Analyzers = {a1, a2}
  Decisions = {d1}
  AutoApprove = TRUE
  MaxAttempts = 2
  MaxScans = 2
  MaxParses = 3
  MaxQualifies = 0
  MaxFaults = 1
  MaxCrashes = 1
INVARIANTS OneAnalyzerPerPost LaterCopyNeverDrafted
PROPERTIES OnlyFailuresStrand
CHECK_DEADLOCK FALSE
