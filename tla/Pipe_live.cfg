\* Two equal posts, one without a contact, two analyzers, two parse tasks and a
\* qualify task, two operators, auto-approval; no fault, for the liveness.
SPECIFICATION FairSpec
CONSTANTS
  m1 = m1
  m2 = m2
  m3 = m3
  ann = ann
  bob = bob
  Posts <- TwoPosts
  ChannelOf <- OwnChannels
  TextOf <- Copies
  Contacts = {ann, bob}
  ContactOf <- FromNobody
  NoContact = NoContact
  Reachable = {ann}
  NoPost = NoPost
  Scanners = {s1}
  Analyzers = {a1, a2}
  Decisions = {d1, d2}
  AutoApprove = TRUE
  MaxAttempts = 2
  MaxScans = 2
  MaxParses = 2
  MaxQualifies = 1
  MaxFaults = 0
  MaxCrashes = 0
PROPERTIES LeadAgreesWithDraft ParsedIsSettled DraftIsAnnounced
CHECK_DEADLOCK FALSE
