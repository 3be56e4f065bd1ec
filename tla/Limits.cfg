\* Two senders share four outreaches to two recipients; an hour, two
\* days and a cooldown fit into the horizon, and one delivery may go uncounted.
SPECIFICATION Spec
CONSTANTS
  o1 = o1
  o2 = o2
  o3 = o3
  o4 = o4
  ann = ann
  bob = bob
  Outreaches <- FourOutreaches
  Contacts = {ann, bob}
  ContactOf <- TwoEach
  NoOutreach = NoOutreach
  Nobody = Nobody
  Senders = {s1, s2}
  Day = 4
  Hour = 1
  DailyLimit = 1
  HourlyLimit = 1
  Cooldown = 3
  MinDelay = 1
  AwareTimes = FALSE
  Horizon = 6
  MaxFaults = 1
INVARIANTS TypeOK OvershootBounded CooldownKept
CHECK_DEADLOCK FALSE
