\* Two channels, two queries, a worker's scanner and a dry run.
SPECIFICATION Spec
CONSTANTS
  news = news
  jobs = jobs
  p1 = p1
  p2 = p2
  worker = worker
  dry = dry
  work = work
  spam = spam
  town = town
  NoRow = NoRow
  NoCity = NoCity
  Channels = {news, jobs}
  Posts = {p1, p2}
  ChannelOf <- MCChannelOf
  Kind <- MCKind
  Faces <- MCFaces
  FirstFace <- MCFirstFace
  Scanners = {worker, dry}
  Repeats = {worker}
  MinSubs <- MCMinSubs
  ExcludedChannels = {}
  ExcludedKeywords = {spam}
  Keywords <- MCKeywords
  Cities <- MCCities
  Finds <- MCFinds
  SearchLimit = 2
  Limit = 2
  MaxChanges = 1
  MaxFaults = 1
PROPERTIES OnlyFitChannelsRead CommittedStands InReachIsStored
CHECK_DEADLOCK FALSE
