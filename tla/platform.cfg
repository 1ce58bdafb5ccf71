SPECIFICATION Spec
CONSTANTS
  Reqs = {w1, w2}
  Posters = {w1, w2}
  Workers = {n1}
  Uploaders = {w1, w2}
  Staff = {w1, w2}
  Desks = {w1, w2}
  Clerks = {w1, w2}
  Sids = {x1, x2, x3}
  Files = {x1, x2, x3}
  Photos = {x1, x2, x3}
  Users = {y1, y2}
  Admins = {y1, y2}
  Messages = {y1, y2}
  Devices = {y1, y2}
  Keys = {y1, y2}
  Moderators = {y1, y2}
  Bills = {y1, y2}
  Readers = {client, staff}
  Client = client
  MaxTime = 6
  Members = {client, staff}
  Outsiders = {client}
  Notes = {m1}
  Requests = {r1}
  Days <- ThreeDays
  MaxRuns = 2
  ContractEnds = 3
  DocumentEnds = 2
  ContractMilestones <- OneDayBefore
  DocumentMilestones <- OnTheDay
  Landlords = {l1}
  Kinds = {kd1}
  MaxPhotos = 2
  Clients = {c1}
  People = {y1, y2}
  Orgs = {g1, g2}
  Errands = {m1}
  Hands = {h1}
  Nobody = None
  None = None
  NoOne = None
  Absent = None
  NoFile = None
  NoPhoto = None
  NoBody = None
  NoBill = None
SYMMETRY Symmetry
CHECK_DEADLOCK FALSE
INVARIANTS
  OneHeirPerRefresh
  DisableCutsForGood
  OnlyOpenMessagesAreLost
  NobodyIsLeftOut
  OneReminderPerMilestone
  OneCurrentExtract
  PhotosAreBounded
  CallbackActsOnce
