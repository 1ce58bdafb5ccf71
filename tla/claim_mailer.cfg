SPECIFICATION SpecReminders
CONSTANTS
  Requests = {r1}
  Days = {1, 2}
  MaxRuns = 1
  ContractEnds = 2
  DocumentEnds = 2
  ContractMilestones = {1}
  DocumentMilestones = {0}
  Landlords = {l1}
CHECK_DEADLOCK FALSE
PROPERTY FoundIsTold
