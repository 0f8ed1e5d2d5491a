SPECIFICATION Spec
CONSTANTS
  Branch = {master, dev}
  MAX_RETRY_TIMES = 2
  MaxCalls = 3
  MaxVersions = 4
CHECK_DEADLOCK FALSE
INVARIANTS
  TypeOK
  RetriesAreBounded
  OutcomeIsHonest
PROPERTY CallsEnd
