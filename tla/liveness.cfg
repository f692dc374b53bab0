CONSTANTS
  r1 = r1
  r2 = r2
  alice = alice
  bob = bob
  x = x
  Absent = Absent
  Invalid = Invalid
  Requests = {r1}
  Accounts = {alice}
  Keys = {alice, bob}
  Args = {x}
  Names <- MCNames
  States <- MCStates
  WriteStates <- MCWriteStates
  Declared <- MCDeclared
  Calls <- MCCalls
  ResourceFee <- MCResourceFee
  InclusionFee = 1
  U32Max = 8
  MaxSeq = 2
  MaxPolls = 3
  OverflowChecks = TRUE
SPECIFICATION FairSpec
PROPERTIES RequestsEnd StartupEnds
