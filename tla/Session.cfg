SPECIFICATION Spec
CONSTANTS
  ann = ann
  bob = bob
  jobs = jobs
  resume = resume
  Accounts <- BothAccounts
  Pages <- BothPages
  FaultModels <- SomeFaults
  NoOne = NoOne
INVARIANTS
  TypeOK
  AskedAsShown
PROPERTIES
  SessionIsKept
  CallsSettle
