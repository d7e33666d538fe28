SPECIFICATION Spec
CONSTANTS
  u1 = u1
  u2 = u2
  up1 = up1
  rq1 = rq1
  rq2 = rq2
  in1 = in1
  Requests <- AllRequests
  Public <- SignIns
  Uploads <- TheUploads
  Users <- BothUsers
  ApiLimit = 2
  AuthLimit = 1
  LastWindow = 1
  FaultModels <- SomeFaults
  Nobody = Nobody
  BadToken = BadToken
  TheIp = TheIp
  NoFile = NoFile
SYMMETRY Alike
CHECK_DEADLOCK FALSE
INVARIANTS
  TypeOK
  GaugeCountsOpen
  WindowAdmitsItsLimit
  ForwardedAsVerified
  RowsHaveObjects
  OrphansHaveACause
