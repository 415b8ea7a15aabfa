SPECIFICATION Spec
CONSTANTS
  Keys = {"tenantId"}
  Header = "corr"
  Alias = "correlationId"
  Values = {v}
  Levels = {"error", "info"}
  NoMatrix = NoMatrix
  Default = "default"
  Matrices <- AllMatrices
  Outbound <- OutboundMap
  Inbound <- InboundMap
  Lower <- InLowerCase
  Absent = Absent
  NoMock = NoMock
  MaxScopes = 3
  MaxIds = 2
INVARIANTS
  SeesItsOwn
  OneIdPerRequest
  MatrixDecides
  MockAgrees
CHECK_DEADLOCK FALSE
