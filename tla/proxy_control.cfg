SPECIFICATION MCSpec
CONSTANTS
  AdminIds = {r1, u1}
  Upstreams = {u1}
  Names = {"n", "f"}
  FileNames = {"f"}
  Backends = {b1, b2}
  AdminCallers = {c1, c2}
  MaxCalls = 2
  MaxStarts = 1
  CertNames <- MCNames
  Renewed <- MCRenewed
  Hellos <- MCHellos
  Unreadable = {2}
  Savers = {w}
  MaxSerial = 3
  MaxLosses = 1
  Tenants = {"A", "B"}
  Ids = {1, 2, 3, 4, 5, 6}
  NewId <- MCNewId
  DomainNames = {"x", "y", "z"}
  Controller <- MCController
  PointsHere = {"x", "y"}
  Addresses = {"b1", "b2"}
  Callers = {1, 2, 3}
  CallSet <- MCCallSet
  Stored <- MCStored
  MaxDomains <- MCMaxDomains
  MaxFailures = 1
INVARIANT
  ChecksStillHold
PROPERTIES
  AnsweredIsKept
  HandshakesAreSound
  StoredIsServed
  TenantIsolation
CHECK_DEADLOCK FALSE
