\* Two requests over two connections while two schools are created.
SPECIFICATION Spec
CONSTANTS
  r1 = r1
  r2 = r2
  c1 = c1
  c2 = c2
  k1 = k1
  k2 = k2
  h1 = h1
  h2 = h2
  admin = admin
  s1 = s1
  s2 = s2
  Commands = {k1, k2}
  Hosts = {h1, h2}
  ShortCodes = {s1, s2}
  NoHost = NoHost
  MaxEdits = 1
  Requests = {r1, r2}
  PlatformHosts = {admin}
  Connections = {c1, c2}
  NoConnection = NoConnection
INVARIANTS
  SchoolsWhole
  OwnRowsOnly
  SessionsHonoured
  SessionsStayHome
SYMMETRY Interchangeable
CHECK_DEADLOCK FALSE
