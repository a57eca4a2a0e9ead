\* UDP and HTTP clients ask one root node; datagrams may be short, connections
\* break, queries not return and requests throw.  The clients finish, so the
\* system may stop.
SPECIFICATION ProcessSpec
CONSTANTS
  esusx = esusx
  tst = tst
  addr1 = addr1
  addr2 = addr2
  u1 = u1
  u2 = u2
  h1 = h1
  h2 = h2
  NoQuery = NoQuery
  Names <- MCNames
  EmptyName = esusx
  Addrs = {addr1, addr2}
  Protocols = {dvsp}
  TypeBytes <- MCTypeBytes
  Routes <- MCRoutes
  Queries = {}
  Geosub <- MCGeosub
  UdpClients = {u1, u2}
  HttpClients = {h1, h2}
  ClientAddr <- MCClientAddr
  Asks <- MCAsks
  Nobody = nobody
  Garbled <- MCGarbled
  MaxFaults = 2
INVARIANTS
  ProcessTypeOK
  NodesAskedToBeThere
PROPERTIES
  EndsOnlyFor
  ProcessImplementsRegistry
  HttpAnswered
CHECK_DEADLOCK FALSE
