\* Two clients that want the same hostname and one with names of its own go
\* through their scripts, whatever is lost.  The users finish, so the system may stop.
SPECIFICATION GsnSpec
CONSTANTS
  esusx = esusx
  tst = tst
  addr1 = addr1
  addr2 = addr2
  addr3 = addr3
  c1 = c1
  c2 = c2
  c3 = c3
  p1 = p1
  p2 = p2
  NoQuery = NoQuery
  Names <- MCNames
  EmptyName = esusx
  Addrs = {addr1, addr2, addr3}
  Protocols = {dvsp}
  TypeBytes <- MCTypeBytes
  Routes <- MCRoutes
  Queries = {}
  Geosub <- MCGeosub
  Clients = {c1, c2, c3}
  AddrOf <- MCAddrOf
  TextOf <- MCTextOf
  Script <- MCScript
  Ports = {p1, p2}
  MaxFaults = 2
INVARIANTS
  GsnTypeOK
  RegisterAnswerHolds
  UnregisterAnswerHolds
  HostnameAnswerHolds
PROPERTIES
  EveryoneAnswered
CHECK_DEADLOCK FALSE
