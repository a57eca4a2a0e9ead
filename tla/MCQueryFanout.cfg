\* Queries of the network and of one node, with nodes that answer, refuse or
\* keep silent.
SPECIFICATION FanoutSpec
CONSTANTS
  esusx = esusx
  tst = tst
  addr1 = addr1
  addr2 = addr2
  dvsp = dvsp
  http = http
  NoQuery = NoQuery
  Junk = Junk
  Names <- MCNames
  EmptyName = esusx
  Addrs = {addr1, addr2}
  Protocols = {dvsp, http}
  TypeBytes <- MCTypeBytes
  Routes <- MCRoutes
  Queries = {}
  Geosub <- MCGeosub
  Gsn = esusx
  Http = http
INVARIANTS
  FanoutTypeOK
  AnswersCollected
PROPERTIES
  FanoutImplementsRegistry
  QueriesEnd
