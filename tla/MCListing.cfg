\* Listings are read back.
SPECIFICATION Spec
CONSTANTS
  esusx = esusx
  tst = tst
  empty = empty
  addr1 = addr1
  addr2 = addr2
  tn37 = tn37
  tn98 = tn98
  NoQuery = NoQuery
  Names <- MCNames
  EmptyName = empty
  Addrs = {addr1, addr2}
  Protocols = {http}
  TypeBytes <- MCTypeBytes
  Routes <- MCRoutes
  Queries = {tn37, tn98}
  Geosub <- MCGeosub
  Spelling <- MCSpelling
INVARIANTS
  ListingIsReadBack
