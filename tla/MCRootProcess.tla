------------------------------ MODULE MCRootProcess ------------------------------
(* Two clients on UDP that register, one of which asks a query as well, and *)
(* two on HTTP, one of which registers while the other unregisters, asks a  *)
(* query or sends what process_packet throws for; each shares its address   *)
(* with a UDP client.                                                       *)
EXTENDS RootProcess

CONSTANTS esusx, tst, addr1, addr2, u1, u2, h1, h2

MCNames == {esusx, tst}
MCRoutes == {<<tst>>}
MCGeosub == [q \in {} |-> esusx]
MCTypeBytes == {Org}
Registration(text) == [op |-> "register", type |-> Org, text |-> text, proto |-> CHOOSE p \in Protocols : TRUE]
MCClientAddr == [c \in Clients |-> IF c \in {u1, h2} THEN addr1 ELSE addr2]
MCAsks == [c \in Clients |->
  CASE c = u1 -> {Registration(<<esusx>>), Query}
    [] c = u2 -> {Registration(<<tst>>)}
    [] c = h1 -> {Registration(<<tst, esusx>>)}
    [] c = h2 -> {[op |-> "unregister"], Query, Throwing}]
MCGarbled == {Registration(<<tst>>), [op |-> "unregister"]}

================================================================================
