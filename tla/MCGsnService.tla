------------------------------ MODULE MCGsnService ------------------------------
(***************************************************************************)
(* Two clients that want the same hostname and a third with names of its   *)
(* own; forge is given one text, so hostname and SUID may be the same.     *)
(***************************************************************************)
EXTENDS GsnService

CONSTANTS esusx, tst, addr1, addr2, addr3, c1, c2, c3, p1, p2

MCNames == {esusx, tst}
MCRoutes == {<<tst>>}
MCGeosub == [q \in {} |-> esusx]
MCTypeBytes == {Org}
MCAddrOf == [c \in Clients |-> CASE c = c1 -> addr1 [] c = c2 -> addr2 [] OTHER -> addr3]
MCTextOf == [c \in Clients |-> IF c = c3 THEN <<tst>> ELSE <<esusx>>]
MCScript == [c \in Clients |->
  CASE c = c1 -> <<"register", "unregister">>
    [] c = c2 -> <<"register">>
    [] c = c3 -> <<"register", "hostname">>]

================================================================================
