------------------------------ MODULE MCQueryFanout ------------------------------
(***************************************************************************)
(* At most two registered nodes, at the same or at different addresses,    *)
(* asked all together or by SUID.                                          *)
(***************************************************************************)
EXTENDS QueryFanout

CONSTANTS esusx, tst, addr1, addr2, dvsp, http

MCNames == {esusx, tst}
MCTypeBytes == {Org}
MCRoutes == {<<esusx>>, <<tst>>}
MCGeosub == [q \in {} |-> esusx]

================================================================================
