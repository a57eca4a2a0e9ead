------------------------------- MODULE MCRootNode -------------------------------
(***************************************************************************)
(* Small instances of RootNode: two hostnames and the empty one, two       *)
(* addresses, valid and invalid type bytes, and urls that exercise every   *)
(* exit of resolve_gsn.                                                    *)
(***************************************************************************)
EXTENDS NodeList

CONSTANTS esusx, tst, empty, addr1, addr2, tn37, tn98

MCNames == {esusx, tst, empty}
MCSpelling == [n \in MCNames |->
  CASE n = esusx -> <<"e", "s">>
    [] n = tst -> <<"t", "s", "t">>
    [] OTHER -> <<>>]
MCTypeBytes == {Org, FinalType}
MCRoutes == {<<tst>>, <<tst, esusx>>, <<tst, esusx, tst>>}
MCGeosub == [q \in {tn37, tn98} |-> IF q = tn37 THEN esusx ELSE empty]

================================================================================
