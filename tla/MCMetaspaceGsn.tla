----------------------------- MODULE MCMetaspaceGsn -----------------------------
(* Two postcodes in one county; the first belongs to different geosubs     *)
(* before and after a change.                                              *)
EXTENDS MetaspaceGsn

MCQueries == {"TN37 7XX", "East Sussex", ""}
MCOutcode == [q \in Queries |-> IF q = "TN37 7XX" THEN "TN37" ELSE ""]
MCLower == [o \in {"TN37"} |-> "tn37"]
MCRows ==
  { [postcode |-> "tn37", county |-> "East Sussex", geosub |-> "esusx"],
    [postcode |-> "tn37", county |-> "East Sussex", geosub |-> "hastings"],
    [postcode |-> "bn1", county |-> "East Sussex", geosub |-> "esusx"] }

================================================================================
