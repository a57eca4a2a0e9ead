------------------------------ MODULE GsnResolution ------------------------------
(***************************************************************************)
(* The resolution of one url along its route: each root node takes the     *)
(* last element off, looks up the one before it, and answers or writes the *)
(* url anew for the node it found (protocol_handler::resolve_gsn).         *)
(*                                                                         *)
(* What a node knows is open here, as its table is in RootNode.  Nothing   *)
(* in the code carries a forwarded request to the next node: Pass is the   *)
(* client or the gateway that does.                                        *)
(***************************************************************************)
EXTENDS NetspaceUrl

CONSTANT MaxLength   \* bound: the characters of the first text

ASSUME BoundAssumption == MaxLength \in Nat

VARIABLES
  text,    \* the content of the request on its way to a node
  url,     \* what the node that handles it has decoded
  at,      \* "sent", "handled", "forwarded", "answered" or "refused"
  origin,  \* what the first node decoded
  passed   \* the elements the nodes have taken off, in their order

resolutionVars == <<text, url, at, origin, passed>>

Init ==
  /\ text \in UNION {[1..n -> Characters] : n \in 0..MaxLength}
  /\ at = "sent"
  /\ url = EmptyUrl /\ origin = EmptyUrl
  /\ passed = <<>>

(* The constructor of netspace_url; its exception ends the node's process *)
Receive ==
  /\ at = "sent"
  /\ \/ Malformed(text) /\ at' = "refused" /\ UNCHANGED <<url, origin>>
     \/ /\ ~Malformed(text)
        /\ url' = Decode(text)
        /\ at' = "handled"
        /\ origin' = IF passed = <<>> THEN url' ELSE origin
  /\ UNCHANGED <<text, passed>>

(* resolve_gsn after the decoding: a route of one element is left empty,   *)
(* and answered from the database or from what lies before the vector.     *)
Resolve ==
  LET route == Front(url.gsn)
  IN  /\ at = "handled"
      /\ passed' = Append(passed, Last(url.gsn))
      /\ url' = [url EXCEPT !.gsn = route]
      /\ \/ at' = "refused" /\ UNCHANGED text               \* the name is not in the table
         \/ Len(route) <= 1 /\ at' = "answered" /\ UNCHANGED text
         \/ Len(route) > 1 /\ at' = "forwarded" /\ text' = ToUrl(url')
      /\ UNCHANGED origin

Pass == at = "forwarded" /\ at' = "sent" /\ UNCHANGED <<text, url, origin, passed>>

Next == Receive \/ Resolve \/ Pass

Spec == Init /\ [][Next]_resolutionVars

--------------------------------------------------------------------------------
(* No part of a decoded url holds a separator, so what to_string puts      *)
(* between the parts can be told from them.                                *)
TypeOK ==
  /\ text \in Seq(Characters)
  /\ {url, origin} \subseteq Url
  /\ passed \in Seq(Part)
  /\ at \in {"sent", "handled", "forwarded", "answered", "refused"}

(* Whatever text a client sent, all nodes on the way handle one and the    *)
(* same url: what was taken off and what is left make the route the first  *)
(* node saw, which is not empty at a node that pops it, and the geosub     *)
(* query, the resource and the query arrive as they were                   *)
(* (protocol_handler.cpp:88-145 through netspace_url.cpp:20-121).          *)
RouteUnfolds ==
  at \in {"handled", "forwarded"} =>
    /\ url.gsn # <<>>
    /\ url.gsn \o Reverse(passed) = origin.gsn
    /\ <<url.glq, url.res, url.spq>> = <<origin.glq, origin.res, origin.spq>>

(* A text of the documented form: the components in their order, each at   *)
(* most once, dots in the route only, and a letter after ':', '/' and '?'. *)
Order(ch) == CASE ch = "." -> 1 [] ch = ":" -> 2 [] ch = "/" -> 3 [] ch = "?" -> 4 [] OTHER -> 0

WellFormed(s) ==
  /\ \A i \in DOMAIN s : s[i] # Nul
  /\ \A i, j \in DOMAIN s :
       i < j /\ Order(s[i]) > 0 /\ Order(s[j]) > 0
       => Order(s[i]) < Order(s[j]) \/ (s[i] = "." /\ s[j] = ".")
  /\ \A i \in DOMAIN s : Order(s[i]) > 1 => i < Len(s) /\ s[i + 1] \in Letters

(* "Carbon-copy reconstruction": a url that is decoded and written again   *)
(* is the same text (mod_netspace_url.cpp:105-107).                        *)
CarbonCopy ==
  (at = "handled" /\ passed = <<>> /\ WellFormed(text)) => ToUrl(url) = text

================================================================================
