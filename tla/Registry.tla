-------------------------------- MODULE Registry --------------------------------
(***************************************************************************)
(* What a root node promises about registration, without its table: a set  *)
(* of nodes in which no two share a hostname or a SUID, and in which a     *)
(* request is answered by what it did.  A node enters the set only by a    *)
(* registration that was answered ok, and leaves it only by an             *)
(* unregistration from the address it registered from or when the process  *)
(* ends.                                                                   *)
(***************************************************************************)
CONSTANTS
  Node,       \* the records a registration can make: host, suid, addr, ...
  Addrs       \* the addresses requests come from

VARIABLES
  registered, \* the nodes that are registered
  answer      \* what the last request asked and how it was answered

vars == <<registered, answer>>

Answer(op, from, code) == [op |-> op, from |-> from, code |-> code]
NoAnswer == Answer("none", "any", "none")

Clashes(n) == \E m \in registered : m.host = n.host \/ m.suid = n.suid

Init == registered = {} /\ answer = NoAnswer

(* A registration that takes nobody's name *)
Register(n) ==
  /\ ~Clashes(n)
  /\ registered' = registered \cup {n}
  /\ answer' = Answer("register", n.addr, "ok")

RefuseDuplicate(n) ==
  /\ Clashes(n)
  /\ registered' = registered
  /\ answer' = Answer("register", n.addr, "netspace_duplicate")

RefuseMalformed(a) ==
  /\ registered' = registered
  /\ answer' = Answer("register", a, "malformed_content")

(* An unregistration takes away one node of the address it comes from *)
Unregister(n) ==
  /\ n \in registered
  /\ registered' = registered \ {n}
  /\ answer' = Answer("unregister", n.addr, "ok")

RefuseUnknown(a) ==
  /\ \A n \in registered : n.addr # a
  /\ registered' = registered
  /\ answer' = Answer("unregister", a, "netspace_error")

(* Every other request only reads *)
Inspect ==
  /\ registered' = registered
  /\ answer' = Answer("inspect", "any", "any")

(* The process ends, and with it all it knew *)
Forget ==
  /\ registered' = {}
  /\ answer' = NoAnswer

Next ==
  \/ \E n \in Node : Register(n) \/ RefuseDuplicate(n) \/ Unregister(n)
  \/ \E a \in Addrs : RefuseUnknown(a) \/ RefuseMalformed(a)
  \/ Inspect
  \/ Forget

Spec == Init /\ [][Next]_vars

================================================================================
