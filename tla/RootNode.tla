-------------------------------- MODULE RootNode --------------------------------
(***************************************************************************)
(* A root node answering requests: protocol_handler::process_packet        *)
(* (nodes/root/protocol_handler.cpp) over the netspace table.              *)
(*                                                                         *)
(* One thread runs the io_service (nodes/root/entry.cpp), so a handler is  *)
(* atomic: a request is read, the table changed and the reply built before *)
(* the next request is looked at.  The table lives in memory only; when    *)
(* the process ends, whatever ended it, every registration is gone.        *)
(* Queries, whose handler waits for other nodes, are in QueryFanout.       *)
(*                                                                         *)
(* The text of a registration is cut at its first '|': one name without a  *)
(* '|', else the name before it and, as one name, all that follows,        *)
(* whatever marks that holds.  A url is its decoded route and geosub query.*)
(***************************************************************************)
EXTENDS NetspaceTable

CONSTANTS
  Names,      \* hostnames, SUIDs and route elements
  EmptyName,  \* the empty string, a name like any other to the table
  Addrs,      \* the addresses requests come from
  Protocols,  \* service_protocol
  TypeBytes,  \* what the signed type byte of a registration may hold
  Routes,     \* the routes of the urls asked for
  Queries,    \* the geosub queries of the urls asked for
  NoQuery,    \* a url without a geosub query
  Geosub      \* the metaspace database: the geosub of a query, or EmptyName

ASSUME EmptyNameAssumption == EmptyName \in Names
ASSUME TypeBytesAssumption == TypeBytes \subseteq -128..127
ASSUME RoutesAssumption == Routes \subseteq Seq(Names) \ {<<>>}
ASSUME GeosubAssumption == NoQuery \notin Queries /\ Geosub \in [Queries -> Names]

(* enum netnode_type *)
Root == 1
Org == 2
FinalType == 5

Node == [type : TypeBytes, host : Names, suid : Names, addr : Addrs, proto : Protocols]

Texts == {<<h>> : h \in Names} \cup {<<h, s>> : h, s \in Names}
Url == [route : Routes, glq : Queries \cup {NoQuery}]

RegisterPacket == [op : {"register"}, type : TypeBytes, text : Texts, proto : Protocols]
ResolvePacket == [op : {"resolve"}, url : Url]
HostnamePacket == [op : {"hostname"}, addr : Addrs]
PlainPacket == [op : {"unregister", "local_area", "root_nodes", "unknown"}]
Packet == RegisterPacket \cup ResolvePacket \cup HostnamePacket \cup PlainPacket

(* A reply: its message type, its response code ("text" when the content   *)
(* is text and has none), the nodes it tells of, and the url's route when  *)
(* the request is to be sent on.                                           *)
Reply(type, code, nodes, route) ==
  [type |-> type, code |-> code, nodes |-> nodes, route |-> route]

Response(code) == Reply("gsn_response", code, {}, <<>>)
Describe(node) == Reply("gsn_response", "ok", {node}, <<>>)
Listing(nodes) == Reply("gsn_response", "text", nodes, <<>>)
Forward(node, route) == Reply("gsn_resolution", "text", {node}, route)

NoPacket == [op |-> "none"]
NoReply == Reply("none", "none", {}, <<>>)

VARIABLES
  table,    \* netspace_table::m_table
  up,       \* the root node's process is running
  recv,     \* in: the request handled last
  peer,     \* inbound_addr: where it came from
  reply     \* the packet process_packet returned for it

vars == <<table, up, recv, peer, reply>>

Init ==
  /\ table = <<>>
  /\ up = TRUE
  /\ recv = NoPacket
  /\ peer \in Addrs
  /\ reply = NoReply

Receive(p, a) == up /\ recv' = p /\ peer' = a /\ UNCHANGED up

(* std::string::find('|') and the two substr: without a '|' the increment  *)
(* of npos wraps to 0 and the SUID is the whole text, as the hostname is.  *)
WholeText(text) == text   \* a mistake: nothing is cut off
HostOf(text) == text[1]
SuidOf(text) == text[Len(text)]

(* Somebody has the hostname or the SUID of a registration *)
TakenHost(host, suid) == FindHost(table, host) # EndOf(table)   \* a mistake: no look at the SUIDs
NeverTaken(host, suid) == FALSE                                 \* a mistake: no look at all
Taken(host, suid) == FindHost(table, host) # EndOf(table) \/ FindSuid(table, suid) # EndOf(table)

RegisterHost(p, a) ==
  LET host == HostOf(p.text)
      suid == SuidOf(p.text)
      node == [type |-> p.type, host |-> host, suid |-> suid, addr |-> a, proto |-> p.proto]
  IN  /\ p.op = "register"
      /\ Receive(p, a)
      /\ \/ /\ p.type >= FinalType
            /\ reply' = Response("malformed_content")
            /\ UNCHANGED table
         \/ /\ p.type < FinalType
            /\ Taken(host, suid)
            /\ reply' = Response("netspace_duplicate")
            /\ UNCHANGED table
         \/ /\ p.type < FinalType
            /\ ~Taken(host, suid)
            /\ table' = AddNode(table, node)
            /\ reply' = Response("ok")

UnregisterHost(p, a) ==
  LET it == FindAddr(table, a)
  IN  /\ p.op = "unregister"
      /\ Receive(p, a)
      /\ \/ /\ it = EndOf(table)
            /\ reply' = Response("netspace_error")
            /\ UNCHANGED table
         \/ /\ it # EndOf(table)
            /\ table' = EraseNode(table, it)
            /\ reply' = Response("ok")

(* metaspace_gsn::resolve_gsn: the geosub of a postcode or of a county, or *)
(* the empty name without a row; its exceptions end the process.           *)
GeosubOf(query) == Geosub[query]

(* route.back(): on an empty vector it reads outside the vector, and the   *)
(* name looked up may be any.                                              *)
RouteBack(route) == IF route = <<>> THEN Names ELSE {Last(route)}

ResolveGsn(p, a) ==
  LET route == Front(p.url.route)
      bySubnet == route = <<>> /\ p.url.glq # NoQuery
  IN  /\ p.op = "resolve"
      /\ Receive(p, a)
      /\ \E host \in IF bySubnet THEN {GeosubOf(p.url.glq)} ELSE RouteBack(route) :
           LET it == FindHost(table, host)
           IN  reply' = IF it = EndOf(table) THEN Response("netspace_error")
                        ELSE IF bySubnet \/ Len(route) = 1 THEN Describe(table[it])
                        ELSE Forward(table[it], route)
      /\ UNCHANGED table

LocalGsn(p, a) ==
  /\ p.op = "local_area"
  /\ Receive(p, a)
  /\ reply' = Listing(NodesOf(table, Org))
  /\ UNCHANGED table

RootNodes(p, a) ==
  /\ p.op = "root_nodes"
  /\ Receive(p, a)
  /\ reply' = Listing(NodesOf(table, Root))
  /\ UNCHANGED table

Hostname(p, a) ==
  LET it == FindAddr(table, p.addr)
  IN  /\ p.op = "hostname"
      /\ Receive(p, a)
      /\ reply' = IF it = EndOf(table) THEN Response("netspace_error")
                  ELSE Describe(table[it])
      /\ UNCHANGED table

(* The default of the switch in process_packet *)
UnknownType(p, a) ==
  /\ p.op = "unknown"
  /\ Receive(p, a)
  /\ reply' = Response("malformed_content")
  /\ UNCHANGED table

ProcessPacket(p, a) ==
  \/ RegisterHost(p, a)
  \/ UnregisterHost(p, a)
  \/ ResolveGsn(p, a)
  \/ LocalGsn(p, a)
  \/ RootNodes(p, a)
  \/ Hostname(p, a)
  \/ UnknownType(p, a)

(* The process ends: it is stopped, or an exception leaves io_service::run *)
(* and main returns.                                                       *)
Crash ==
  /\ up
  /\ up' = FALSE
  /\ table' = <<>>
  /\ recv' = NoPacket
  /\ reply' = NoReply
  /\ UNCHANGED peer

(* main: a new process starts with an empty table *)
Restart ==
  /\ ~up
  /\ up' = TRUE
  /\ UNCHANGED <<table, recv, peer, reply>>

Next ==
  \/ \E p \in Packet, a \in Addrs : ProcessPacket(p, a)
  \/ Crash
  \/ Restart

Spec == Init /\ [][Next]_vars

--------------------------------------------------------------------------------
(* Every component holds what its C++ type can hold; the replies' nodes are *)
(* copies of table entries.                                                 *)
TypeOK ==
  /\ table \in Seq(Node)
  /\ up \in BOOLEAN
  /\ recv \in Packet \cup {NoPacket}
  /\ peer \in Addrs
  /\ reply.nodes \subseteq Node
  /\ reply.route \in Seq(Names)

(* No two registered nodes have the same hostname, nor the same SUID,      *)
(* however registrations, unregistrations and restarts interleave          *)
(* (protocol_handler.cpp:61-65 is the only place that looks).              *)
DistinctKeys(t) ==
  \A i, j \in DOMAIN t : i # j => t[i].host # t[j].host /\ t[i].suid # t[j].suid

UniqueKeys == DistinctKeys(table)

(* A node was registered before another *)
Before(t, m, n) == \E i, j \in DOMAIN t : i < j /\ t[i] = m /\ t[j] = n

(* ... before every other node of its address *)
Oldest(t, n) == \A m \in Range(t) \ {n} : m.addr = n.addr => Before(t, n, m)

(* One node joins, as the last, or one leaves, as the oldest, and it is of *)
(* the address the request came from; the others keep their order.         *)
QueueStep ==
  LET staying == Range(table) \cap Range(table')
      joining == Range(table') \ Range(table)
      leaving == Range(table) \ Range(table')
  IN  /\ \A m, n \in joining \cup leaving : m = n
      /\ \A n \in joining \cup leaving : n.addr = peer'
      /\ \A n \in joining, m \in staying : Before(table', m, n)
      /\ \A n \in leaving : Oldest(table, n)
      /\ \A m, n \in staying : Before(table, m, n) <=> Before(table', m, n)

(* An address may hold several registrations; they form a queue.  A        *)
(* request adds or takes away one of its sender's at most: it puts a new   *)
(* one behind those it has and takes away its oldest, and no queue changes *)
(* its order.  So hostname and unregister requests always speak of the     *)
(* oldest registration that is left (netspace_table.cpp:17-26 under        *)
(* protocol_handler.cpp:80-84).                                            *)
FifoPerAddress == [][table' # table /\ up /\ up' => QueueStep]_vars

(* The table implements the registry: as a set of nodes, with the reply to *)
(* the last request read as the answer to it.                              *)
AbstractAnswer ==
  IF recv.op \in {"register", "unregister"} THEN [op |-> recv.op, from |-> peer, code |-> reply.code]
  ELSE IF recv.op = "none" THEN [op |-> "none", from |-> "any", code |-> "none"]
  ELSE [op |-> "inspect", from |-> "any", code |-> "any"]

Abstract == INSTANCE Registry WITH
  registered <- Range(table),
  answer <- AbstractAnswer

ImplementsRegistry == Abstract!Spec

(* What a test says that the code does not do.  "Register existing IP":    *)
(* registering again from an address that is in the table already is       *)
(* answered with netspace_error (mod_root_protocol.cpp:52-58).             *)
ReRegistrationIsTableError ==
  [][ (up /\ up' /\ recv'.op = "register" /\ recv'.type < FinalType
         /\ FindAddr(table, peer') # EndOf(table))
      => reply'.code = "netspace_error" ]_vars

================================================================================
