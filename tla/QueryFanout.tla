------------------------------- MODULE QueryFanout -------------------------------
(***************************************************************************)
(* Queries: protocol_handler::query passes a request on to one node or to  *)
(* all http nodes of the table (nodes/root/protocol_handler.cpp) and waits *)
(* for each of them in http_service::send_frame, which connects, writes    *)
(* and reads once, without a timeout, in the only thread of the process.   *)
(*                                                                         *)
(* So a handler is not atomic any more: while a query runs the nodes act,  *)
(* and nothing else is handled.  An exception of a connection leaves the   *)
(* handler and io_service::run, and ends the process.                      *)
(*                                                                         *)
(* The answer of a node is modelled by the SUID of the node it is from,    *)
(* and the reply to the query by the sequence of the answers in it.        *)
(***************************************************************************)
EXTENDS RootNode

CONSTANTS
  Gsn,    \* "esusx", the front of a route that means the whole network
  Http,   \* service_protocol::http
  Junk    \* what is made of an answer of which read_some returned a part

ASSUME JunkAssumption == Junk \notin Names

VARIABLES
  query,  \* the handler that runs: "none", "all" or "one"
  at,     \* its iterator
  conn,   \* the socket of send_frame: "none" or "open"
  parts,  \* the stringstream of the handler that runs or ran last
  heard,  \* what came of each node it asked, in the order it asked them
  server  \* per address: what is behind port 8080

fanVars == <<query, at, conn, parts, heard>>
queryVars == <<vars, fanVars, server>>

Idle == query = "none" /\ conn = "none"

FanoutInit ==
  /\ Init
  /\ Idle /\ at = 1
  /\ parts = <<>> /\ heard = <<>>
  /\ server \in [Addrs -> {"serves", "refuses", "silent"}]

(* Any other request, between queries *)
HandleAnytime(p, a) ==   \* a mistake: a second thread runs the io_service
  /\ ProcessPacket(p, a)
  /\ UNCHANGED <<fanVars, server>>

Handle(p, a) ==
  /\ Idle
  /\ ProcessPacket(p, a)
  /\ parts' = <<>> /\ heard' = <<>>
  /\ UNCHANGED <<query, at, conn, server>>

(* The first http node of the table from a position on *)
NextHttp(i) == FirstOf({j \in i..Len(table) : table[j].proto = Http}, EndOf(table))

(* query: the front of the route is the network or the SUID of a node, and *)
(* the query of the url, if it has one, is what the nodes are asked.       *)
StartQuery(front, text, a) ==
  /\ Idle
  /\ Receive([op |-> "request", front |-> front, text |-> text], a)
  /\ reply' = NoReply
  /\ \/ front = Gsn /\ query' = "all" /\ at' = NextHttp(1)
     \/ front # Gsn /\ query' = "one" /\ at' = FindSuid(table, front)
  /\ parts' = <<>> /\ heard' = <<>>
  /\ UNCHANGED <<table, conn, server>>

(* Where the handler goes on when a node has been asked *)
AfterTwice ==   \* a mistake: the iterator is advanced beyond the end
  IF query = "all" THEN NextHttp(at + 1) + 1 ELSE EndOf(table)

After == IF query = "all" THEN NextHttp(at + 1) ELSE EndOf(table)

(* send_frame up to its write *)
Connect ==
  /\ query # "none" /\ conn = "none"
  /\ at # EndOf(table)
  /\ server[table[at].addr] # "refuses"
  /\ conn' = "open"
  /\ UNCHANGED <<vars, query, at, parts, heard, server>>

(* A node is heard out: said is "ok", "error" for another code or another  *)
(* message type, or "garbled".                                             *)
Hear(said, more) ==
  /\ conn = "open"
  /\ server[table[at].addr] = "serves"
  /\ heard' = Append(heard, [suid |-> table[at].suid, said |-> said])
  /\ parts' = parts \o more
  /\ at' = After
  /\ conn' = "none"
  /\ UNCHANGED <<vars, query, server>>

(* One read_some gets the whole answer, or a part of it that http_to_bin   *)
(* and dvsp_packet read past: what they make of it may be anything.        *)
Answer ==
  \/ Hear("ok", <<table[at].suid>>)
  \/ Hear("error", <<>>)
  \/ \E more \in {<<>>, <<Junk>>} : Hear("garbled", more)

Forgotten == query' = "none" /\ at' = 1 /\ conn' = "none" /\ parts' = <<>> /\ heard' = <<>>

(* What an exception of send_frame does to the process; a mistake: the     *)
(* node is taken out of the table and the process goes on.                 *)
DropNode ==
  /\ table' = EraseNode(table, at)
  /\ UNCHANGED <<up, recv, peer, reply>>

Abandon == Crash

(* connect, write or read_some throws; so may the copy of a partial answer *)
SendFails ==
  /\ query # "none" /\ at # EndOf(table)
  /\ server[table[at].addr] = "refuses" \/ (conn = "open" /\ server[table[at].addr] = "serves")
  /\ Abandon
  /\ Forgotten
  /\ UNCHANGED server

(* The packet that is passed on is given the query as its content, for     *)
(* every node of the table.  Without a query that empties it, and the next *)
(* time, or when the handler ends, the old content is deleted again        *)
(* (DvspPacket): the process may end there, or go on.                      *)
EmptiedBefore ==
  /\ recv.text = "none"
  /\ IF query = "all" THEN at > 1 ELSE at = EndOf(table) /\ FindSuid(table, recv.front) # at

DeleteAgain ==
  /\ query # "none" /\ conn = "none"
  /\ EmptiedBefore
  /\ Crash
  /\ Forgotten
  /\ UNCHANGED server

(* query: its reply is the text of the answers, without a response code *)
FinishHeard ==   \* a mistake: no reply if there is nothing to tell
  /\ query # "none" /\ heard # <<>>
  /\ at = EndOf(table)
  /\ query' = "none"
  /\ reply' = Listing({})
  /\ UNCHANGED <<table, up, recv, peer, at, conn, parts, heard, server>>

Finish ==
  /\ query # "none"
  /\ at = EndOf(table)
  /\ query' = "none"
  /\ reply' = Listing({})
  /\ UNCHANGED <<table, up, recv, peer, at, conn, parts, heard, server>>

(* A node comes up, goes down, or stops to answer *)
ChangeServer(a, s) ==
  /\ server' = [server EXCEPT ![a] = s]
  /\ UNCHANGED <<vars, fanVars>>

Stop ==
  /\ Crash
  /\ Forgotten
  /\ UNCHANGED server

FanoutNext ==
  \/ \E p \in Packet, a \in Addrs : Handle(p, a)
  \/ \E route \in Routes, text \in {"some", "none"}, a \in Addrs : StartQuery(Head(route), text, a)
  \/ Connect
  \/ Answer
  \/ SendFails
  \/ DeleteAgain
  \/ Finish
  \/ \E a \in Addrs, s \in {"serves", "refuses", "silent"} : ChangeServer(a, s)
  \/ Stop
  \/ Restart /\ UNCHANGED <<fanVars, server>>

(* The thread runs, and a node that serves answers or breaks off. *)
FanoutFairness == WF_queryVars(Connect \/ Answer \/ SendFails \/ Finish)

FanoutSpec == FanoutInit /\ [][FanoutNext]_queryVars /\ FanoutFairness

--------------------------------------------------------------------------------
(* The iterator of a query never leaves the table (protocol_handler.cpp:   *)
(* 230, 258); socket, answers and servers have their types.                *)
FanoutTypeOK ==
  /\ query \in {"none", "all", "one"} /\ conn \in {"none", "open"}
  /\ query # "none" => at \in 1..EndOf(table)
  /\ parts \in Seq(Names \cup {Junk})
  /\ heard \in Seq([suid : Names, said : {"ok", "error", "garbled"}])
  /\ server \in [Addrs -> {"serves", "refuses", "silent"}]

(* The query that runs, or the one that was replied to last *)
Running(kind) == query = kind \/ (query = "none" /\ recv.op = "request"
                                  /\ kind = IF recv.front = Gsn THEN "all" ELSE "one")

SuidsOf(s) == [i \in DOMAIN s |-> s[i].suid]

(* A sequence holds what another has at some positions, each once, and in  *)
(* their order.                                                            *)
InOrder(s, t, positions) ==
  /\ \A k \in DOMAIN s : \E i \in positions : s[k] = t[i]
  /\ \A i \in positions : \E k \in DOMAIN s : s[k] = t[i]
  /\ \A k, l \in DOMAIN s, i, j \in positions :
       k < l /\ s[k] = t[i] /\ s[l] = t[j] => i < j

Passed == {i \in DOMAIN table : i < at /\ table[i].proto = Http}
SaidOk == {i \in DOMAIN heard : heard[i].said = "ok"}

(* A query of the network asks every http node that is registered, once    *)
(* and in the order of the table, and nobody else; its reply holds just    *)
(* the answers that were ok, in that order, as long as none was garbled.   *)
(* Registrations that arrive meanwhile wait, so the table it speaks of     *)
(* when it is done is the one it began with (protocol_handler.cpp:253-287).*)
AnswersCollected ==
  /\ Running("all") => at <= EndOf(table) /\ InOrder(SuidsOf(heard), SuidsOf(table), Passed)
  /\ Running("one") => /\ recv.op = "request"
                       /\ heard = <<>> \/ SuidsOf(heard) = <<recv.front>>
  /\ (\A i \in DOMAIN heard : heard[i].said # "garbled") => InOrder(parts, SuidsOf(heard), SaidOk)

(* A query changes no registration, whatever the nodes answer; all that it *)
(* can do to the table is to end the process.  The node still implements   *)
(* the registry (protocol_handler.cpp:209-287, http_service.hpp:14-38).    *)
FanoutImplementsRegistry == Abstract!Spec

(* If nodes do not keep silent for ever, every query ends, with a reply or *)
(* with the process (http_service.hpp:29-32 waits without a timeout).      *)
QueriesEnd ==
  (<>[](\A a \in Addrs : server[a] # "silent")) => [](query # "none" => <>(query = "none"))

================================================================================
