------------------------------- MODULE RootProcess -------------------------------
(***************************************************************************)
(* The process of a root node: one thread runs the io_service that the UDP *)
(* service (nodes/root/resolution_service.cpp) and the HTTP service with   *)
(* its sessions (http_service.cpp, http_session.cpp) share; both answer    *)
(* from the same netspace table.                                           *)
(*                                                                         *)
(* The kernel completes an operation between two handlers and the thread   *)
(* runs the completed handlers one by one.  A query keeps the thread until *)
(* the nodes asked have answered, and they may not (QueryFanout has its    *)
(* steps); nothing else runs meanwhile.  An exception in a handler leaves  *)
(* io_service::run and ends the process.                                   *)
(*                                                                         *)
(* RootNode's recv, peer and reply are the request, address and packet of  *)
(* the handler that ran last, queries aside.  What becomes of a reply that *)
(* was handed to a socket is not modelled.                                 *)
(***************************************************************************)
EXTENDS RootNode

CONSTANTS
  UdpClients,  \* whoever sends datagrams
  HttpClients, \* whoever connects to port 55380
  ClientAddr,  \* the address of a client
  Asks,        \* the requests a client sends, each of them once on UDP
  Nobody,      \* no client
  Garbled,     \* what a request may be taken for of which a part was read
  MaxFaults    \* bound: errors, requests in part and hang-ups, all together

Clients == UdpClients \cup HttpClients

(* Requests for which process_packet throws: a url that is malformed or,   *)
(* where one is expected, no content (netspace_url.cpp:22, dvsp_packet.cpp:*)
(* 42), a registration of a negative length (protocol_handler.cpp:55), a   *)
(* geosub query the database fails for.                                    *)
Throwing == [op |-> "throwing"]

(* gsn_request *)
Query == [op |-> "query"]

Request == Packet \cup {Throwing, Query}

ASSUME ProcessAssumption ==
  /\ UdpClients \cap HttpClients = {} /\ Nobody \notin Clients
  /\ ClientAddr \in [Clients -> Addrs]
  /\ Asks \in [Clients -> SUBSET Request]
  /\ Garbled \subseteq Request

VARIABLES
  busy,        \* for whose query the thread waits
  todo,        \* per UDP client: what it has not sent yet
  queue,       \* the datagrams in the UDP socket
  rx,          \* its receive: "none", "posted", or "filled" and the handler ready
  m_recv,      \* resolution_service::m_recv, as the request its bytes make
  leftover,    \* the registration whose frame is in m_recv behind the header
  m_remote_ep, \* resolution_service::m_remote_ep
  acc,         \* the accept: "posted", "filled" or "error"
  m_socket,    \* http_service::m_socket: whose connection is in it
  conn,        \* per HTTP client: where its connection is
  data,        \* per HTTP client: how much of its request is in the socket
  gone,        \* HTTP clients that have hung up
  cut,         \* clients that sent a short datagram or whose request was
               \* read in part
  faults       \* how much of the bound is used

socketVars == <<queue, rx, m_recv, leftover, m_remote_ep>>
httpVars == <<acc, m_socket, conn, data, gone>>
processVars == <<vars, busy, todo, socketVars, httpVars, cut, faults>>

Fault == faults < MaxFaults /\ faults' = faults + 1

ProcessInit ==
  /\ Init
  /\ busy = Nobody
  /\ todo = [c \in UdpClients |-> Asks[c]]
  /\ queue = {} /\ rx = "posted"
  /\ m_recv = NoPacket /\ leftover = NoPacket /\ m_remote_ep = Nobody
  /\ acc = "posted" /\ m_socket = Nobody
  /\ conn = [c \in HttpClients |-> "none"]
  /\ data = [c \in HttpClients |-> "none"]
  /\ gone = {} /\ cut = {}
  /\ faults = 0

InService(c) == conn[c] \in {"queued", "held", "session"}

(* An exception leaves io_service::run and main returns: tables, buffers,  *)
(* sockets and connections are gone.                                       *)
Unwind ==
  /\ Crash
  /\ busy' = Nobody
  /\ queue' = {} /\ rx' = "none"
  /\ m_recv' = NoPacket /\ leftover' = NoPacket /\ m_remote_ep' = Nobody
  /\ acc' = "none" /\ m_socket' = Nobody
  /\ conn' = [c \in HttpClients |-> IF InService(c) THEN "closed" ELSE conn[c]]
  /\ data' = [c \in HttpClients |-> "none"] /\ gone' = {}
  /\ UNCHANGED <<todo, faults>>

(* The thread is free to run handlers *)
Idle == up /\ busy = Nobody

--------------------------------------------------------------------------------
(* UDP *)

(* A datagram may be short: the header of a registration without the frame *)
SendDatagram(c) ==
  /\ \E p \in todo[c], whole \in BOOLEAN :
       /\ \/ whole /\ UNCHANGED <<cut, faults>>
          \/ ~whole /\ p.op = "register" /\ cut' = cut \cup {c} /\ Fault
       /\ todo' = [todo EXCEPT ![c] = @ \ {p}]
       /\ queue' = IF up THEN queue \cup {[from |-> c, p |-> p, whole |-> whole]} ELSE queue
  /\ UNCHANGED <<vars, busy, rx, m_recv, leftover, m_remote_ep, httpVars>>

(* Behind the header is what was received before; bytes that are not of a  *)
(* registration may be taken for any.                                      *)
TakenFor(d) ==
  IF d.whole THEN {d.p}
  ELSE IF leftover # NoPacket THEN {leftover}
  ELSE {p \in Garbled : p.op = "register"} \cup {Throwing}

(* The frame stays in the buffer while requests without content come; any  *)
(* other content is written over it.                                       *)
LeftBy(d) ==
  IF ~d.whole \/ d.p \in PlainPacket THEN leftover
  ELSE IF d.p.op = "register" THEN d.p
  ELSE NoPacket

TakeIn(d) ==
  /\ queue' = queue \ {d}
  /\ rx' = "filled"
  /\ m_recv' \in TakenFor(d)
  /\ leftover' = LeftBy(d)
  /\ m_remote_ep' = d.from

(* The kernel completes the receive that is posted *)
CompleteReceive ==
  /\ Idle /\ rx = "posted"
  /\ \E d \in queue : TakeIn(d)
  /\ UNCHANGED <<vars, busy, todo, httpVars, cut, faults>>

(* start_recv: what has arrived already is received at once *)
StartRecv ==
  \/ queue = {} /\ rx' = "posted" /\ UNCHANGED <<queue, m_recv, leftover, m_remote_ep>>
  \/ \E d \in queue : TakeIn(d)

(* receive copies the address before the request is handled *)
InboundAddrLate == ClientAddr[m_remote_ep']   \* a mistake: read after start_recv
InboundAddr == ClientAddr[m_remote_ep]

(* resolution_service::receive, whoever the bytes in m_recv came from *)
UdpReceive ==
  /\ Idle /\ rx = "filled"
  /\ \/ /\ StartRecv
        /\ ProcessPacket(m_recv, InboundAddr)
        /\ UNCHANGED <<busy, todo, httpVars, cut, faults>>
     \/ /\ m_recv = Query
        /\ busy' = m_remote_ep
        /\ UNCHANGED <<vars, todo, socketVars, httpVars, cut, faults>>
     \/ m_recv = Throwing /\ Unwind /\ UNCHANGED cut

(* receive with an error returns before start_recv *)
UdpReceiveError ==
  /\ Idle /\ rx = "posted"
  /\ Fault
  /\ rx' = "none"
  /\ UNCHANGED <<vars, busy, todo, queue, m_recv, leftover, m_remote_ep, httpVars, cut>>

--------------------------------------------------------------------------------
(* HTTP *)

Connect(c) ==
  /\ up /\ conn[c] \in {"none", "closed"}
  /\ conn' = [conn EXCEPT ![c] = "queued"]
  /\ UNCHANGED <<vars, busy, todo, socketVars, acc, m_socket, data, gone, cut, faults>>

(* A request arrives in one segment or in two *)
Send(c, d) ==
  /\ InService(c) /\ c \notin gone
  /\ \/ data[c] = "none" /\ d = "part" /\ Fault
     \/ data[c] # "whole" /\ d = "whole" /\ UNCHANGED faults
  /\ data' = [data EXCEPT ![c] = d]
  /\ UNCHANGED <<vars, busy, todo, socketVars, acc, m_socket, conn, gone, cut>>

HangUp(c) ==
  /\ InService(c) /\ c \notin gone
  /\ Fault
  /\ gone' = gone \cup {c}
  /\ UNCHANGED <<vars, busy, todo, socketVars, acc, m_socket, conn, data, cut>>

(* The kernel completes the accept that is posted *)
CompleteAccept ==
  /\ Idle /\ acc = "posted"
  /\ \/ \E c \in HttpClients :
          /\ conn[c] = "queued"
          /\ acc' = "filled" /\ m_socket' = c
          /\ conn' = [conn EXCEPT ![c] = "held"]
          /\ UNCHANGED faults
     \/ Fault /\ acc' = "error" /\ UNCHANGED <<m_socket, conn>>
  /\ UNCHANGED <<vars, busy, todo, socketVars, data, gone, cut>>

DoAcceptNot == acc' = "none"   \* a mistake: one connection is enough
DoAccept == acc' = "posted"

(* m_socket is moved into a session *)
NotMoved == UNCHANGED m_socket   \* a mistake: the session gets a reference
Moved == m_socket' = Nobody

(* The handler of do_accept: a session is made, which starts to read *)
AcceptHandler ==
  /\ Idle
  /\ \/ acc = "filled" /\ conn' = [conn EXCEPT ![m_socket] = "session"] /\ Moved
     \/ acc = "error" /\ UNCHANGED <<conn, m_socket>>
  /\ DoAccept
  /\ UNCHANGED <<vars, busy, todo, socketVars, data, gone, cut, faults>>

(* The session of a client is over and its socket closed *)
CloseSession(c, as) ==
  /\ conn' = [conn EXCEPT ![c] = as]
  /\ data' = [data EXCEPT ![c] = "none"]
  /\ gone' = gone \ {c}
  /\ UNCHANGED <<acc, m_socket>>

(* async_read_some with an error: the connection was closed, or reset with *)
(* bytes unread.                                                           *)
ReadErrorGoesOn(c) ==   \* a mistake: no return, and remote_endpoint throws
  c \in gone /\ UNCHANGED cut /\ Unwind

ReadError(c) ==
  /\ c \in gone
  /\ CloseSession(c, "closed")
  /\ UNCHANGED <<vars, busy, todo, socketVars, cut, faults>>

(* The packet a session reads is handled and the reply written; if the     *)
(* client reset the connection, remote_endpoint or write throws.           *)
HandleFor(c, p) ==
  \/ /\ ProcessPacket(p, ClientAddr[c])
     /\ CloseSession(c, "answered")
     /\ UNCHANGED <<busy, todo, socketVars, faults>>
  \/ /\ p = Query
     /\ busy' = c
     /\ UNCHANGED <<vars, todo, socketVars, httpVars, faults>>
  \/ p = Throwing /\ Unwind
  \/ c \in gone /\ Unwind

ReadWhole(c) ==
  /\ data[c] = "whole"
  /\ \E p \in Asks[c] : HandleFor(c, p)
  /\ UNCHANGED cut

(* One read_some is taken for a whole request: http_to_bin and the packet  *)
(* read past what there is, and make it some other packet, or throw.       *)
ReadPart(c) ==
  /\ data[c] = "part"
  /\ cut' = cut \cup {c}
  /\ Unwind \/ \E p \in Garbled : HandleFor(c, p)

ReadHandler(c) ==
  /\ Idle /\ conn[c] = "session"
  /\ ReadError(c) \/ ReadWhole(c) \/ ReadPart(c)

--------------------------------------------------------------------------------
(* The handler whose query kept the thread returns, with the reply sent or *)
(* written, or because a node refused (send_frame throws) or the client is *)
(* gone.                                                                   *)
QueryReturns ==
  /\ busy # Nobody
  /\ \/ busy \in UdpClients /\ StartRecv /\ busy' = Nobody
        /\ UNCHANGED <<vars, todo, httpVars, faults>>
     \/ busy \in HttpClients /\ CloseSession(busy, "answered") /\ busy' = Nobody
        /\ UNCHANGED <<vars, todo, socketVars, faults>>
     \/ Unwind
  /\ UNCHANGED cut

(* main: both services start again, with an empty table *)
StartServices ==
  /\ Restart
  /\ rx' = "posted" /\ DoAccept
  /\ UNCHANGED <<busy, todo, queue, m_recv, leftover, m_remote_ep>>
  /\ UNCHANGED <<m_socket, conn, data, gone, cut, faults>>

ProcessNext ==
  \/ \E c \in UdpClients : SendDatagram(c)
  \/ CompleteReceive
  \/ UdpReceive
  \/ UdpReceiveError
  \/ \E c \in HttpClients : Connect(c) \/ HangUp(c) \/ ReadHandler(c)
  \/ \E c \in HttpClients, d \in {"part", "whole"} : Send(c, d)
  \/ CompleteAccept
  \/ AcceptHandler
  \/ QueryReturns
  \/ StartServices

(* The kernel completes what can be completed and the thread, when no      *)
(* query keeps it, runs every handler that is ready.  Nothing makes a      *)
(* query return.                                                           *)
ProcessFairness ==
  /\ WF_processVars(CompleteReceive)
  /\ WF_processVars(UdpReceive)
  /\ WF_processVars(CompleteAccept)
  /\ WF_processVars(AcceptHandler)
  /\ \A c \in HttpClients : WF_processVars(ReadHandler(c))

ProcessSpec == ProcessInit /\ [][ProcessNext]_processVars /\ ProcessFairness

--------------------------------------------------------------------------------
(* What the kernel has, what the services hold and where connections are;  *)
(* the connection in m_socket is the one that is held, and no other, and   *)
(* the thread waits for the client whose handler has not returned.         *)
ProcessTypeOK ==
  /\ TypeOK
  /\ busy \in Clients \cup {Nobody}
  /\ busy \in UdpClients => busy = m_remote_ep /\ rx = "filled"
  /\ busy \in HttpClients => conn[busy] = "session"
  /\ queue \subseteq [from : UdpClients, p : Request, whole : BOOLEAN]
  /\ rx \in {"none", "posted", "filled"}
  /\ rx = "filled" => m_remote_ep \in UdpClients /\ m_recv \in Request
  /\ acc \in {"none", "posted", "filled", "error"}
  /\ conn \in [HttpClients -> {"none", "queued", "held", "session", "answered", "closed"}]
  /\ data \in [HttpClients -> {"none", "part", "whole"}]
  /\ {c \in HttpClients : conn[c] = "held"} = {m_socket} \ {Nobody}
  /\ gone \subseteq HttpClients /\ cut \subseteq Clients

(* The requests of a client that may have been handled *)
HandledFor(c) ==
  IF c \in UdpClients THEN Asks[c] \ todo[c]
  ELSE IF conn[c] = "answered" THEN Asks[c] ELSE {}

(* Whoever is in the table asked to be there: its address is that of a     *)
(* client that has sent this registration, however UDP and HTTP requests   *)
(* interleave in the buffers the services share; only a client of whose    *)
(* own request a part was read, or that sent a datagram shorter than its   *)
(* header says, may be in it under names it did not send: those that an    *)
(* earlier datagram of anybody left in m_recv, say (resolution_service.cpp:*)
(* 33-38, http_session.cpp:20-25).                                         *)
NodesAskedToBeThere ==
  \A n \in Range(table) :
    \E c \in Clients :
      /\ ClientAddr[c] = n.addr
      /\ \/ c \in cut
         \/ \E p \in HandledFor(c) :
              p.op = "register" /\ HostOf(p.text) = n.host /\ SuidOf(p.text) = n.suid

(* What ends the process is a request for which process_packet throws, be  *)
(* it whole or what was left in a buffer, a query, or an HTTP client that  *)
(* sent part of a request or hung up after it sent one; a connection that  *)
(* is closed before it carries anything does not, nor does a well-formed   *)
(* request of whoever stays (resolution_service.cpp:38, http_session.cpp:  *)
(* 20-27, http_service.hpp:45-47).                                         *)
EndsOnlyFor ==
  [][ up /\ ~up' =>
        \/ rx = "filled" /\ m_recv = Throwing
        \/ busy # Nobody
        \/ \E c \in HttpClients :
             /\ conn[c] = "session"
             /\ \/ data[c] = "part"
                \/ data[c] = "whole" /\ (c \in gone \/ Throwing \in Asks[c]) ]_processVars

(* Both services together are still one registry *)
ProcessImplementsRegistry == Abstract!Spec

(* As long as every query returns, a client that sent its whole request    *)
(* and stays is answered unless the process ends, whatever the other       *)
(* clients do and even when the UDP service does not receive any more: the *)
(* acceptor accepts again after every connection and every error           *)
(* (http_service.cpp:19-30), and both services get their turn after a      *)
(* query.  One query that does not return is enough to break this          *)
(* (http_service.hpp:29-44).                                               *)
HttpAnswered ==
  []<>(busy = Nobody) =>
    \A c \in HttpClients :
      (InService(c) /\ data[c] = "whole") ~> (conn[c] = "answered" \/ c \in gone \/ ~up)

================================================================================
