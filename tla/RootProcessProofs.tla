--------------------------- MODULE RootProcessProofs ---------------------------
(***************************************************************************)
(* Proofs about RootProcess, for any clients and requests: the process is  *)
(* a root node whatever its services share, so it implements the registry; *)
(* who gets into the table; and what can end the process.                  *)
(***************************************************************************)
EXTENDS RootProcess, RootNodeProofs

(* What a client has sent is what it asks and has not still to send.       *)
SentBy(c, p) == c \in UdpClients /\ p \in Asks[c] \ todo[c]

(* What is in the socket, whole, and in m_recv, once it is filled, somebody*)
(* sent; or it is short, or read from a short datagram.                    *)
Received ==
  /\ todo \in [UdpClients -> SUBSET Request]
  /\ \A c \in UdpClients : todo[c] \subseteq Asks[c]
  /\ queue \subseteq [from : UdpClients, p : Request, whole : BOOLEAN]
  /\ rx \in {"none", "posted", "filled"}
  /\ leftover \in RegisterPacket \cup {NoPacket}
  /\ \A d \in queue : IF d.whole THEN SentBy(d.from, d.p) ELSE d.from \in cut
  /\ rx = "filled" =>
       /\ m_remote_ep \in UdpClients /\ m_recv \in Request
       /\ SentBy(m_remote_ep, m_recv) \/ m_remote_ep \in cut

LEMMA ReceivedInit == ProcessInit => Received
BY ProcessAssumption DEF ProcessInit, Received, Clients

(* The operation of a request tells what it is.                            *)
LEMMA RequestKinds ==
  ASSUME NEW p \in Request
  PROVE  /\ p.op = "register" => p \in RegisterPacket
         /\ p.op \notin {"throwing", "query"} => p \in Packet
         /\ p \in Packet => p.op \notin {"throwing", "query"}
         /\ RegisterPacket \cup {Throwing} \subseteq Request
BY DEF Request, Packet, RegisterPacket, ResolvePacket, HostnamePacket, PlainPacket, Throwing, Query

LEMMA HandledIsPacket ==
  ASSUME NEW p \in Request, NEW a, ProcessPacket(p, a)
  PROVE  p \in Packet
BY RequestKinds
   DEF ProcessPacket, RegisterHost, UnregisterHost, ResolveGsn, LocalGsn, RootNodes, Hostname, UnknownType

LEMMA TakeInReceives ==
  ASSUME Received, NEW d \in queue, TakeIn(d), UNCHANGED <<todo, cut>>
  PROVE  Received'
<1>1. d \in [from : UdpClients, p : Request, whole : BOOLEAN] /\ d.p \in Request
  BY DEF Received
<1>2. TakenFor(d) \subseteq Request /\ LeftBy(d) \in RegisterPacket \cup {NoPacket}
  BY <1>1, RequestKinds, ProcessAssumption DEF Received, TakenFor, LeftBy
<1>3. d.whole => m_recv' = d.p
  BY DEF TakeIn, TakenFor
<1>4. SentBy(m_remote_ep, m_recv)' \/ m_remote_ep' \in cut'
  BY <1>3 DEF Received, TakeIn, SentBy
<1>5. queue' \subseteq queue /\ \A c, p : SentBy(c, p) => SentBy(c, p)'
  BY DEF TakeIn, SentBy
<1>6. \A e \in queue' : IF e.whole THEN SentBy(e.from, e.p)' ELSE e.from \in cut'
  BY <1>5 DEF Received
<1>. QED BY <1>1, <1>2, <1>4, <1>5, <1>6 DEF Received, TakeIn

(* A handler that receives again keeps or fills the buffers.               *)
LEMMA StartRecvReceives ==
  ASSUME Received, StartRecv, UNCHANGED <<todo, cut>>
  PROVE  Received'
<1>1. CASE queue = {} /\ rx' = "posted" /\ UNCHANGED <<queue, m_recv, leftover, m_remote_ep>>
  BY <1>1 DEF Received, SentBy
<1>2. CASE \E d \in queue : TakeIn(d)
  BY <1>2, TakeInReceives
<1>. QED BY <1>1, <1>2 DEF StartRecv

LEMMA UnwindReceives ==
  ASSUME Received, Unwind
  PROVE  Received'
BY DEF Received, Unwind, SentBy

(* What is in the buffers stays when more clients are cut.                 *)
LEMMA CutReceives ==
  ASSUME Received, UNCHANGED <<todo, socketVars>>, cut \subseteq cut'
  PROVE  Received'
<1>1. \A c, p : SentBy(c, p) => SentBy(c, p)'
  BY DEF SentBy
<1>. QED BY <1>1 DEF Received, socketVars

LEMMA SendReceives ==
  ASSUME Received, NEW c \in UdpClients, SendDatagram(c)
  PROVE  Received'
<1>1. PICK p \in todo[c], whole \in BOOLEAN :
        /\ \/ whole /\ UNCHANGED cut
           \/ ~whole /\ cut' = cut \cup {c}
        /\ todo' = [todo EXCEPT ![c] = @ \ {p}]
        /\ queue' = IF up THEN queue \cup {[from |-> c, p |-> p, whole |-> whole]} ELSE queue
  BY DEF SendDatagram
<1>2. UNCHANGED <<rx, m_recv, leftover, m_remote_ep>>
  BY DEF SendDatagram
<1>3. p \in Request /\ todo' \in [UdpClients -> SUBSET Request]
  BY <1>1 DEF Received
<1>4. \A b \in UdpClients : todo'[b] \subseteq todo[b]
  BY <1>1 DEF Received
<1>5. cut \subseteq cut' /\ \A b, r : SentBy(b, r) => SentBy(b, r)'
  BY <1>1, <1>4 DEF SentBy
<1>6. SentBy(c, p)' /\ (~whole => c \in cut')
  BY <1>1 DEF Received, SentBy
<1>7. queue' \subseteq [from : UdpClients, p : Request, whole : BOOLEAN]
  BY <1>1, <1>3 DEF Received
<1>8. \A d \in queue' : IF d.whole THEN SentBy(d.from, d.p)' ELSE d.from \in cut'
  <2>1. \A d \in queue : IF d.whole THEN SentBy(d.from, d.p)' ELSE d.from \in cut'
    BY <1>5 DEF Received
  <2>. QED BY <1>1, <1>6, <2>1
<1>9. \A b \in UdpClients : todo'[b] \subseteq Asks[b]
  BY <1>4 DEF Received
<1>10. /\ rx' \in {"none", "posted", "filled"} /\ leftover' \in RegisterPacket \cup {NoPacket}
       /\ rx' = "filled" =>
            /\ m_remote_ep' \in UdpClients /\ m_recv' \in Request
            /\ SentBy(m_remote_ep, m_recv)' \/ m_remote_ep' \in cut'
  <2>1. rx = "filled" => SentBy(m_remote_ep, m_recv) \/ m_remote_ep \in cut
    BY DEF Received
  <2>2. rx = "filled" => SentBy(m_remote_ep, m_recv)' \/ m_remote_ep \in cut'
    BY <1>2, <1>5, <2>1 DEF SentBy
  <2>. QED BY <1>2, <2>2 DEF Received
<1>. QED BY <1>3, <1>7, <1>8, <1>9, <1>10 DEF Received

LEMMA ReceivedStep == Received /\ [ProcessNext]_processVars => Received'
<1>. SUFFICES ASSUME Received, [ProcessNext]_processVars PROVE Received'
  OBVIOUS
<1>1. CASE UNCHANGED <<todo, socketVars>> /\ cut \subseteq cut'
  BY <1>1, CutReceives
<1>2. CASE Unwind
  BY <1>2, UnwindReceives
<1>3. CASE CompleteReceive
  BY <1>3, TakeInReceives DEF CompleteReceive
<1>4. CASE UdpReceive
  BY <1>1, <1>2, <1>4, StartRecvReceives DEF UdpReceive
<1>5. CASE UdpReceiveError
  BY <1>5 DEF UdpReceiveError, Received, SentBy
<1>6. CASE StartServices
  BY <1>6 DEF StartServices, Received, SentBy
<1>7. CASE QueryReturns
  BY <1>1, <1>2, <1>7, StartRecvReceives DEF QueryReturns
<1>8. ASSUME NEW c \in HttpClients, ReadHandler(c) PROVE Received'
  BY <1>1, <1>2, <1>8 DEF ReadHandler, ReadError, ReadWhole, ReadPart, HandleFor
<1>9. ASSUME NEW c \in HttpClients, Connect(c) \/ HangUp(c) PROVE Received'
  BY <1>1, <1>9 DEF Connect, HangUp
<1>10. ASSUME NEW c \in HttpClients, NEW d \in {"part", "whole"}, Send(c, d) PROVE Received'
  BY <1>1, <1>10 DEF Send
<1>11. CASE CompleteAccept \/ AcceptHandler
  BY <1>1, <1>11 DEF CompleteAccept, AcceptHandler
<1>12. CASE UNCHANGED processVars
  BY <1>1, <1>12 DEF processVars
<1>. QED BY <1>3, <1>4, <1>5, <1>6, <1>7, <1>8, <1>9, <1>10, <1>11, <1>12, SendReceives DEF ProcessNext

(* What a session makes of the bytes it read is a request.                 *)
LEMMA AskedIsRequest ==
  /\ \A c \in Clients : ClientAddr[c] \in Addrs
  /\ \A c \in HttpClients : c \in Clients /\ c \notin UdpClients /\ Asks[c] \subseteq Request
  /\ UdpClients \subseteq Clients
  /\ Garbled \subseteq Request
BY ProcessAssumption DEF Clients

(* What a handler of either service does to the node: it handles a request *)
(* of a client, or the process ends, or it does nothing.                   *)
LEMMA UdpReceiveHandles ==
  ASSUME Received, UdpReceive
  PROVE  \/ /\ m_remote_ep \in UdpClients /\ m_recv \in Packet
            /\ SentBy(m_remote_ep, m_recv) \/ m_remote_ep \in cut
            /\ ProcessPacket(m_recv, ClientAddr[m_remote_ep])
            /\ UNCHANGED <<todo, cut>>
         \/ Unwind
         \/ UNCHANGED vars
BY HandledIsPacket DEF UdpReceive, InboundAddr, Received

LEMMA ReadHandlerHandles ==
  ASSUME NEW c \in HttpClients, ReadHandler(c)
  PROVE  \/ \E p \in Packet :
              /\ p \in Asks[c] \/ c \in cut'
              /\ ProcessPacket(p, ClientAddr[c])
              /\ CloseSession(c, "answered")
         \/ Unwind
         \/ UNCHANGED vars
<1>1. ASSUME NEW p \in Request, HandleFor(c, p)
      PROVE  \/ p \in Packet /\ ProcessPacket(p, ClientAddr[c]) /\ CloseSession(c, "answered")
             \/ Unwind
             \/ UNCHANGED vars
  BY <1>1, HandledIsPacket DEF HandleFor
<1>. QED BY <1>1, AskedIsRequest DEF ReadHandler, ReadError, ReadWhole, ReadPart

(* Every step of the process is one of the root node or changes nothing of *)
(* it: the services share buffers, but only m_handler and m_proto touch    *)
(* the table.                                                              *)
LEMMA ProcessStepIsNodeStep ==
  ASSUME Received, [ProcessNext]_processVars
  PROVE  [Next]_vars
<1>1. CASE UNCHANGED vars
  BY <1>1
<1>2. CASE Unwind
  BY <1>2 DEF Unwind, Next
<1>3. CASE UdpReceive
  BY <1>1, <1>2, <1>3, UdpReceiveHandles, AskedIsRequest DEF Next
<1>4. ASSUME NEW c \in HttpClients, ReadHandler(c) PROVE [Next]_vars
  BY <1>1, <1>2, <1>4, ReadHandlerHandles, AskedIsRequest DEF Next
<1>5. CASE QueryReturns
  BY <1>1, <1>2, <1>5 DEF QueryReturns
<1>6. CASE StartServices
  BY <1>6 DEF StartServices, Next
<1>. QED BY <1>1, <1>3, <1>4, <1>5, <1>6
         DEF ProcessNext, SendDatagram, CompleteReceive, UdpReceiveError, Connect, HangUp, Send,
             CompleteAccept, AcceptHandler, processVars

LEMMA ProcessReceives == ProcessSpec => []Received
BY ReceivedInit, ReceivedStep, PTL DEF ProcessSpec

(* The process with its two services is a root node as it is specified     *)
(* with atomic requests (resolution_service.cpp:33-46, http_session.cpp:   *)
(* 17-30, entry.cpp:8-21).                                                 *)
THEOREM ProcessIsRootNode == ProcessSpec => Spec
<1>1. ProcessInit => Init
  BY DEF ProcessInit
<1>2. Received /\ [ProcessNext]_processVars => [Next]_vars
  BY ProcessStepIsNodeStep
<1>. QED BY <1>1, <1>2, ProcessReceives, PTL DEF ProcessSpec, Spec

(* So it implements the registry, whatever UDP and HTTP clients send and   *)
(* however their requests interleave.                                      *)
THEOREM ProcessRegistryImplemented == ProcessSpec => ProcessImplementsRegistry
BY ProcessIsRootNode, RegistryImplemented, PTL DEF ProcessImplementsRegistry, ImplementsRegistry

--------------------------------------------------------------------------------
(* HTTP connections                                                        *)

(* The connection that is held is the one in m_socket, while the handler   *)
(* of the accept is ready; the thread waits for a handler that has not     *)
(* returned.                                                               *)
Accepting ==
  /\ conn \in [HttpClients -> {"none", "queued", "held", "session", "answered", "closed"}]
  /\ data \in [HttpClients -> {"none", "part", "whole"}]
  /\ gone \subseteq HttpClients /\ cut \subseteq Clients
  /\ acc \in {"none", "posted", "filled", "error"}
  /\ m_socket \in HttpClients \cup {Nobody}
  /\ acc = "filled" <=> m_socket # Nobody
  /\ ~up => acc = "none" /\ busy = Nobody
  /\ \A c \in HttpClients : conn[c] = "held" <=> m_socket = c
  /\ busy \in Clients \cup {Nobody}
  /\ busy \in UdpClients => busy = m_remote_ep /\ rx = "filled"
  /\ busy \in HttpClients => conn[busy] = "session"

LEMMA Apart ==
  /\ Nobody \notin HttpClients /\ Nobody \notin UdpClients /\ Nobody \notin Clients
  /\ UdpClients \cap HttpClients = {} /\ Clients = UdpClients \cup HttpClients
BY ProcessAssumption DEF Clients

LEMMA AcceptingInit == ProcessInit => Accepting
BY Apart DEF ProcessInit, Init, Accepting

LEMMA HandlingKeepsUp ==
  ASSUME NEW p, NEW a, ProcessPacket(p, a)
  PROVE  UNCHANGED up
BY DEF ProcessPacket, RegisterHost, UnregisterHost, ResolveGsn, LocalGsn, RootNodes, Hostname,
       UnknownType, Receive

LEMMA UnwindAccepts ==
  ASSUME Accepting, Unwind, cut' \subseteq Clients
  PROVE  Accepting'
BY Apart DEF Unwind, Accepting, InService

(* A session is over and the thread free.                                  *)
LEMMA CloseAccepts ==
  ASSUME Accepting, NEW c \in HttpClients, conn[c] = "session", NEW as \in {"closed", "answered"},
         CloseSession(c, as), UNCHANGED up, busy' = Nobody, cut' \subseteq Clients
  PROVE  Accepting'
<1>. m_socket # c /\ c # Nobody
  BY Apart DEF Accepting
<1>. QED BY Apart DEF CloseSession, Accepting

LEMMA ReadHandlerAccepts ==
  ASSUME Accepting, NEW c \in HttpClients, ReadHandler(c)
  PROVE  Accepting'
<1>1. conn[c] = "session" /\ up /\ busy = Nobody
  BY DEF ReadHandler, Idle
<1>2. cut' \subseteq Clients
  BY Apart DEF ReadHandler, ReadError, ReadWhole, ReadPart, Accepting
<1>3. CASE Unwind
  BY <1>2, <1>3, UnwindAccepts
<1>4. CASE UNCHANGED <<up, busy>> /\ \E as \in {"closed", "answered"} : CloseSession(c, as)
  BY <1>1, <1>2, <1>4, CloseAccepts
<1>5. CASE busy' = c /\ UNCHANGED <<up, httpVars>>
  BY <1>1, <1>2, <1>5, Apart DEF httpVars, Accepting
<1>. QED BY <1>3, <1>4, <1>5, HandlingKeepsUp
         DEF ReadHandler, ReadError, ReadWhole, ReadPart, HandleFor, vars

LEMMA QueryReturnsAccepts ==
  ASSUME Accepting, QueryReturns
  PROVE  Accepting'
<1>1. up /\ cut' \subseteq Clients
  BY DEF QueryReturns, Accepting
<1>2. CASE Unwind
  BY <1>1, <1>2, UnwindAccepts
<1>3. CASE busy \in HttpClients /\ CloseSession(busy, "answered") /\ busy' = Nobody /\ UNCHANGED vars
  BY <1>1, <1>3, CloseAccepts DEF Accepting, vars
<1>4. CASE busy' = Nobody /\ UNCHANGED <<vars, httpVars>>
  BY <1>1, <1>4, Apart DEF Accepting, vars, httpVars
<1>. QED BY <1>2, <1>3, <1>4 DEF QueryReturns

LEMMA UdpReceiveAccepts ==
  ASSUME Received, Accepting, UdpReceive
  PROVE  Accepting'
<1>1. up /\ busy = Nobody /\ rx = "filled" /\ m_remote_ep \in UdpClients
  BY DEF UdpReceive, Idle, Received
<1>2. CASE Unwind /\ UNCHANGED cut
  BY <1>2, UnwindAccepts DEF Accepting
<1>3. CASE UNCHANGED <<up, busy, httpVars, cut>>
  BY <1>1, <1>3, Apart DEF Accepting, httpVars
<1>4. CASE busy' = m_remote_ep /\ UNCHANGED <<up, rx, m_remote_ep, httpVars, cut>>
  BY <1>1, <1>4, Apart DEF Accepting, httpVars
<1>. QED BY <1>2, <1>3, <1>4, HandlingKeepsUp DEF UdpReceive, vars, socketVars

LEMMA AcceptingStep == Received /\ Accepting /\ [ProcessNext]_processVars => Accepting'
<1>. SUFFICES ASSUME Received, Accepting, [ProcessNext]_processVars PROVE Accepting'
  OBVIOUS
<1>. Nobody \notin HttpClients /\ HttpClients \subseteq Clients
  BY Apart
<1>1. CASE UNCHANGED <<up, busy, rx, m_remote_ep, httpVars, cut>>
  BY <1>1 DEF httpVars, Accepting
<1>2. ASSUME NEW c \in UdpClients, SendDatagram(c) PROVE Accepting'
  <2>1. cut' \subseteq Clients
    BY <1>2, Apart DEF SendDatagram, Accepting
  <2>. QED BY <1>2, <2>1 DEF SendDatagram, vars, httpVars, Accepting
<1>3. CASE CompleteReceive \/ UdpReceiveError
  BY <1>3, Apart DEF CompleteReceive, UdpReceiveError, Idle, vars, httpVars, Accepting
<1>4. ASSUME NEW c \in HttpClients, Connect(c) PROVE Accepting'
  BY <1>4 DEF Connect, vars, socketVars, Accepting
<1>5. ASSUME NEW c \in HttpClients, HangUp(c) PROVE Accepting'
  BY <1>5 DEF HangUp, vars, socketVars, Accepting
<1>6. ASSUME NEW c \in HttpClients, NEW d \in {"part", "whole"}, Send(c, d) PROVE Accepting'
  BY <1>6 DEF Send, vars, socketVars, Accepting
<1>7. CASE CompleteAccept
  <2>1. up /\ busy = Nobody /\ UNCHANGED <<up, busy, rx, m_remote_ep, data, gone, cut>>
    BY <1>7 DEF CompleteAccept, Idle, vars, socketVars
  <2>2. CASE acc' = "error" /\ UNCHANGED <<m_socket, conn>>
    BY <1>7, <2>1, <2>2 DEF CompleteAccept, Accepting
  <2>3. ASSUME NEW c \in HttpClients, conn[c] = "queued", acc' = "filled", m_socket' = c,
               conn' = [conn EXCEPT ![c] = "held"]
        PROVE  Accepting'
    BY <1>7, <2>1, <2>3, Apart DEF CompleteAccept, Accepting
  <2>. QED BY <1>7, <2>2, <2>3 DEF CompleteAccept
<1>8. CASE AcceptHandler
  <2>1. /\ up /\ busy = Nobody /\ acc' = "posted"
        /\ UNCHANGED <<up, busy, rx, m_remote_ep, data, gone, cut>>
    BY <1>8 DEF AcceptHandler, Idle, DoAccept, vars, socketVars
  <2>2. CASE acc = "filled" /\ conn' = [conn EXCEPT ![m_socket] = "session"] /\ m_socket' = Nobody
    BY <2>1, <2>2, Apart DEF Accepting
  <2>3. CASE acc = "error" /\ UNCHANGED <<conn, m_socket>>
    BY <2>1, <2>3, Apart DEF Accepting
  <2>. QED BY <1>8, <2>2, <2>3 DEF AcceptHandler, Moved
<1>9. CASE StartServices
  BY <1>9, Apart DEF StartServices, Restart, DoAccept, Accepting
<1>. QED BY <1>1, <1>2, <1>3, <1>4, <1>5, <1>6, <1>7, <1>8, <1>9, ReadHandlerAccepts,
            QueryReturnsAccepts, UdpReceiveAccepts
         DEF ProcessNext, processVars, vars, socketVars

LEMMA ProcessAccepts == ProcessSpec => []Accepting
BY AcceptingInit, AcceptingStep, ProcessReceives, PTL DEF ProcessSpec

(* Both services keep their types, a connection is in the socket the       *)
(* acceptor fills for as long as it is held, and no longer, and the thread *)
(* waits for nobody whose handler has returned (http_service.cpp:19-30,    *)
(* protocol_handler.cpp:209-226).                                          *)
THEOREM ProcessTypeCorrect == ProcessSpec => []ProcessTypeOK
<1>1. TypeOK /\ Received /\ Accepting => ProcessTypeOK
  <2>. SUFFICES ASSUME TypeOK, Received, Accepting PROVE ProcessTypeOK
    OBVIOUS
  <2>1. {c \in HttpClients : conn[c] = "held"} = {m_socket} \ {Nobody}
    BY Apart DEF Accepting
  <2>. QED BY <2>1 DEF ProcessTypeOK, Received, Accepting
<1>. QED BY <1>1, ProcessAccepts, ProcessReceives, ProcessIsRootNode, TypeCorrect, PTL

(* A request that throws, a query and an HTTP client that does not wait    *)
(* for its answer, or sends it in parts, can end the process, and nothing  *)
(* else (resolution_service.cpp:38, http_session.cpp:20-27).               *)
THEOREM EndsForAReason == ProcessSpec => EndsOnlyFor
<1> DEFINE Ends ==
      up /\ ~up' =>
        \/ rx = "filled" /\ m_recv = Throwing
        \/ busy # Nobody
        \/ \E c \in HttpClients :
             /\ conn[c] = "session"
             /\ \/ data[c] = "part"
                \/ data[c] = "whole" /\ (c \in gone \/ Throwing \in Asks[c])
<1>1. ASSUME ProcessNext PROVE Ends
  <2>1. CASE UNCHANGED up
    BY <2>1
  <2>2. ASSUME NEW c \in HttpClients, ReadHandler(c) PROVE Ends
    <3>1. conn[c] = "session"
      BY <2>2 DEF ReadHandler
    <3>2. CASE ReadError(c)
      BY <3>2 DEF ReadError, vars
    <3>3. CASE ReadWhole(c)
      BY <3>1, <3>3, HandlingKeepsUp DEF ReadWhole, HandleFor, vars
    <3>4. CASE ReadPart(c)
      BY <3>1, <3>4 DEF ReadPart
    <3>. QED BY <2>2, <3>2, <3>3, <3>4 DEF ReadHandler
  <2>3. CASE UdpReceive
    BY <2>3, HandlingKeepsUp DEF UdpReceive, vars
  <2>4. CASE QueryReturns
    BY <2>4 DEF QueryReturns
  <2>5. CASE StartServices
    BY <2>5 DEF StartServices, Restart
  <2>. QED BY <1>1, <2>1, <2>2, <2>3, <2>4, <2>5
           DEF ProcessNext, SendDatagram, CompleteReceive, UdpReceiveError, Connect, HangUp, Send,
               CompleteAccept, AcceptHandler, vars
<1>2. [ProcessNext]_processVars => [Ends]_processVars
  BY <1>1
<1>. QED BY <1>2, PTL DEF ProcessSpec, EndsOnlyFor

--------------------------------------------------------------------------------
(* Registrations                                                           *)

(* A client asked for a node, or its request was read in part.             *)
AskedFor(c, n) ==
  /\ ClientAddr[c] = n.addr
  /\ \/ c \in cut
     \/ \E p \in HandledFor(c) :
          p.op = "register" /\ HostOf(p.text) = n.host /\ SuidOf(p.text) = n.suid

(* Only a registration adds to the table, and only the node it speaks of.  *)
LEMMA HandlingAdds ==
  ASSUME TypeOK, UniqueKeys, NEW p \in Packet, NEW a \in Addrs, ProcessPacket(p, a),
         NEW n \in Range(table'), n \notin Range(table)
  PROVE  p.op = "register" /\ HostOf(p.text) = n.host /\ SuidOf(p.text) = n.suid /\ n.addr = a
<1>1. CASE RegisterHost(p, a)
  <2> DEFINE node == [type |-> p.type, host |-> HostOf(p.text), suid |-> SuidOf(p.text),
                      addr |-> a, proto |-> p.proto]
  <2>1. p \in RegisterPacket
    BY <1>1 DEF RegisterHost, Packet, RegisterPacket, ResolvePacket, HostnamePacket, PlainPacket
  <2>2. node \in Node
    BY <2>1, TextNames DEF RegisterPacket, Node
  <2>3. table' = AddNode(table, node) \/ UNCHANGED table
    BY <1>1 DEF RegisterHost
  <2>4. n = node
    BY <2>2, <2>3, AddToRange DEF TypeOK
  <2>. QED BY <1>1, <2>4 DEF RegisterHost
<1>2. CASE UnregisterHost(p, a)
  <2> DEFINE it == FindAddr(table, a)
  <2>1. (it # EndOf(table) /\ table' = EraseNode(table, it)) \/ UNCHANGED table
    BY <1>2 DEF UnregisterHost
  <2>2. it # EndOf(table) => it \in DOMAIN table
    BY FindProperties DEF TypeOK
  <2> HIDE DEF it
  <2>3. Range(table') \subseteq Range(table)
    BY <2>1, <2>2, EraseFromRange DEF TypeOK, UniqueKeys
  <2>. QED BY <2>3
<1>3. CASE UNCHANGED table
  BY <1>3
<1>. QED BY <1>1, <1>2, <1>3
         DEF ProcessPacket, ResolveGsn, LocalGsn, RootNodes, Hostname, UnknownType

(* What was handled for a client stays handled.                            *)
LEMMA HandledGrows ==
  ASSUME Received, Accepting, [ProcessNext]_processVars
  PROVE  /\ \A c \in UdpClients : todo'[c] \subseteq todo[c]
         /\ \A c \in HttpClients : conn[c] = "answered" => conn'[c] = "answered"
         /\ cut \subseteq cut'
<1>1. \A c \in UdpClients : todo'[c] \subseteq todo[c]
  BY DEF ProcessNext, SendDatagram, CompleteReceive, UdpReceive, UdpReceiveError, QueryReturns,
         Connect, HangUp, Send, ReadHandler, ReadError, ReadWhole, ReadPart, HandleFor, Unwind,
         CompleteAccept, AcceptHandler, StartServices, processVars, Received
<1>2. ASSUME NEW c \in HttpClients, conn[c] = "answered" PROVE conn'[c] = "answered"
  <2>1. CASE UNCHANGED conn
    BY <1>2, <2>1
  <2>2. CASE Unwind
    BY <1>2, <2>2 DEF Unwind, InService
  <2>3. ASSUME NEW b \in HttpClients, conn[b] # "answered", NEW as, conn' = [conn EXCEPT ![b] = as]
        PROVE  conn'[c] = "answered"
    BY <1>2, <2>3 DEF Accepting
  <2>4. CASE QueryReturns
    BY <2>1, <2>2, <2>3, <2>4 DEF QueryReturns, CloseSession, Accepting, httpVars
  <2>5. ASSUME NEW b \in HttpClients, ReadHandler(b) PROVE conn'[c] = "answered"
    BY <2>1, <2>2, <2>3, <2>5
    DEF ReadHandler, ReadError, ReadWhole, ReadPart, HandleFor, CloseSession, httpVars
  <2>6. CASE AcceptHandler
    BY <2>1, <2>3, <2>6 DEF AcceptHandler, Accepting
  <2>. QED BY <2>1, <2>2, <2>3, <2>4, <2>5, <2>6
           DEF ProcessNext, SendDatagram, CompleteReceive, UdpReceive, UdpReceiveError,
               Connect, HangUp, Send, CompleteAccept, StartServices, httpVars, processVars
<1>3. cut \subseteq cut'
  BY DEF ProcessNext, SendDatagram, CompleteReceive, UdpReceive, UdpReceiveError, QueryReturns,
         Connect, HangUp, Send, ReadHandler, ReadError, ReadWhole, ReadPart,
         CompleteAccept, AcceptHandler, StartServices, processVars
<1>. QED BY <1>1, <1>2, <1>3

LEMMA AskedForStays ==
  ASSUME Received, Accepting, [ProcessNext]_processVars,
         NEW c \in Clients, NEW n, AskedFor(c, n)
  PROVE  AskedFor(c, n)'
<1>1. HandledFor(c) \subseteq HandledFor(c)'
  BY HandledGrows DEF HandledFor, Clients
<1>. QED BY <1>1, HandledGrows DEF AskedFor

(* A node that was not in the table belongs to a client whose request has  *)
(* just been handled.                                                      *)
LEMMA NewNodesAskedFor ==
  ASSUME TypeOK, UniqueKeys, Received, Accepting, [ProcessNext]_processVars,
         NEW n \in Range(table'), n \notin Range(table)
  PROVE  \E c \in Clients : AskedFor(c, n)'
<1>1. ~UNCHANGED table
  OBVIOUS
<1>2. ~Unwind
  BY DEF Unwind, Crash, Range
<1>3. ASSUME NEW c \in Clients, NEW p \in Packet, ProcessPacket(p, ClientAddr[c]),
             p \in HandledFor(c)' \/ c \in cut'
      PROVE  AskedFor(c, n)'
  <2>1. /\ p.op = "register" /\ n.addr = ClientAddr[c]
        /\ HostOf(p.text) = n.host /\ SuidOf(p.text) = n.suid
    BY <1>3, AskedIsRequest, HandlingAdds
  <2>. QED BY <1>3, <2>1 DEF AskedFor
<1>4. CASE UdpReceive
  <2>1. /\ m_remote_ep \in UdpClients /\ m_recv \in Packet
        /\ SentBy(m_remote_ep, m_recv) \/ m_remote_ep \in cut
        /\ ProcessPacket(m_recv, ClientAddr[m_remote_ep])
        /\ UNCHANGED <<todo, cut>>
    BY <1>1, <1>2, <1>4, UdpReceiveHandles DEF vars
  <2>2. PICK c, p : c = m_remote_ep /\ p = m_recv
    OBVIOUS
  <2>3. p \in HandledFor(c)' \/ c \in cut'
    BY <2>1, <2>2 DEF SentBy, HandledFor
  <2>. QED BY <1>3, <2>1, <2>2, <2>3, AskedIsRequest
<1>5. ASSUME NEW c \in HttpClients, ReadHandler(c)
      PROVE  \E b \in Clients : AskedFor(b, n)'
  <2>1. PICK p \in Packet :
          /\ p \in Asks[c] \/ c \in cut'
          /\ ProcessPacket(p, ClientAddr[c])
          /\ CloseSession(c, "answered")
    BY <1>1, <1>2, <1>5, ReadHandlerHandles DEF vars
  <2>2. p \in HandledFor(c)' \/ c \in cut'
    BY <2>1, AskedIsRequest DEF CloseSession, HandledFor, Accepting
  <2>. QED BY <1>3, <2>1, <2>2, AskedIsRequest
<1>. QED BY <1>1, <1>2, <1>4, <1>5
         DEF ProcessNext, SendDatagram, CompleteReceive, UdpReceiveError, QueryReturns, Connect,
             HangUp, Send, CompleteAccept, AcceptHandler, StartServices, Restart, vars, processVars

(* Nobody is in the table who did not ask for it, in the words it used,    *)
(* unless a request of its own was read in part or shorter than its header *)
(* says (resolution_service.cpp:33-38, http_session.cpp:20-25).            *)
THEOREM RegistrationsGenuine == ProcessSpec => []NodesAskedToBeThere
<1> DEFINE Genuine == \A n \in Range(table) : \E c \in Clients : AskedFor(c, n)
<1>1. Genuine <=> NodesAskedToBeThere
  BY DEF AskedFor, NodesAskedToBeThere
<1>2. ProcessInit => Genuine
  BY DEF ProcessInit, Init, Range
<1>3. TypeOK /\ UniqueKeys /\ Received /\ Accepting /\ Genuine /\ [ProcessNext]_processVars
        => Genuine'
  BY AskedForStays, NewNodesAskedFor
<1> HIDE DEF Genuine
<1>. QED BY <1>1, <1>2, <1>3, ProcessAccepts, ProcessReceives, ProcessIsRootNode, TypeCorrect,
            KeysUnique, PTL DEF ProcessSpec

================================================================================
