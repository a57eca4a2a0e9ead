------------------------------- MODULE GsnService -------------------------------
(***************************************************************************)
(* Registration over UDP: the root node's resolution_service               *)
(* (nodes/root/resolution_service.cpp) and the forge clients               *)
(* (clients/forge/forge.cpp) that register and unregister with it.         *)
(*                                                                         *)
(* A forge process sends one datagram from a socket of its own and blocks, *)
(* without a timeout, until one datagram comes back.  Requests and replies *)
(* may overtake each other, be lost, and a request may arrive twice.  The  *)
(* user of a client runs forge for one operation after the other, and runs *)
(* it again for the same operation after interrupting one that blocks.     *)
(*                                                                         *)
(* The node has one receive outstanding at a time.  After an error on it   *)
(* the service does not receive again, though the process stays up.        *)
(***************************************************************************)
EXTENDS RootNode

CONSTANTS
  Clients,    \* machines whose users run forge
  AddrOf,     \* the address of a client
  TextOf,     \* the hostname (and SUID) a client registers
  Script,     \* the operations a client's user goes through, in order
  Ports,      \* ephemeral ports of the clients' sockets
  MaxFaults   \* bound: losses, duplications, early interrupts, ends of the
              \* process and receive errors, all together

ASSUME ClientsAssumption ==
  /\ AddrOf \in [Clients -> Addrs]
  /\ TextOf \in [Clients -> Texts]
  /\ Script \in [Clients -> Seq({"register", "unregister", "hostname"})]
ASSUME RegistrationAssumption == Org \in TypeBytes /\ Protocols # {}
ASSUME PortsAssumption == Ports # {}
ASSUME FaultsAssumption == MaxFaults \in Nat

VARIABLES
  armed,    \* an async_receive_from is outstanding
  requests, \* request datagrams on their way
  replies,  \* reply datagrams on their way
  port,     \* per client: the port of the last forge process's socket
  waiting,  \* per client: that process is blocked in receive_from
  pos,      \* per client: the operation of the script its user is at
  view,     \* per client: what that process printed, if it was answered
  unruly,   \* clients with a duplicated or an abandoned datagram so far
  epoch,    \* how often the root node's process has been started again
  failed,   \* a receive has ended with an error
  faults    \* how much of the bound is used

netVars == <<requests, replies>>
clientVars == <<port, waiting, pos, view>>
gsnVars == <<vars, armed, netVars, clientVars, unruly, epoch, failed, faults>>

NoHost == "none"
Operations == {"register", "unregister", "hostname"}
Request == [client : Clients, port : Ports, op : Operations]
Answered == [client : Clients, port : Ports, op : Operations,
             code : {"ok", "netspace_error", "netspace_duplicate"},
             host : Names \cup {NoHost}, epoch : 0..MaxFaults]
NothingSeen == [op |-> "none", code |-> "none", host |-> NoHost, epoch |-> 0]

(* What forge sends: the registration of an org node, nothing, or the      *)
(* address asked for, which is that of the client's own machine here.      *)
PacketOf(m) ==
  CASE m.op = "register" -> [op |-> "register", type |-> Org, text |-> TextOf[m.client],
                             proto |-> CHOOSE p \in Protocols : TRUE]
    [] m.op = "unregister" -> [op |-> "unregister"]
    [] m.op = "hostname" -> [op |-> "hostname", addr |-> AddrOf[m.client]]

(* The hostname in the frame of a reply *)
HostIn(m, r) ==
  IF m.op = "hostname" /\ r.code = "ok" THEN (CHOOSE n \in r.nodes : TRUE).host ELSE NoHost

GsnInit ==
  /\ Init
  /\ armed = TRUE
  /\ requests = {} /\ replies = {}
  /\ port = [c \in Clients |-> CHOOSE p \in Ports : TRUE]
  /\ waiting = [c \in Clients |-> FALSE]
  /\ pos = [c \in Clients |-> 1]
  /\ view = [c \in Clients |-> NothingSeen]
  /\ unruly = {}
  /\ epoch = 0
  /\ failed = FALSE
  /\ faults = 0

Fault == faults < MaxFaults /\ faults' = faults + 1

FreePorts(c) == Ports \ {m.port : m \in {n \in requests \cup replies : n.client = c}}

InFlight(c) == \E m \in requests \cup replies : m.client = c

(* A user starts forge: dispatch_packet up to its receive_from.  Its       *)
(* socket has a port to which nothing is on its way.                       *)
StartForge(c) ==
  /\ ~waiting[c]
  /\ pos[c] <= Len(Script[c])
  /\ FreePorts(c) # {}
  /\ port' = [port EXCEPT ![c] = CHOOSE p \in FreePorts(c) : TRUE]
  /\ requests' = requests \cup {[client |-> c, port |-> port'[c], op |-> Script[c][pos[c]]]}
  /\ waiting' = [waiting EXCEPT ![c] = TRUE]
  /\ view' = [view EXCEPT ![c] = NothingSeen]
  /\ UNCHANGED <<vars, armed, replies, pos, unruly, epoch, failed, faults>>

(* resolution_service::start_recv, called when the constructor is done and *)
(* at the end of receive, but not on the way out of one with an error.     *)
StartRecv == armed' = TRUE
AfterReceiveStop(error) == armed' = FALSE   \* a mistake: one request is enough
AfterReceive(error) == IF error THEN armed' = FALSE ELSE StartRecv

(* resolution_service::receive without an error: handle the request, send  *)
(* the reply to where it came from, receive again.                         *)
Serve(m) ==
  /\ armed
  /\ ProcessPacket(PacketOf(m), AddrOf[m.client])
  /\ replies' = replies \cup {[client |-> m.client, port |-> m.port, op |-> m.op,
                                code |-> reply'.code, host |-> HostIn(m, reply'), epoch |-> epoch]}
  /\ AfterReceive(FALSE)
  /\ \/ requests' = requests \ {m} /\ UNCHANGED <<unruly, faults>>
     \/ /\ UNCHANGED requests               \* a second copy is on its way
        /\ unruly' = unruly \cup {m.client}
        /\ Fault
  /\ UNCHANGED <<clientVars, epoch, failed>>

(* resolution_service::receive with an error: return, and nothing is       *)
(* outstanding any more.                                                   *)
ReceiveError ==
  /\ up /\ armed
  /\ Fault
  /\ AfterReceive(TRUE)
  /\ failed' = TRUE
  /\ UNCHANGED <<vars, netVars, clientVars, unruly, epoch>>

(* rcode_to_string: forge has no word for netspace_duplicate *)
RcodeToString(code) == IF code = "netspace_duplicate" THEN "undefined" ELSE code

(* A reply reaches the forge that waits for it on its own socket, which    *)
(* prints it and ends; to any other it is addressed in vain.               *)
Deliver(r) ==
  /\ replies' = replies \ {r}
  /\ IF waiting[r.client] /\ port[r.client] = r.port
       THEN /\ waiting' = [waiting EXCEPT ![r.client] = FALSE]
            /\ view' = [view EXCEPT ![r.client] = 
                 [op |-> r.op, code |-> RcodeToString(r.code), host |-> r.host, epoch |-> r.epoch]]
            /\ pos' = [pos EXCEPT ![r.client] = @ + 1]
       ELSE UNCHANGED <<waiting, view, pos>>
  /\ UNCHANGED <<vars, armed, requests, port, unruly, epoch, failed, faults>>

(* A user interrupts a forge that blocks *)
Interrupt(c) ==
  /\ waiting[c]
  /\ \/ ~InFlight(c) /\ UNCHANGED <<unruly, faults>>
     \/ InFlight(c) /\ unruly' = unruly \cup {c} /\ Fault
  /\ waiting' = [waiting EXCEPT ![c] = FALSE]
  /\ UNCHANGED <<vars, armed, netVars, port, pos, view, epoch, failed>>

Lose(m) ==
  /\ \/ Fault
     \/ m \in requests /\ ~up /\ UNCHANGED faults   \* nobody listens on the port
  /\ requests' = requests \ {m}
  /\ replies' = replies \ {m}
  /\ UNCHANGED <<vars, armed, clientVars, unruly, epoch, failed>>

EndProcess ==
  /\ Crash
  /\ Fault
  /\ armed' = FALSE
  /\ UNCHANGED <<netVars, clientVars, unruly, epoch, failed>>

(* entry.cpp: the constructor of resolution_service starts receiving *)
StartProcess ==
  /\ Restart
  /\ StartRecv
  /\ epoch' = epoch + 1
  /\ UNCHANGED <<netVars, clientVars, unruly, failed, faults>>

GsnNext ==
  \/ \E c \in Clients : StartForge(c) \/ Interrupt(c)
  \/ \E m \in requests : Serve(m)
  \/ \E r \in replies : Deliver(r)
  \/ \E m \in requests \cup replies : Lose(m)
  \/ ReceiveError
  \/ EndProcess
  \/ StartProcess

(* The event loop runs what is ready, the network hands over what it has   *)
(* not lost, users run forge until they have an answer, and a node that    *)
(* went down is started again.                                             *)
Fairness ==
  /\ WF_gsnVars(\E m \in requests : Serve(m))
  /\ WF_gsnVars(\E r \in replies : Deliver(r))
  /\ \A c \in Clients : WF_gsnVars(StartForge(c)) /\ WF_gsnVars(Interrupt(c))
  /\ WF_gsnVars(StartProcess)

GsnSpec == GsnInit /\ [][GsnNext]_gsnVars /\ Fairness

--------------------------------------------------------------------------------
(* Datagrams, answers and counters have their types. *)
GsnTypeOK ==
  /\ TypeOK
  /\ armed \in BOOLEAN
  /\ requests \subseteq Request
  /\ replies \subseteq Answered
  /\ port \in [Clients -> Ports]
  /\ waiting \in [Clients -> BOOLEAN]
  /\ \A c \in Clients : pos[c] \in 1..Len(Script[c])+1 /\ view[c].host \in Names \cup {NoHost}

(* The last forge a client's user ran was answered by the process that is  *)
(* running now, and none of the client's datagrams is astray.              *)
Settled(c) == up /\ view[c] # NothingSeen /\ view[c].epoch = epoch /\ c \notin unruly

Registered(c) == \E n \in Range(table) : n.addr = AddrOf[c] /\ n.host = HostOf(TextOf[c])

(* Nobody else wants a name of this client *)
Exclusive(c) ==
  \A d \in Clients \ {c} : /\ HostOf(TextOf[c]) # HostOf(TextOf[d])
                           /\ SuidOf(TextOf[c]) # SuidOf(TextOf[d])

(* What a register answered holds until the client asks for something      *)
(* else, whatever the other clients and their datagrams do: after ok its   *)
(* node is in the table, and after netspace_duplicate ("undefined") too if *)
(* the names are its own, which is what a user meets who runs forge again  *)
(* because the first answer was lost (protocol_handler.cpp:61-71).         *)
RegisterAnswerHolds ==
  \A c \in Clients :
    (Settled(c) /\ view[c].op = "register" /\ (view[c].code = "ok" \/ Exclusive(c)))
    => Registered(c)

(* After an answered unregister, ok or netspace_error, no node of the      *)
(* client's address is in the table (protocol_handler.cpp:80-85).          *)
UnregisterAnswerHolds ==
  \A c \in Clients :
    (Settled(c) /\ view[c].op = "unregister")
    => \A n \in Range(table) : n.addr # AddrOf[c]

(* After an answered hostname the host named is that of the oldest node of *)
(* the client's address, and after netspace_error there is none, until the *)
(* client changes that itself: no other client's request, late or doubled, *)
(* takes its node away (protocol_handler.cpp:185-196, forge.cpp:35-53).    *)
HostnameAnswerHolds ==
  \A c \in Clients :
    (Settled(c) /\ view[c].op = "hostname")
    => IF view[c].code = "ok"
         THEN \E n \in Range(table) : n.addr = AddrOf[c] /\ n.host = view[c].host /\ Oldest(table, n)
         ELSE \A n \in Range(table) : n.addr # AddrOf[c]

(* Unless a receive failed, every user gets through the script, whatever   *)
(* is lost and however often the node is started again: the service always *)
(* receives again after a request (resolution_service.cpp:45).             *)
EveryoneAnswered ==
  [](~failed) => <>(\A c \in Clients : pos[c] > Len(Script[c]))

================================================================================
