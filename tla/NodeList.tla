-------------------------------- MODULE NodeList --------------------------------
(***************************************************************************)
(* The text of a listing: construct_frame_network writes it (shared/       *)
(* include/protocol/protocol_common.hpp) and nodes_from_string and         *)
(* netspace_node(std::string) (shared/infrastructure/netnode.cpp) read it. *)
(*                                                                         *)
(* A text is a sequence of characters; positions count from 0, as in the   *)
(* code.  An address is one character: from_string takes the whole text of *)
(* one address and nothing else.  What a name is spelled with is up to who *)
(* registers it: a SUID may hold the marks that part the fields.           *)
(***************************************************************************)
EXTENDS RootNode

CONSTANT Spelling   \* the characters of a name

ASSUME SpellingAssumption ==
  /\ Spelling \in [Names -> Seq(STRING)]
  /\ \A m, n \in Names : Spelling[m] = Spelling[n] => m = n
  /\ Spelling[EmptyName] = <<>>

Bar == "|"
Semicolon == ";"
NoAddress == "0.0.0.0"
Throws == "throws"

ASSUME AddressesAssumption == {NoAddress, Throws} \cap Addrs = {}

Entry(n) == Spelling[n.host] \o <<Bar>> \o Spelling[n.suid] \o <<Bar, n.addr, Semicolon>>

ConstructFrameNetwork(nodes) == FlattenSeq([i \in DOMAIN nodes |-> Entry(nodes[i])])

(* std::string::substr *)
Substr(s, offset, count) ==
  SubSeq(s, offset + 1, IF offset + count > Len(s) THEN Len(s) ELSE offset + count)

(* Positions of a character, from one on *)
At(s, ch, from) == {i \in from..(Len(s) - 1) : s[i + 1] = ch}

(* netspace_addr::from_string throws unless all of the text is one address *)
AddressFrom(s) == IF Len(s) = 1 /\ s[1] \in Addrs THEN s[1] ELSE Throws

(* netspace_node(std::string): the SUID ends at the first bar; the search  *)
(* for the second one leaves out the character after the first.            *)
NodeFrom(entry) ==
  LET end == Len(entry)
      first == FirstOf(At(entry, Bar, 0), end)
      second == FirstOf(At(entry, Bar, first + 2), end)
  IN  IF first = end THEN [suid |-> <<>>, host |-> <<>>, addr |-> NoAddress]
      ELSE IF second = end THEN [suid |-> Substr(entry, 0, first), host |-> <<>>, addr |-> NoAddress]
      ELSE [suid |-> Substr(entry, 0, first),
            host |-> Substr(entry, first + 1, second - first - 1),
            addr |-> AddressFrom(Substr(entry, second + 1, end))]

(* nodes_from_string: an entry goes from the semicolon before it, and is   *)
(* as long as the position of its own.                                     *)
EntryRead(details, i, read) ==
  LET ns == Substr(details, read.offset, i - 1)
  IN  IF details[i] # Semicolon THEN read
      ELSE [offset |-> i - 1, nodes |-> IF ns = <<>> THEN read.nodes ELSE Append(read.nodes, NodeFrom(ns))]

NodesFromString(details) ==
  LET read[i \in 0..Len(details)] ==
        IF i = 0 THEN [offset |-> 0, nodes |-> <<>>] ELSE EntryRead(details, i, read[i - 1])
  IN  read[Len(details)].nodes

(* local_gsn and root_nodes: the nodes of a type, in the order of the table *)
Listed(t, type) ==
  LET nodes[i \in 0..Len(t)] ==
        IF i = 0 THEN <<>>
        ELSE IF t[i].type = type THEN Append(nodes[i - 1], t[i])
        ELSE nodes[i - 1]
  IN  nodes[Len(t)]

(* What nodes_from_string makes of the reply that lists the nodes of a type *)
ReadBack(type) == NodesFromString(ConstructFrameNetwork(Listed(table, type)))

(* All of them have a hostname and a SUID *)
AllNamed(nodes) == \A i \in DOMAIN nodes : EmptyName \notin {nodes[i].host, nodes[i].suid}

(* Whoever asks for the nodes of a type reads all of them, each under its  *)
(* own names and address, in the order of the table.  So have it the tests *)
(* "Single node", where an entry holds the SUID, then the hostname, then   *)
(* the address (mod_free_fn.cpp:20-29), and "Successful local gsn          *)
(* request", where as many nodes as there are come with their addresses    *)
(* (mod_root_protocol.cpp:221-237).  The code writes the hostname first    *)
(* (protocol_common.hpp:125), and cuts every entry after the first by the  *)
(* position of its end for its length (protocol_common.hpp:160).           *)
ListingIsReadBack ==
  \A type \in {Root, Org} :
    LET nodes == Listed(table, type)
    IN  AllNamed(nodes) =>
          ReadBack(type) = [i \in DOMAIN nodes |->
                             [suid |-> Spelling[nodes[i].suid],
                              host |-> Spelling[nodes[i].host],
                              addr |-> nodes[i].addr]]

================================================================================
