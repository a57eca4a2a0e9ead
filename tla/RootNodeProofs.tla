----------------------------- MODULE RootNodeProofs -----------------------------
(***************************************************************************)
(* Theorems about RootNode, for every set of names, addresses and requests *)
(* and for tables of any length.                                           *)
(***************************************************************************)
EXTENDS RootNode, SequenceLemmas

--------------------------------------------------------------------------------
(* A search: end() when nothing matches, otherwise the first that matches  *)
LEMMA FirstOfProperties ==
  ASSUME NEW S \in SUBSET Nat, NEW end \in Nat, end \notin S
  PROVE  /\ S = {} <=> FirstOf(S, end) = end
         /\ S # {} => FirstOf(S, end) \in S /\ \A j \in S : FirstOf(S, end) <= j
<1>1. ASSUME S # {} PROVE \E i \in S : \A j \in S : i <= j
  <2> DEFINE R == OpToRel(<, Nat)
  <2>1. IsWellFoundedOn(R, Nat)
    BY NatLessThanWellFounded
  <2> HIDE DEF R
  <2>2. PICK x \in S : \A y \in S : <<y, x>> \notin R
    BY <1>1, <2>1, WFMin
  <2>3. \A y \in S : ~(y < x)
    BY <2>2 DEF R, OpToRel
  <2> QED  BY <2>3
<1> QED  BY <1>1 DEF FirstOf

(* find_host, find_suid and find_addr give end() exactly when no node of   *)
(* the table has the value looked for, and otherwise a node that has it;   *)
(* find_addr gives the first that has it.                                  *)
LEMMA FindProperties ==
  ASSUME NEW t \in Seq(Node), NEW v
  PROVE  /\ FindHost(t, v) = EndOf(t) <=> \A i \in DOMAIN t : t[i].host # v
         /\ FindSuid(t, v) = EndOf(t) <=> \A i \in DOMAIN t : t[i].suid # v
         /\ FindAddr(t, v) = EndOf(t) <=> \A i \in DOMAIN t : t[i].addr # v
         /\ FindHost(t, v) # EndOf(t) => FindHost(t, v) \in DOMAIN t
         /\ FindAddr(t, v) # EndOf(t) =>
              /\ FindAddr(t, v) \in DOMAIN t
              /\ t[FindAddr(t, v)].addr = v
              /\ \A j \in DOMAIN t : t[j].addr = v => FindAddr(t, v) <= j
<1> DEFINE hosts == {i \in DOMAIN t : t[i].host = v}
           suids == {i \in DOMAIN t : t[i].suid = v}
           addrs == {i \in DOMAIN t : t[i].addr = v}
<1>1. DOMAIN t = 1..Len(t) /\ Len(t) \in Nat
  BY LenProperties
<1>2. EndOf(t) \in Nat /\ EndOf(t) \notin DOMAIN t
  BY <1>1 DEF EndOf
<1>3. /\ hosts \in SUBSET Nat /\ EndOf(t) \notin hosts
      /\ suids \in SUBSET Nat /\ EndOf(t) \notin suids
      /\ addrs \in SUBSET Nat /\ EndOf(t) \notin addrs
  BY <1>1, <1>2
<1>4. /\ hosts = {} <=> \A i \in DOMAIN t : t[i].host # v
      /\ suids = {} <=> \A i \in DOMAIN t : t[i].suid # v
      /\ addrs = {} <=> \A i \in DOMAIN t : t[i].addr # v
      /\ \A i \in hosts : i \in DOMAIN t
      /\ \A i \in addrs : i \in DOMAIN t /\ t[i].addr = v
      /\ \A j \in DOMAIN t : t[j].addr = v => j \in addrs
  OBVIOUS
<1>5. /\ FindHost(t, v) = FirstOf(hosts, EndOf(t))
      /\ FindSuid(t, v) = FirstOf(suids, EndOf(t))
      /\ FindAddr(t, v) = FirstOf(addrs, EndOf(t))
  BY DEF FindHost, FindSuid, FindAddr
<1> HIDE DEF hosts, suids, addrs
<1>6. /\ hosts = {} <=> FirstOf(hosts, EndOf(t)) = EndOf(t)
      /\ hosts # {} => FirstOf(hosts, EndOf(t)) \in hosts
  BY <1>2, <1>3, FirstOfProperties
<1>7. suids = {} <=> FirstOf(suids, EndOf(t)) = EndOf(t)
  BY <1>2, <1>3, FirstOfProperties
<1>8. /\ addrs = {} <=> FirstOf(addrs, EndOf(t)) = EndOf(t)
      /\ addrs # {} => /\ FirstOf(addrs, EndOf(t)) \in addrs
                       /\ \A j \in addrs : FirstOf(addrs, EndOf(t)) <= j
  BY <1>2, <1>3, FirstOfProperties
<1> QED  BY <1>6, <1>7, <1>8, <1>4, <1>5

(* Erasing a node keeps the others, in their order.                        *)
LEMMA EraseProperties ==
  ASSUME NEW S, NEW t \in Seq(S), NEW it \in DOMAIN t
  PROVE  /\ EraseNode(t, it) \in Seq(S)
         /\ Len(EraseNode(t, it)) = Len(t) - 1
         /\ \A i \in 1..Len(t)-1 :
              EraseNode(t, it)[i] = IF i < it THEN t[i] ELSE t[i+1]
<1> DEFINE before == SubSeq(t, 1, it - 1)
           after == SubSeq(t, it + 1, Len(t))
<1>1. DOMAIN t = 1..Len(t) /\ Len(t) \in Nat /\ it \in 1..Len(t)
  BY LenProperties
<1>2. /\ before \in Seq(S) /\ Len(before) = it - 1
      /\ \A i \in 1..it-1 : before[i] = t[i]
  <2>1. \A i \in 1..(it-1) : t[i] \in S
    BY <1>1, ElementOfSeq
  <2>2. 1 \in Int /\ it - 1 \in Int
    BY <1>1
  <2>3. /\ SubSeq(t, 1, it - 1) \in Seq(S)
        /\ Len(SubSeq(t, 1, it - 1)) = IF 1 <= it - 1 THEN (it - 1) - 1 + 1 ELSE 0
        /\ \A i \in 1..(it - 1) - 1 + 1 : SubSeq(t, 1, it - 1)[i] = t[1 + i - 1]
    BY <2>1, <2>2, SubSeqProperties
  <2> QED  BY <2>3, <1>1
<1>3. /\ after \in Seq(S) /\ Len(after) = Len(t) - it
      /\ \A i \in 1..Len(t)-it : after[i] = t[it + i]
  <2>1. \A i \in (it+1)..Len(t) : t[i] \in S
    BY <1>1, ElementOfSeq
  <2>2. it + 1 \in Int /\ Len(t) \in Int
    BY <1>1
  <2>3. /\ SubSeq(t, it + 1, Len(t)) \in Seq(S)
        /\ Len(SubSeq(t, it + 1, Len(t))) = IF it + 1 <= Len(t) THEN Len(t) - (it + 1) + 1 ELSE 0
        /\ \A i \in 1..Len(t) - (it + 1) + 1 : SubSeq(t, it + 1, Len(t))[i] = t[it + 1 + i - 1]
    BY <2>1, <2>2, SubSeqProperties
  <2>4. Len(SubSeq(t, it + 1, Len(t))) = Len(t) - it
    BY <2>3, <1>1
  <2>5. ASSUME NEW i \in 1..Len(t)-it
        PROVE  SubSeq(t, it + 1, Len(t))[i] = t[it + i]
    <3>1. i \in 1..Len(t) - (it + 1) + 1 /\ it + 1 + i - 1 = it + i
      BY <1>1
    <3> QED  BY <2>3, <3>1
  <2> QED  BY <2>3, <2>4, <2>5
<1>4. EraseNode(t, it) = before \o after
  <2>1. it # EndOf(t)
    BY <1>1 DEF EndOf
  <2> QED  BY <2>1 DEF EraseNode, RemoveAt
<1> HIDE DEF before, after
<1>5. /\ before \o after \in Seq(S)
      /\ Len(before \o after) = Len(before) + Len(after)
      /\ \A i \in 1..Len(before) + Len(after) :
           (before \o after)[i] = IF i <= Len(before) THEN before[i] ELSE after[i - Len(before)]
  BY <1>2, <1>3, ConcatProperties
<1>6. ASSUME NEW i \in 1..Len(t)-1
      PROVE  (before \o after)[i] = IF i < it THEN t[i] ELSE t[i+1]
  <2>1. /\ Len(before) + Len(after) = Len(t) - 1
        /\ i \in 1..Len(before) + Len(after)
    BY <1>1, <1>2, <1>3
  <2>2. CASE i < it
    <3>1. i <= Len(before) /\ i \in 1..it-1
      BY <1>1, <1>2, <2>2
    <3> QED  BY <1>2, <1>5, <2>1, <2>2, <3>1
  <2>3. CASE ~(i < it)
    <3>1. ~(i <= Len(before)) /\ i - Len(before) \in 1..Len(t)-it /\ it + (i - Len(before)) = i + 1
      BY <1>1, <1>2, <2>3
    <3> QED  BY <1>3, <1>5, <2>1, <2>3, <3>1
  <2> QED  BY <2>2, <2>3
<1> QED  BY <1>1, <1>2, <1>3, <1>4, <1>5, <1>6

(* Hence erasing a node leaves the keys of the others distinct.            *)
LEMMA EraseKeepsKeys ==
  ASSUME NEW t \in Seq(Node), DistinctKeys(t), NEW it \in DOMAIN t
  PROVE  DistinctKeys(EraseNode(t, it))
<1> DEFINE old(i) == IF i < it THEN i ELSE i + 1
<1>1. DOMAIN t = 1..Len(t) /\ Len(t) \in Nat
  BY LenProperties
<1>2. EraseNode(t, it) \in Seq(Node) /\ Len(EraseNode(t, it)) = Len(t) - 1
  BY EraseProperties
<1>3. DOMAIN EraseNode(t, it) = 1..Len(t)-1
  BY <1>2, LenProperties
<1>4. \A i \in 1..Len(t)-1 : old(i) \in DOMAIN t /\ EraseNode(t, it)[i] = t[old(i)]
  BY <1>1, EraseProperties
<1>5. \A i, j \in 1..Len(t)-1 : i # j => old(i) # old(j)
  BY <1>1
<1> HIDE DEF old
<1> QED  BY <1>3, <1>4, <1>5 DEF DistinctKeys

(* A node whose hostname and SUID are found nowhere can be added.          *)
LEMMA AddKeepsKeys ==
  ASSUME NEW t \in Seq(Node), DistinctKeys(t), NEW n \in Node,
         FindHost(t, n.host) = EndOf(t), FindSuid(t, n.suid) = EndOf(t)
  PROVE  DistinctKeys(AddNode(t, n))
<1>1. \A i \in DOMAIN t : t[i].host # n.host /\ t[i].suid # n.suid
  BY FindProperties
<1>2. DOMAIN t = 1..Len(t) /\ Len(t) \in Nat
  BY LenProperties
<1>3. /\ DOMAIN Append(t, n) = 1..Len(t)+1
      /\ \A i \in 1..Len(t) : Append(t, n)[i] = t[i]
      /\ Append(t, n)[Len(t)+1] = n
  BY AppendProperties, LenProperties
<1>4. \A i \in 1..Len(t)+1 : i \in 1..Len(t) \/ i = Len(t)+1
  BY <1>2
<1> QED  BY <1>1, <1>2, <1>3, <1>4 DEF DistinctKeys, AddNode

(* The route that is left after pop_back is a route.                       *)
LEMMA FrontIsRoute ==
  ASSUME NEW r \in Seq(Names), r # <<>>
  PROVE  Front(r) \in Seq(Names)
<1>1. Len(r) \in Nat \ {0}
  BY EmptySeq, LenProperties
<1>2. 1 \in Int /\ Len(r) - 1 \in Int /\ \A i \in 1..Len(r)-1 : r[i] \in Names
  BY <1>1, ElementOfSeq
<1> QED  BY <1>2, SubSeqProperties DEF Front

(* Splitting the text of a registration gives two names.                   *)
LEMMA TextNames ==
  ASSUME NEW text \in Texts
  PROVE  HostOf(text) \in Names /\ SuidOf(text) \in Names
<1>1. CASE \E h \in Names : text = <<h>>
  BY <1>1 DEF HostOf, SuidOf
<1>2. CASE \E h, s \in Names : text = <<h, s>>
  BY <1>2 DEF HostOf, SuidOf
<1> QED  BY <1>1, <1>2 DEF Texts

--------------------------------------------------------------------------------
(* The parts of a step that only need the table to be one, for whoever     *)
(* composes the root node with requests of another kind.                   *)
TableOK == table \in Seq(Node)

LEMMA TableStep == TableOK /\ [Next]_vars => TableOK'
<1> SUFFICES ASSUME TableOK, [Next]_vars PROVE TableOK'
  OBVIOUS
<1>1. ASSUME NEW p \in Packet, NEW a \in Addrs, RegisterHost(p, a) PROVE TableOK'
  <2> DEFINE node == [type |-> p.type, host |-> HostOf(p.text), suid |-> SuidOf(p.text),
                      addr |-> a, proto |-> p.proto]
  <2>1. p \in RegisterPacket
    BY <1>1 DEF RegisterHost, Packet, RegisterPacket, ResolvePacket, HostnamePacket, PlainPacket
  <2>2. node \in Node
    BY <2>1, TextNames DEF RegisterPacket, Node
  <2>3. Append(table, node) \in Seq(Node)
    BY <2>2, AppendProperties DEF TableOK
  <2> QED  BY <1>1, <2>3 DEF RegisterHost, AddNode, TableOK
<1>2. ASSUME NEW p \in Packet, NEW a \in Addrs, UnregisterHost(p, a) PROVE TableOK'
  <2>1. CASE FindAddr(table, a) = EndOf(table)
    BY <1>2, <2>1 DEF UnregisterHost, TableOK
  <2>2. CASE FindAddr(table, a) # EndOf(table)
    <3>1. EraseNode(table, FindAddr(table, a)) \in Seq(Node)
      BY <2>2, FindProperties, EraseProperties DEF TableOK
    <3> QED  BY <1>2, <2>2, <3>1 DEF UnregisterHost, TableOK
  <2> QED  BY <2>1, <2>2
<1>3. CASE Crash
  BY <1>3, EmptySeq DEF Crash, TableOK
<1>4. CASE UNCHANGED table
  BY <1>4 DEF TableOK
<1> QED  BY <1>1, <1>2, <1>3, <1>4
  DEF Next, ProcessPacket, ResolveGsn, LocalGsn, RootNodes, Hostname, UnknownType, Restart, vars

(* Every component of the state keeps its type (RootNode's TypeOK).        *)
THEOREM TypeCorrect == Spec => []TypeOK
<1>1. Init => TypeOK
  BY EmptySeq DEF Init, TypeOK, NoReply, Reply
<1>2. TypeOK /\ [Next]_vars => TypeOK'
  <2> SUFFICES ASSUME TypeOK, [Next]_vars PROVE TypeOK'
    OBVIOUS
  <2>1. table' \in Seq(Node)
    BY TableStep DEF TypeOK, TableOK
  <2>2. ASSUME NEW p \in Packet, NEW a \in Addrs, RegisterHost(p, a) \/ UnregisterHost(p, a)
        PROVE  TypeOK'
    <3>1. reply'.nodes = {} /\ reply'.route = <<>>
      BY <2>2 DEF RegisterHost, UnregisterHost, Response, Reply
    <3> QED  BY <2>1, <2>2, <3>1, EmptySeq DEF RegisterHost, UnregisterHost, Receive, TypeOK
  <2>3. ASSUME NEW p \in Packet, NEW a \in Addrs, ResolveGsn(p, a) PROVE TypeOK'
    <3>1. p \in ResolvePacket
      BY <2>3 DEF GeosubOf, ResolveGsn, Packet, RegisterPacket, ResolvePacket, HostnamePacket, PlainPacket
    <3>2. p.url.route \in Seq(Names) /\ p.url.route # <<>>
      BY <3>1, RoutesAssumption DEF ResolvePacket, Url
    <3>3. Front(p.url.route) \in Seq(Names)
      BY <3>2, FrontIsRoute
    <3>4. PICK host : LET it == FindHost(table, host)
                          bySubnet == Front(p.url.route) = <<>> /\ p.url.glq # NoQuery
                      IN  reply' = IF it = EndOf(table) THEN Response("netspace_error")
                                   ELSE IF bySubnet \/ Len(Front(p.url.route)) = 1
                                        THEN Describe(table[it])
                                   ELSE Forward(table[it], Front(p.url.route))
      BY <2>3 DEF GeosubOf, ResolveGsn
    <3>5. FindHost(table, host) # EndOf(table) => table[FindHost(table, host)] \in Node
      BY FindProperties, ElementOfSeq, LenProperties DEF TypeOK
    <3>6. reply'.nodes \subseteq Node /\ reply'.route \in Seq(Names)
      BY <3>3, <3>4, <3>5, EmptySeq DEF Response, Describe, Forward, Reply
    <3> QED  BY <2>3, <3>6 DEF GeosubOf, ResolveGsn, Receive, TypeOK
  <2>4. ASSUME NEW p \in Packet, NEW a \in Addrs, LocalGsn(p, a) \/ RootNodes(p, a)
        PROVE  TypeOK'
    <3>1. \A type : NodesOf(table, type) \subseteq Node
      BY RangeOfSeq DEF TypeOK, NodesOf
    <3>2. reply'.nodes \subseteq Node /\ reply'.route = <<>>
      BY <2>4, <3>1 DEF LocalGsn, RootNodes, Listing, Reply
    <3> QED  BY <2>4, <3>2, EmptySeq DEF LocalGsn, RootNodes, Receive, TypeOK
  <2>5. ASSUME NEW p \in Packet, NEW a \in Addrs, Hostname(p, a) PROVE TypeOK'
    <3>1. FindAddr(table, p.addr) # EndOf(table) => table[FindAddr(table, p.addr)] \in Node
      BY FindProperties, ElementOfSeq, LenProperties DEF TypeOK
    <3>2. reply'.nodes \subseteq Node /\ reply'.route = <<>>
      BY <2>5, <3>1 DEF Hostname, Response, Describe, Reply
    <3> QED  BY <2>5, <3>2, EmptySeq DEF Hostname, Receive, TypeOK
  <2>6. ASSUME NEW p \in Packet, NEW a \in Addrs, UnknownType(p, a) PROVE TypeOK'
    BY <2>6, EmptySeq DEF UnknownType, Receive, Response, Reply, TypeOK
  <2>7. CASE Crash
    BY <2>7, EmptySeq DEF Crash, NoReply, Reply, TypeOK
  <2>8. CASE Restart
    BY <2>8 DEF Restart, TypeOK
  <2>9. CASE UNCHANGED vars
    BY <2>9 DEF vars, TypeOK
  <2> QED  BY <2>2, <2>3, <2>4, <2>5, <2>6, <2>7, <2>8, <2>9 DEF Next, ProcessPacket
<1> QED  BY <1>1, <1>2, PTL DEF Spec

(* Every step keeps the keys distinct.                                     *)
LEMMA KeysStep == TableOK /\ UniqueKeys /\ [Next]_vars => UniqueKeys'
<1> SUFFICES ASSUME TableOK, UniqueKeys, [Next]_vars PROVE UniqueKeys'
  OBVIOUS
<1>1. ASSUME NEW p \in Packet, NEW a \in Addrs, RegisterHost(p, a) PROVE UniqueKeys'
  <2> DEFINE node == [type |-> p.type, host |-> HostOf(p.text), suid |-> SuidOf(p.text),
                      addr |-> a, proto |-> p.proto]
  <2>1. CASE UNCHANGED table
    BY <2>1 DEF UniqueKeys
  <2>2. CASE /\ FindHost(table, HostOf(p.text)) = EndOf(table)
             /\ FindSuid(table, SuidOf(p.text)) = EndOf(table)
             /\ table' = AddNode(table, node)
    <3>1. node \in Node /\ node.host = HostOf(p.text) /\ node.suid = SuidOf(p.text)
      <4>1. p \in RegisterPacket
        BY <1>1 DEF RegisterHost, Packet, RegisterPacket, ResolvePacket, HostnamePacket, PlainPacket
      <4> QED  BY <4>1, TextNames DEF RegisterPacket, Node
    <3> HIDE DEF node
    <3>2. DistinctKeys(AddNode(table, node))
      BY <2>2, <3>1, AddKeepsKeys DEF TableOK, UniqueKeys
    <3> QED  BY <2>2, <3>2 DEF UniqueKeys
  <2> QED  BY <1>1, <2>1, <2>2 DEF RegisterHost, Taken
<1>2. ASSUME NEW p \in Packet, NEW a \in Addrs, UnregisterHost(p, a) PROVE UniqueKeys'
  <2>1. CASE FindAddr(table, a) = EndOf(table)
    BY <1>2, <2>1 DEF UnregisterHost, UniqueKeys
  <2>2. CASE FindAddr(table, a) # EndOf(table)
    <3>1. DistinctKeys(EraseNode(table, FindAddr(table, a)))
      BY <2>2, FindProperties, EraseKeepsKeys DEF TableOK, UniqueKeys
    <3> QED  BY <1>2, <2>2, <3>1 DEF UnregisterHost, UniqueKeys
  <2> QED  BY <2>1, <2>2
<1>3. CASE Crash
  BY <1>3 DEF Crash, UniqueKeys, DistinctKeys
<1>4. CASE UNCHANGED table
  BY <1>4 DEF UniqueKeys
<1> QED  BY <1>1, <1>2, <1>3, <1>4
  DEF Next, ProcessPacket, ResolveGsn, LocalGsn, RootNodes, Hostname, UnknownType, Restart, vars

(* No two registered nodes ever share a hostname or a SUID (RootNode's     *)
(* UniqueKeys); TypeOK is what it is inductive relative to.                *)
THEOREM KeysUnique == Spec => []UniqueKeys
<1>1. Init => UniqueKeys
  BY DEF Init, UniqueKeys, DistinctKeys
<1>2. TypeOK /\ UniqueKeys /\ [Next]_vars => UniqueKeys'
  BY KeysStep DEF TypeOK, TableOK
<1> QED  BY <1>1, <1>2, TypeCorrect, PTL DEF Spec

--------------------------------------------------------------------------------
(* What adding and erasing do to the set of nodes in a table.              *)
LEMMA AddToRange ==
  ASSUME NEW t \in Seq(Node), NEW n \in Node
  PROVE  Range(AddNode(t, n)) = Range(t) \cup {n}
<1>1. Append(t, n) = t \o <<n>> /\ <<n>> \in Seq(Node)
  BY AppendIsConcat
<1>2. Range(t \o <<n>>) = Range(t) \cup Range(<<n>>)
  BY ZenonT(40), <1>1, RangeConcatenation
<1>3. Range(<<n>>) = {n}
  BY DEF Range
<1> QED  BY <1>1, <1>2, <1>3 DEF AddNode

LEMMA EraseFromRange ==
  ASSUME NEW t \in Seq(Node), DistinctKeys(t), NEW it \in DOMAIN t
  PROVE  Range(EraseNode(t, it)) = Range(t) \ {t[it]}
<1> DEFINE e == EraseNode(t, it)
<1>1. DOMAIN t = 1..Len(t) /\ Len(t) \in Nat
  BY LenProperties
<1>2. /\ DOMAIN e = 1..Len(t)-1
      /\ \A i \in 1..Len(t)-1 : e[i] = IF i < it THEN t[i] ELSE t[i+1]
  BY EraseProperties, LenProperties
<1>3. \A i \in DOMAIN t : i # it => t[i] # t[it]
  BY DEF DistinctKeys
<1> HIDE DEF e
<1>4. ASSUME NEW i \in DOMAIN e PROVE \E j \in DOMAIN t : j # it /\ e[i] = t[j]
  <2>1. CASE i < it
    BY <1>1, <1>2, <2>1
  <2>2. CASE ~(i < it)
    <3>1. i + 1 \in DOMAIN t /\ i + 1 # it /\ e[i] = t[i+1]
      BY <1>1, <1>2, <2>2
    <3> QED  BY <3>1
  <2> QED  BY <2>1, <2>2
<1>5. ASSUME NEW j \in DOMAIN t, j # it PROVE \E i \in DOMAIN e : e[i] = t[j]
  <2>1. CASE j < it
    <3>1. j \in DOMAIN e /\ e[j] = t[j]
      BY <1>1, <1>2, <2>1
    <3> QED  BY <3>1
  <2>2. CASE ~(j < it)
    <3>1. j - 1 \in DOMAIN e /\ ~(j - 1 < it) /\ (j - 1) + 1 = j
      BY <1>1, <1>2, <1>5, <2>2
    <3> QED  BY <1>2, <3>1
  <2> QED  BY <2>1, <2>2
<1>6. Range(e) = Range(t) \ {t[it]}
  BY <1>3, <1>4, <1>5 DEF Range
<1> QED  BY <1>6 DEF e

(* Every step is one of the registry, or changes nothing of it.            *)
LEMMA RegistryStep == TableOK /\ UniqueKeys /\ [Next]_vars => [Abstract!Next]_(Abstract!vars)
<1> SUFFICES ASSUME TableOK, UniqueKeys, [Next]_vars
             PROVE  Abstract!Next \/ UNCHANGED Abstract!vars
  OBVIOUS
<1>1. ASSUME NEW p \in Packet, NEW a \in Addrs, RegisterHost(p, a) PROVE Abstract!Next
  <2> DEFINE node == [type |-> p.type, host |-> HostOf(p.text), suid |-> SuidOf(p.text),
                      addr |-> a, proto |-> p.proto]
  <2>1. p \in RegisterPacket
    BY <1>1 DEF RegisterHost, Packet, RegisterPacket, ResolvePacket, HostnamePacket, PlainPacket
  <2>2. node \in Node /\ node.host = HostOf(p.text) /\ node.suid = SuidOf(p.text) /\ node.addr = a
    BY <2>1, TextNames DEF RegisterPacket, Node
  <2>3. AbstractAnswer' = [op |-> "register", from |-> a, code |-> reply'.code]
    BY <1>1 DEF RegisterHost, Receive, AbstractAnswer
  <2>4. \/ /\ Response("malformed_content") = reply'
           /\ UNCHANGED table
        \/ /\ FindHost(table, node.host) # EndOf(table) \/ FindSuid(table, node.suid) # EndOf(table)
           /\ reply' = Response("netspace_duplicate")
           /\ UNCHANGED table
        \/ /\ FindHost(table, node.host) = EndOf(table) /\ FindSuid(table, node.suid) = EndOf(table)
           /\ table' = AddNode(table, node)
           /\ reply' = Response("ok")
    BY <1>1, <2>2 DEF RegisterHost, Taken
  <2> HIDE DEF node
  <2>5. Abstract!Clashes(node) <=> \/ FindHost(table, node.host) # EndOf(table)
                                  \/ FindSuid(table, node.suid) # EndOf(table)
    BY <2>2, FindProperties DEF Abstract!Clashes, Range, TableOK
  <2>6. CASE reply' = Response("malformed_content") /\ UNCHANGED table
    BY <2>3, <2>6 DEF Abstract!Next, Abstract!RefuseMalformed, Abstract!Answer, Response, Reply
  <2>7. CASE Abstract!Clashes(node) /\ reply' = Response("netspace_duplicate") /\ UNCHANGED table
    BY <2>2, <2>3, <2>7 DEF Abstract!Next, Abstract!RefuseDuplicate, Abstract!Answer, Response, Reply
  <2>8. CASE ~Abstract!Clashes(node) /\ table' = AddNode(table, node) /\ reply' = Response("ok")
    <3>1. Range(table)' = Range(table) \cup {node}
      BY <2>2, <2>8, AddToRange DEF TableOK
    <3> QED  BY <2>2, <2>3, <2>8, <3>1
             DEF Abstract!Next, Abstract!Register, Abstract!Answer, Response, Reply
  <2> QED  BY <2>4, <2>5, <2>6, <2>7, <2>8
<1>2. ASSUME NEW p \in Packet, NEW a \in Addrs, UnregisterHost(p, a) PROVE Abstract!Next
  <2> DEFINE it == FindAddr(table, a)
  <2>1. AbstractAnswer' = [op |-> "unregister", from |-> a, code |-> reply'.code]
    BY <1>2 DEF UnregisterHost, Receive, AbstractAnswer
  <2>2. CASE it = EndOf(table)
    <3>1. \A n \in Range(table) : n.addr # a
      BY <2>2, FindProperties DEF Range, TableOK
    <3>2. reply' = Response("netspace_error") /\ UNCHANGED table
      BY <1>2, <2>2 DEF UnregisterHost
    <3> QED  BY <2>1, <3>1, <3>2
             DEF Abstract!Next, Abstract!RefuseUnknown, Abstract!Answer, Response, Reply
  <2>3. CASE it # EndOf(table)
    <3>1. it \in DOMAIN table
      BY <2>3, FindProperties DEF TableOK
    <3>2. table[it] \in Node /\ table[it] \in Range(table) /\ table[it].addr = a
      BY <2>3, <3>1, FindProperties, ElementOfSeq, LenProperties DEF TableOK, Range
    <3>3. reply' = Response("ok") /\ table' = EraseNode(table, it)
      BY <1>2, <2>3 DEF UnregisterHost
    <3>4. Range(table)' = Range(table) \ {table[it]}
      BY <3>1, <3>3, EraseFromRange DEF TableOK, UniqueKeys
    <3> HIDE DEF it
    <3>5. Abstract!Unregister(table[it])
      BY <2>1, <3>2, <3>3, <3>4 DEF Abstract!Unregister, Abstract!Answer, Response, Reply
    <3> QED  BY <3>2, <3>5 DEF Abstract!Next
  <2> QED  BY <2>2, <2>3
<1>3. ASSUME NEW p \in Packet, NEW a \in Addrs,
             ResolveGsn(p, a) \/ LocalGsn(p, a) \/ RootNodes(p, a) \/ Hostname(p, a) \/ UnknownType(p, a)
      PROVE  Abstract!Next
  <2>1. recv'.op \notin {"register", "unregister", "none"} /\ UNCHANGED table
    BY <1>3 DEF GeosubOf, ResolveGsn, LocalGsn, RootNodes, Hostname, UnknownType, Receive
  <2>2. AbstractAnswer' = [op |-> "inspect", from |-> "any", code |-> "any"]
    BY <2>1 DEF AbstractAnswer
  <2> QED  BY <2>1, <2>2 DEF Abstract!Next, Abstract!Inspect, Abstract!Answer
<1>4. CASE Crash
  <2>1. Range(table)' = {} /\ AbstractAnswer' = [op |-> "none", from |-> "any", code |-> "none"]
    BY <1>4 DEF Crash, Range, AbstractAnswer, NoPacket
  <2> QED  BY <2>1 DEF Abstract!Next, Abstract!Forget, Abstract!NoAnswer, Abstract!Answer
<1>5. CASE Restart
  BY <1>5 DEF Restart, Abstract!vars, AbstractAnswer
<1>6. CASE UNCHANGED vars
  BY <1>6 DEF vars, Abstract!vars, AbstractAnswer
<1> QED  BY <1>1, <1>2, <1>3, <1>4, <1>5, <1>6 DEF Next, ProcessPacket

(* The root node implements the registry: whatever is asked of it, in any  *)
(* order and across restarts, its table changes as Registry's set of nodes *)
(* does and the reply says what happened (RootNode's ImplementsRegistry).  *)
THEOREM RegistryImplemented == Spec => ImplementsRegistry
<1>1. Init => Abstract!Init
  BY DEF Init, Abstract!Init, Abstract!NoAnswer, Abstract!Answer, AbstractAnswer, NoPacket, Range
<1>2. TypeOK /\ UniqueKeys /\ [Next]_vars => [Abstract!Next]_(Abstract!vars)
  BY RegistryStep DEF TypeOK, TableOK
<1> QED  BY <1>1, <1>2, TypeCorrect, KeysUnique, PTL DEF Spec, ImplementsRegistry, Abstract!Spec

--------------------------------------------------------------------------------
(* Adding and erasing keep the order of the nodes that stay.               *)
LEMMA AddKeepsOrder ==
  ASSUME NEW t \in Seq(Node), NEW n \in Node, n \notin Range(t)
  PROVE  /\ \A m \in Range(t) : Before(AddNode(t, n), m, n)
         /\ \A m, k \in Range(t) : Before(t, m, k) <=> Before(AddNode(t, n), m, k)
<1> DEFINE longer == AddNode(t, n)
<1>1. DOMAIN t = 1..Len(t) /\ Len(t) \in Nat
  BY LenProperties
<1>2. /\ DOMAIN longer = 1..Len(t)+1
      /\ \A i \in 1..Len(t) : longer[i] = t[i]
      /\ longer[Len(t)+1] = n
  BY AppendProperties, LenProperties DEF AddNode
<1> HIDE DEF longer
<1>3. ASSUME NEW m \in Range(t)
      PROVE  Before(longer, m, n)
  <2>1. PICK i \in DOMAIN t : t[i] = m
    BY DEF Range
  <2>2. i < Len(t)+1 /\ i \in DOMAIN longer /\ Len(t)+1 \in DOMAIN longer
    BY <1>1, <1>2
  <2>. QED BY <1>1, <1>2, <2>1, <2>2 DEF Before
<1>4. ASSUME NEW m \in Range(t), NEW k \in Range(t)
      PROVE  Before(t, m, k) <=> Before(longer, m, k)
  <2>1. Before(t, m, k) => Before(longer, m, k)
    BY <1>1, <1>2 DEF Before
  <2>2. ASSUME NEW i \in DOMAIN longer, NEW j \in DOMAIN longer, i < j, longer[i] = m, longer[j] = k
        PROVE  i \in DOMAIN t /\ j \in DOMAIN t
    <3>1. j # Len(t)+1
      BY <1>2, <2>2
    <3>. QED BY <1>1, <1>2, <2>2, <3>1
  <2>3. Before(longer, m, k) => Before(t, m, k)
    BY <1>1, <1>2, <2>2 DEF Before
  <2>. QED BY <2>1, <2>3
<1>. QED BY <1>3, <1>4 DEF longer

LEMMA EraseKeepsOrder ==
  ASSUME NEW t \in Seq(Node), DistinctKeys(t), NEW it \in DOMAIN t
  PROVE  \A m, k \in Range(t) \ {t[it]} : Before(t, m, k) <=> Before(EraseNode(t, it), m, k)
<1> DEFINE e == EraseNode(t, it)
           old(i) == IF i < it THEN i ELSE i + 1
           new(j) == IF j < it THEN j ELSE j - 1
<1>1. DOMAIN t = 1..Len(t) /\ Len(t) \in Nat /\ it \in 1..Len(t)
  BY LenProperties
<1>2. /\ DOMAIN e = 1..Len(t)-1
      /\ \A i \in 1..Len(t)-1 : e[i] = IF i < it THEN t[i] ELSE t[i+1]
  BY EraseProperties, LenProperties
<1> HIDE DEF e
<1>3. \A i \in DOMAIN e : old(i) \in DOMAIN t /\ e[i] = t[old(i)]
  BY <1>1, <1>2
<1>4. \A i, j \in DOMAIN e : i < j => old(i) < old(j)
  BY <1>1, <1>2
<1>5. \A j \in DOMAIN t : j # it => new(j) \in DOMAIN e /\ old(new(j)) = j
  BY <1>1, <1>2
<1>6. \A i, j \in DOMAIN t : i # it /\ j # it /\ i < j => new(i) < new(j)
  BY <1>1
<1> HIDE DEF old, new
<1>7. ASSUME NEW m \in Range(t) \ {t[it]}, NEW k \in Range(t) \ {t[it]}
      PROVE  Before(t, m, k) <=> Before(e, m, k)
  <2>1. Before(e, m, k) => Before(t, m, k)
    BY <1>3, <1>4 DEF Before
  <2>2. ASSUME NEW i \in DOMAIN t, NEW j \in DOMAIN t, i < j, t[i] = m, t[j] = k
        PROVE  Before(e, m, k)
    <3>1. i # it /\ j # it
      BY <2>2
    <3>2. /\ new(i) \in DOMAIN e /\ new(j) \in DOMAIN e /\ new(i) < new(j)
          /\ e[new(i)] = m /\ e[new(j)] = k
      BY <1>3, <1>5, <1>6, <2>2, <3>1
    <3>. QED BY <3>2 DEF Before
  <2>. QED BY <2>1, <2>2 DEF Before
<1>. QED BY <1>7 DEF e

(* A search by address that comes to the end of the table says that no node
   there has it. *)
LEMMA UnfoundIsAbsent ==
  ASSUME NEW t \in Seq(Node), NEW v, FindAddr(t, v) = EndOf(t)
  PROVE  \A n \in Range(t) : n.addr # v
<1>1. \A i \in DOMAIN t : t[i].addr # v
  BY FindProperties
<1>. QED BY <1>1 DEF Range

(* What find_addr finds is the oldest node of the address.                 *)
LEMMA FoundIsOldest ==
  ASSUME NEW t \in Seq(Node), NEW a, FindAddr(t, a) # EndOf(t)
  PROVE  /\ FindAddr(t, a) \in DOMAIN t /\ t[FindAddr(t, a)] \in Range(t)
         /\ t[FindAddr(t, a)].addr = a /\ Oldest(t, t[FindAddr(t, a)])
<1>1. PICK it \in DOMAIN t : it = FindAddr(t, a)
  BY FindProperties
<1>2. t[it].addr = a /\ \A j \in DOMAIN t : t[j].addr = a => it <= j
  BY <1>1, FindProperties
<1>3. DOMAIN t = 1..Len(t) /\ Len(t) \in Nat
  BY LenProperties
<1>4. ASSUME NEW m \in Range(t) \ {t[it]}, m.addr = t[it].addr
      PROVE  Before(t, t[it], m)
  <2>1. PICK j \in DOMAIN t : t[j] = m
    BY DEF Range
  <2>2. it < j
    BY <1>2, <1>3, <1>4, <2>1
  <2>. QED BY <2>1, <2>2 DEF Before
<1>. QED BY <1>1, <1>2, <1>4 DEF Oldest, Range

(* A registration goes behind what is there, an unregistration takes the   *)
(* oldest of its address.                                                  *)
LEMMA FifoStep ==
  ASSUME TableOK, UniqueKeys, [Next]_vars, table' # table, up, up'
  PROVE  QueueStep
<1> DEFINE staying == Range(table) \cap Range(table')
           joining == Range(table') \ Range(table)
           leaving == Range(table) \ Range(table')
<1>1. CASE \E p \in Packet, a \in Addrs : RegisterHost(p, a)
  <2>1. PICK p \in Packet, a \in Addrs : RegisterHost(p, a)
    BY <1>1
  <2>2. p \in RegisterPacket
    BY <2>1 DEF RegisterHost, Packet, RegisterPacket, ResolvePacket, HostnamePacket, PlainPacket
  <2>3. PICK n \in Node : n = [type |-> p.type, host |-> HostOf(p.text), suid |-> SuidOf(p.text),
                               addr |-> a, proto |-> p.proto]
    BY <2>2, TextNames DEF RegisterPacket, Node
  <2>4. n.host = HostOf(p.text) /\ n.addr = a /\ peer' = a
    BY <2>1, <2>3 DEF RegisterHost, Receive
  <2>5. FindHost(table, n.host) = EndOf(table) /\ table' = AddNode(table, n)
    BY <2>1, <2>3, <2>4 DEF RegisterHost, Taken
  <2>6. n \notin Range(table)
    BY <2>5, FindProperties DEF Range, TableOK
  <2>7. staying = Range(table) /\ joining = {n} /\ leaving = {}
    BY <2>5, <2>6, AddToRange DEF TableOK
  <2>8. /\ \A m \in Range(table) : Before(table', m, n)
        /\ \A m, k \in Range(table) : Before(table, m, k) <=> Before(table', m, k)
    BY <2>5, <2>6, AddKeepsOrder DEF TableOK
  <2> HIDE DEF staying, joining, leaving
  <2>9. /\ \A m, k \in joining \cup leaving : m = k
        /\ \A k \in joining \cup leaving : k.addr = peer'
        /\ \A k \in joining, m \in staying : Before(table', m, k)
        /\ \A k \in leaving : Oldest(table, k)
        /\ \A m, k \in staying : Before(table, m, k) <=> Before(table', m, k)
    BY <2>4, <2>7, <2>8
  <2>. QED BY <2>9 DEF QueueStep, staying, joining, leaving
<1>2. CASE \E p \in Packet, a \in Addrs : UnregisterHost(p, a)
  <2>1. PICK p \in Packet, a \in Addrs : UnregisterHost(p, a)
    BY <1>2
  <2>2. FindAddr(table, a) # EndOf(table) /\ peer' = a
    BY <2>1 DEF UnregisterHost, Receive
  <2>3. PICK it \in DOMAIN table : it = FindAddr(table, a)
    BY <2>2, FoundIsOldest DEF TableOK
  <2>4. PICK n \in Range(table) : n = table[it]
    BY DEF Range
  <2>5. n.addr = a /\ Oldest(table, n)
    BY <2>2, <2>3, <2>4, FoundIsOldest DEF TableOK
  <2>6. table' = EraseNode(table, it)
    BY <2>1, <2>2, <2>3 DEF UnregisterHost
  <2>7. staying = Range(table) \ {n} /\ joining = {} /\ leaving = {n}
    BY <2>4, <2>6, EraseFromRange DEF TableOK, UniqueKeys
  <2>8. \A m, k \in Range(table) \ {n} : Before(table, m, k) <=> Before(table', m, k)
    BY <2>4, <2>6, EraseKeepsOrder DEF TableOK, UniqueKeys
  <2> HIDE DEF staying, joining, leaving
  <2>9. /\ \A m, k \in joining \cup leaving : m = k
        /\ \A k \in joining \cup leaving : k.addr = peer'
        /\ \A k \in joining, m \in staying : Before(table', m, k)
        /\ \A k \in leaving : Oldest(table, k)
        /\ \A m, k \in staying : Before(table, m, k) <=> Before(table', m, k)
    BY <2>2, <2>5, <2>7, <2>8
  <2>. QED BY <2>9 DEF QueueStep, staying, joining, leaving
<1>3. CASE Crash \/ UNCHANGED table
  BY <1>3 DEF Crash
<1>. QED BY <1>1, <1>2, <1>3
  DEF Next, ProcessPacket, ResolveGsn, LocalGsn, RootNodes, Hostname, UnknownType, Restart, vars

(* The registrations of an address are a queue: whatever is asked of the   *)
(* root node, new ones go to its end, the oldest goes first, and nobody    *)
(* but the address itself adds or takes one (netspace_table.cpp:17-26).    *)
THEOREM AddressesQueue == Spec => FifoPerAddress
<1>1. TypeOK /\ UniqueKeys /\ [Next]_vars => (table' # table /\ up /\ up' => QueueStep)
  BY FifoStep DEF TypeOK, TableOK
<1>. QED BY <1>1, TypeCorrect, KeysUnique, PTL DEF Spec, FifoPerAddress
================================================================================
