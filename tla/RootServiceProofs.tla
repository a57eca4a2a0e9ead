---------------------------- MODULE RootServiceProofs ----------------------------
(***************************************************************************)
(* Proofs about a root node and those it talks to, for any names, nodes,   *)
(* clients and answers, scripts, ports and number of faults.               *)
(*                                                                         *)
(* QueryFanout: the iterator of a query stays in the table, the reply is   *)
(* made of what the nodes said, and a node whose handlers wait for others  *)
(* implements the registry as well.  GsnService: what a forge client was   *)
(* told holds until the client asks for something else, unless one of its  *)
(* own datagrams is astray.                                                *)
(*                                                                         *)
(* The steps of both are RootNode's or leave RootNode alone, so what is    *)
(* proved of the table in RootNodeProofs holds here.                       *)
(***************************************************************************)
EXTENDS QueryFanout, GsnService, RootNodeProofs

--------------------------------------------------------------------------------
(* Queries                                                                 *)

(* A handler that waits has a query as its request and, while its socket   *)
(* is open, a node that it asks.                                           *)
FanInv ==
  /\ TableOK
  /\ UniqueKeys
  /\ FanoutTypeOK
  /\ query # "none" => recv.op = "request"
  /\ conn = "open" => query # "none" /\ at # EndOf(table)

(* end() is a position, the one after the last node.                       *)
LEMMA EndIsPosition ==
  ASSUME TableOK
  PROVE  /\ Len(table) \in Nat /\ DOMAIN table = 1..Len(table) /\ EndOf(table) = Len(table) + 1
         /\ EndOf(table) \in 1..EndOf(table)
BY LenProperties DEF TableOK, EndOf

LEMMA SuidIsName ==
  ASSUME TableOK, NEW i \in DOMAIN table
  PROVE  table[i].suid \in Names
<1>1. table[i] \in Node
  BY EndIsPosition, ElementOfSeq DEF TableOK
<1>. QED BY <1>1 DEF Node

(* The next http node is one of the table, or there is none and the        *)
(* iterator is end().                                                      *)
LEMMA NextHttpInTable ==
  ASSUME TableOK, NEW i \in Nat \ {0}
  PROVE  NextHttp(i) \in 1..EndOf(table)
<1> DEFINE S == {j \in i..Len(table) : table[j].proto = Http}
<1>1. S \in SUBSET Nat /\ EndOf(table) \in Nat /\ EndOf(table) \notin S /\ S \subseteq 1..EndOf(table)
  BY EndIsPosition
<1>2. NextHttp(i) = FirstOf(S, EndOf(table))
  BY DEF NextHttp
<1> HIDE DEF S
<1>3. NextHttp(i) = EndOf(table) \/ NextHttp(i) \in S
  BY <1>1, <1>2, FirstOfProperties
<1>4. EndOf(table) \in 1..EndOf(table)
  BY EndIsPosition
<1>. QED BY <1>1, <1>3, <1>4

LEMMA FindSuidInTable ==
  ASSUME TableOK, NEW v
  PROVE  /\ FindSuid(table, v) \in 1..EndOf(table)
         /\ FindSuid(table, v) # EndOf(table) => table[FindSuid(table, v)].suid = v
<1> DEFINE S == {i \in DOMAIN table : table[i].suid = v}
<1>1. S \in SUBSET Nat /\ EndOf(table) \in Nat /\ EndOf(table) \notin S /\ S \subseteq 1..EndOf(table)
  BY EndIsPosition
<1>2. FindSuid(table, v) = FirstOf(S, EndOf(table))
  BY DEF FindSuid
<1>3. \A i \in S : table[i].suid = v
  OBVIOUS
<1> HIDE DEF S
<1>4. FindSuid(table, v) = EndOf(table) \/ FindSuid(table, v) \in S
  BY <1>1, <1>2, FirstOfProperties
<1>5. EndOf(table) \in 1..EndOf(table)
  BY EndIsPosition
<1>. QED BY <1>1, <1>3, <1>4, <1>5

LEMMA FanInvInit == FanoutInit => FanInv
BY EmptySeq DEF FanoutInit, Init, Idle, FanInv, FanoutTypeOK, TableOK, UniqueKeys, DistinctKeys

(* Hearing a node out.                                                     *)
LEMMA HearStep ==
  ASSUME FanInv, NEW said \in {"ok", "error", "garbled"}, NEW more \in Seq(Names \cup {Junk}),
         Hear(said, more)
  PROVE  FanInv'
<1>1. at \in DOMAIN table /\ at \in Nat \ {0}
  BY EndIsPosition DEF Hear, FanInv, FanoutTypeOK
<1>2. table[at].suid \in Names
  BY <1>1, SuidIsName DEF FanInv
<1>3. heard' \in Seq([suid : Names, said : {"ok", "error", "garbled"}])
  BY <1>2, AppendProperties DEF Hear, FanInv, FanoutTypeOK
<1>4. parts' \in Seq(Names \cup {Junk})
  BY ConcatProperties DEF Hear, FanInv, FanoutTypeOK
<1>5. After \in 1..EndOf(table)
  BY <1>1, NextHttpInTable, EndIsPosition DEF After, FanInv
<1>. QED BY <1>3, <1>4, <1>5
         DEF Hear, vars, FanInv, FanoutTypeOK, TableOK, UniqueKeys, EndOf

LEMMA FanInvStep == FanInv /\ [FanoutNext]_queryVars => FanInv'
<1>. SUFFICES ASSUME FanInv, [FanoutNext]_queryVars PROVE FanInv'
  OBVIOUS
<1>1. ASSUME NEW p \in Packet, NEW a \in Addrs, Handle(p, a) PROVE FanInv'
  <2>1. [Next]_vars
    BY <1>1 DEF Handle, Next
  <2>2. TableOK' /\ UniqueKeys'
    BY <2>1, TableStep, KeysStep DEF FanInv
  <2>. QED BY <1>1, <2>2, EmptySeq DEF Handle, Idle, FanInv, FanoutTypeOK
<1>2. ASSUME NEW front, NEW text, NEW a \in Addrs, StartQuery(front, text, a) PROVE FanInv'
  <2>1. at' \in 1..EndOf(table) /\ query' \in {"all", "one"}
    BY <1>2, NextHttpInTable, FindSuidInTable DEF StartQuery, FanInv
  <2>. QED BY <1>2, <2>1, EmptySeq
           DEF StartQuery, Idle, Receive, FanInv, FanoutTypeOK, TableOK, UniqueKeys, EndOf
<1>3. CASE Connect
  BY <1>3 DEF Connect, vars, FanInv, FanoutTypeOK, TableOK, UniqueKeys, EndOf
<1>4. CASE Answer
  <2>1. CASE Hear("ok", <<table[at].suid>>)
    <3>1. at \in DOMAIN table
      BY <2>1, EndIsPosition DEF Hear, FanInv, FanoutTypeOK
    <3>2. table[at].suid \in Names
      BY <3>1, SuidIsName DEF FanInv
    <3>3. <<table[at].suid>> \in Seq(Names \cup {Junk})
      BY <3>2
    <3>. QED BY <2>1, <3>3, HearStep
  <2>2. <<>> \in Seq(Names \cup {Junk}) /\ <<Junk>> \in Seq(Names \cup {Junk})
    BY EmptySeq
  <2>. QED BY <1>4, <2>1, <2>2, HearStep DEF Answer
<1>5. CASE Crash /\ Forgotten /\ UNCHANGED server
  <2>1. TableOK' /\ UniqueKeys'
    BY <1>5, TableStep, KeysStep DEF Next, FanInv
  <2>. QED BY <1>5, <2>1, EmptySeq DEF Forgotten, FanInv, FanoutTypeOK
<1>6. CASE Finish
  BY <1>6 DEF Finish, FanInv, FanoutTypeOK, TableOK, UniqueKeys
<1>7. ASSUME NEW a \in Addrs, NEW s \in {"serves", "refuses", "silent"}, ChangeServer(a, s)
      PROVE  FanInv'
  BY <1>7 DEF ChangeServer, vars, fanVars, FanInv, FanoutTypeOK, TableOK, UniqueKeys, EndOf
<1>8. CASE Restart /\ UNCHANGED <<fanVars, server>>
  BY <1>8 DEF Restart, fanVars, FanInv, FanoutTypeOK, TableOK, UniqueKeys, EndOf
<1>9. CASE UNCHANGED queryVars
  BY <1>9 DEF queryVars, vars, fanVars, FanInv, FanoutTypeOK, TableOK, UniqueKeys, EndOf
<1>. QED BY <1>1, <1>2, <1>3, <1>4, <1>5, <1>6, <1>7, <1>8, <1>9
         DEF FanoutNext, SendFails, Abandon, DeleteAgain, Stop

LEMMA FanInvHolds == FanoutSpec => []FanInv
BY FanInvInit, FanInvStep, PTL DEF FanoutSpec

(* The iterator never leaves the table, though nodes answer, refuse and    *)
(* break off while the handler waits (protocol_handler.cpp:230, 258).      *)
THEOREM FanoutTypeCorrect == FanoutSpec => []FanoutTypeOK
<1>1. FanInv => FanoutTypeOK
  BY DEF FanInv
<1>. QED BY <1>1, FanInvHolds, PTL

(* A query is a request that only looks, in as many steps as it takes:     *)
(* nothing that a node answers gets into the table                         *)
(* (protocol_handler.cpp:209-287).                                         *)
THEOREM FanoutRegistryImplemented == FanoutSpec => FanoutImplementsRegistry
<1>1. FanoutInit => Abstract!Init
  BY DEF FanoutInit, Init, Abstract!Init, Abstract!NoAnswer, Abstract!Answer, AbstractAnswer,
         NoPacket, Range
<1>2. FanInv /\ [FanoutNext]_queryVars => [Abstract!Next]_(Abstract!vars)
  <2>. SUFFICES ASSUME FanInv, [FanoutNext]_queryVars PROVE [Abstract!Next]_(Abstract!vars)
    OBVIOUS
  <2>1. CASE [Next]_vars
    BY <2>1, RegistryStep DEF FanInv
  <2>2. ASSUME NEW front, NEW text, NEW a \in Addrs, StartQuery(front, text, a)
        PROVE  Abstract!Next
    <3>1. AbstractAnswer' = [op |-> "inspect", from |-> "any", code |-> "any"] /\ UNCHANGED table
      BY <2>2 DEF StartQuery, Receive, AbstractAnswer
    <3>. QED BY <3>1 DEF Abstract!Next, Abstract!Inspect, Abstract!Answer
  <2>3. CASE Finish
    BY <2>3 DEF Finish, FanInv, Abstract!vars, AbstractAnswer
  <2>. QED BY <2>1, <2>2, <2>3
           DEF FanoutNext, Handle, Connect, Answer, Hear, SendFails, Abandon, DeleteAgain, Stop,
               ChangeServer, Next, queryVars
<1>. QED BY <1>1, <1>2, FanInvHolds, PTL DEF FanoutSpec, FanoutImplementsRegistry, Abstract!Spec

--------------------------------------------------------------------------------
(* What InOrder says of the empty sequence, of a sequence whose positions  *)
(* are looked up in a longer one, and of one that gets the next element.   *)
LEMMA InOrderEmpty ==
  ASSUME NEW t
  PROVE  InOrder(<<>>, t, {})
BY EmptySeq DEF InOrder

LEMMA InOrderSame ==
  ASSUME NEW s, NEW t, NEW u, NEW S, InOrder(s, t, S), \A i \in S : u[i] = t[i]
  PROVE  InOrder(s, u, S)
BY DEF InOrder

LEMMA InOrderAppend ==
  ASSUME NEW T, NEW s \in Seq(T), NEW t, NEW S \in SUBSET Nat, NEW n \in Nat,
         InOrder(s, t, S), t[n] \in T,
         \A i \in S : i < n /\ t[i] # t[n]
  PROVE  InOrder(Append(s, t[n]), t, S \cup {n})
<1>. PICK r : r = Append(s, t[n])
  OBVIOUS
<1>1. /\ Len(s) \in Nat /\ DOMAIN s = 1..Len(s) /\ DOMAIN r = 1..Len(s)+1
      /\ \A k \in 1..Len(s) : r[k] = s[k]
      /\ r[Len(s)+1] = t[n]
  BY AppendProperties, LenProperties
<1>2. \A k \in DOMAIN s : r[k] = s[k] /\ s[k] # t[n] /\ \E i \in S : s[k] = t[i]
  BY <1>1 DEF InOrder
<1>3. \A k \in DOMAIN r : \E i \in S \cup {n} : r[k] = t[i]
  BY <1>1, <1>2
<1>4. \A i \in S \cup {n} : \E k \in DOMAIN r : r[k] = t[i]
  <2>1. ASSUME NEW i \in S PROVE \E k \in DOMAIN r : r[k] = t[i]
    <3>1. PICK k \in DOMAIN s : s[k] = t[i]
      BY DEF InOrder
    <3>. QED BY <1>1, <3>1
  <2>. QED BY <1>1, <2>1
<1>5. ASSUME NEW k \in DOMAIN r, NEW l \in DOMAIN r, NEW i \in S \cup {n}, NEW j \in S \cup {n},
             k < l, r[k] = t[i], r[l] = t[j]
      PROVE  i < j
  <2>1. k \in DOMAIN s /\ s[k] = t[i] /\ i \in S
    BY <1>1, <1>2, <1>5
  <2>2. CASE l \in DOMAIN s
    <3>1. s[l] = t[j] /\ j \in S
      BY <1>2, <1>5, <2>2
    <3>. QED BY <1>5, <2>1, <2>2, <3>1 DEF InOrder
  <2>3. CASE l \notin DOMAIN s
    <3>1. t[j] = t[n]
      BY <1>1, <1>5, <2>3
    <3>2. j = n
      BY <3>1
    <3>. QED BY <2>1, <3>2
  <2>. QED BY <2>2, <2>3
<1>. QED BY <1>3, <1>4, <1>5 DEF InOrder

(* The next http node is one, and there is none before it.                 *)
LEMMA NextHttpIsNext ==
  ASSUME TableOK, NEW i \in 1..EndOf(table)
  PROVE  /\ NextHttp(i) \in i..EndOf(table)
         /\ NextHttp(i) # EndOf(table) => table[NextHttp(i)].proto = Http
         /\ \A j \in DOMAIN table : i <= j /\ j < NextHttp(i) => table[j].proto # Http
<1> DEFINE S == {j \in i..Len(table) : table[j].proto = Http}
<1>1. S \in SUBSET Nat /\ EndOf(table) \in Nat /\ EndOf(table) \notin S
  BY EndIsPosition
<1>2. NextHttp(i) = FirstOf(S, EndOf(table))
  BY DEF NextHttp
<1>3. \A j \in S : j \in i..EndOf(table) /\ table[j].proto = Http
  BY EndIsPosition
<1>4. \A j \in DOMAIN table : j \in Nat /\ (i <= j /\ table[j].proto = Http => j \in S)
  BY EndIsPosition
<1> HIDE DEF S
<1>5. /\ S = {} <=> NextHttp(i) = EndOf(table)
      /\ S # {} => NextHttp(i) \in S /\ \A j \in S : NextHttp(i) <= j
  <2>1. /\ S = {} <=> FirstOf(S, EndOf(table)) = EndOf(table)
        /\ S # {} => FirstOf(S, EndOf(table)) \in S /\ \A j \in S : FirstOf(S, EndOf(table)) <= j
    BY <1>1, FirstOfProperties, Zenon
  <2>. QED BY <1>2, <2>1, Zenon
<1>6. CASE S = {}
  BY <1>1, <1>4, <1>5, <1>6
<1>7. CASE S # {}
  <2>1. NextHttp(i) \in S /\ NextHttp(i) \in i..EndOf(table) /\ table[NextHttp(i)].proto = Http
    BY <1>3, <1>5, <1>7
  <2>2. ASSUME NEW j \in DOMAIN table, i <= j, j < NextHttp(i) PROVE table[j].proto # Http
    BY <1>4, <1>5, <1>7, <2>1, <2>2, EndIsPosition
  <2>. QED BY <2>1, <2>2
<1>. QED BY <1>6, <1>7

(* A handler belongs to the front of its route.  In a query of the network *)
(* the iterator stands at an http node or at the end; in a query of one    *)
(* node it stands at that node, whom nobody has asked yet, or at the end.  *)
(* Before a query there is nothing left of the one before it.              *)
AtWhomToAsk ==
  /\ query = "all" => recv.front = Gsn /\ (at # EndOf(table) => table[at].proto = Http)
  /\ query = "one" => /\ recv.front # Gsn
                      /\ at # EndOf(table) => heard = <<>> /\ table[at].suid = recv.front
  /\ query = "none" /\ recv.op # "request" => heard = <<>> /\ parts = <<>>

CollectInv == FanInv /\ AtWhomToAsk /\ AnswersCollected

(* Where no query runs or ran last, nothing is claimed but of an empty     *)
(* reply.                                                                  *)
LEMMA NothingHeard ==
  ASSUME heard = <<>>, parts = <<>>, query = "none", recv.op # "request"
  PROVE  AnswersCollected
<1>1. SuidsOf(heard) = <<>> /\ SaidOk = {}
  BY EmptySeq DEF SuidsOf, SaidOk
<1>2. InOrder(parts, SuidsOf(heard), {})
  BY <1>1, InOrderEmpty
<1>. QED BY <1>1, <1>2 DEF AnswersCollected, Running

(* The answer of a node extends what has been heard.                       *)
LEMMA SuidsOfSeq ==
  ASSUME NEW S, NEW s \in Seq(S), \A r \in S : r.suid \in Names
  PROVE  /\ SuidsOf(s) \in Seq(Names) /\ Len(SuidsOf(s)) = Len(s)
         /\ \A i \in 1..Len(s) : SuidsOf(s)[i] = s[i].suid
<1>1. Len(s) \in Nat /\ DOMAIN s = 1..Len(s)
  BY LenProperties
<1>2. \A i \in 1..Len(s) : s[i].suid \in Names
  BY ElementOfSeq
<1>. QED BY <1>1, <1>2 DEF SuidsOf

LEMMA SuidsOfLonger ==
  ASSUME NEW S, NEW s \in Seq(S), NEW h \in S, \A r \in S : r.suid \in Names
  PROVE  SuidsOf(Append(s, h)) = Append(SuidsOf(s), h.suid)
<1>. PICK longer : longer = Append(s, h)
  OBVIOUS
<1>. PICK suids : suids = SuidsOf(s)
  OBVIOUS
<1>1. /\ longer \in Seq(S) /\ Len(longer) = Len(s) + 1
      /\ \A i \in 1..Len(s) : longer[i] = s[i]
      /\ longer[Len(s)+1] = h
  BY AppendProperties
<1>2. /\ SuidsOf(longer) \in Seq(Names) /\ Len(SuidsOf(longer)) = Len(s) + 1
      /\ \A i \in 1..Len(s)+1 : SuidsOf(longer)[i] = longer[i].suid
  BY <1>1, SuidsOfSeq
<1>3. /\ suids \in Seq(Names) /\ Len(suids) = Len(s)
      /\ \A i \in 1..Len(s) : suids[i] = s[i].suid
  BY SuidsOfSeq
<1>4. /\ Append(suids, h.suid) \in Seq(Names) /\ Len(Append(suids, h.suid)) = Len(s) + 1
      /\ \A i \in 1..Len(s) : Append(suids, h.suid)[i] = suids[i]
      /\ Append(suids, h.suid)[Len(s)+1] = h.suid
  BY <1>3, AppendProperties
<1>5. Len(s) \in Nat
  BY LenProperties
<1>6. \A i \in 1..Len(s)+1 : SuidsOf(longer)[i] = Append(suids, h.suid)[i]
  BY <1>1, <1>2, <1>3, <1>4, <1>5
<1>. QED BY <1>2, <1>4, <1>6, SeqEqual

Heard == [suid : Names, said : {"ok", "error", "garbled"}]

LEMMA TableSuids ==
  ASSUME TableOK
  PROVE  /\ SuidsOf(table) \in Seq(Names)
         /\ \A i \in DOMAIN table : SuidsOf(table)[i] = table[i].suid
<1>1. \A r \in Node : r.suid \in Names
  BY DEF Node
<1>2. SuidsOf(table) \in Seq(Names) /\ \A i \in 1..Len(table) : SuidsOf(table)[i] = table[i].suid
  BY <1>1, SuidsOfSeq DEF TableOK
<1>. QED BY <1>2, EndIsPosition

LEMMA HeardSuids ==
  ASSUME heard \in Seq(Heard), NEW h \in Heard
  PROVE  /\ SuidsOf(heard) \in Seq(Names)
         /\ SuidsOf(Append(heard, h)) = Append(SuidsOf(heard), h.suid)
<1>1. \A r \in Heard : r.suid \in Names
  BY DEF Heard
<1>. QED BY <1>1, SuidsOfSeq, SuidsOfLonger

(* In a query of the network the node that is heard out is the next http   *)
(* node of the table; the one after it is where the handler goes on.       *)
LEMMA HearFromAll ==
  ASSUME CollectInv, NEW said, NEW more, Hear(said, more), query = "all",
         said \in {"ok", "error", "garbled"}
  PROVE  /\ at' <= EndOf(table)
         /\ at' # EndOf(table) => table[at'].proto = Http
         /\ InOrder(SuidsOf(heard'), SuidsOf(table), Passed')
         /\ \A i \in DOMAIN heard : heard[i].suid # table[at].suid
<1> DEFINE all == SuidsOf(table)
           next == NextHttp(at + 1)
<1>1. TableOK /\ UniqueKeys /\ FanoutTypeOK /\ table' = table
  BY DEF CollectInv, FanInv, Hear, vars
<1>2. at \in DOMAIN table /\ at \in Nat \ {0} /\ at + 1 \in 1..EndOf(table)
  BY <1>1, EndIsPosition DEF CollectInv, FanInv, FanoutTypeOK, Hear
<1>3. table[at].proto = Http
  BY <1>1 DEF CollectInv, FanInv, AtWhomToAsk, Hear
<1>4. \A i \in DOMAIN table : all[i] = table[i].suid
  BY <1>1, TableSuids
<1>5. at' = next
  BY DEF Hear, After
<1>6. /\ next \in (at + 1)..EndOf(table)
      /\ next # EndOf(table) => table[next].proto = Http
      /\ \A j \in DOMAIN table : at + 1 <= j /\ j < next => table[j].proto # Http
  BY <1>1, <1>2, NextHttpIsNext
<1>. HIDE DEF next, all
<1>7. \A j \in DOMAIN table : j < next /\ table[j].proto = Http <=> (j < at /\ table[j].proto = Http) \/ j = at
  BY <1>1, <1>2, <1>3, <1>6, EndIsPosition
<1>8. Passed' = Passed \cup {at}
  BY <1>1, <1>2, <1>5, <1>7 DEF Passed
<1>9. InOrder(SuidsOf(heard), all, Passed)
  BY DEF CollectInv, AnswersCollected, Running, all
<1>10. all[at] = table[at].suid /\ all[at] \in Names
  BY <1>1, <1>2, <1>4, SuidIsName
<1>11. \A i \in Passed : i \in DOMAIN table /\ i < at /\ i # at /\ all[i] # all[at]
  <2>1. \A i \in Passed : i \in DOMAIN table /\ i < at /\ i # at
    BY <1>2, EndIsPosition, <1>1 DEF Passed
  <2>. QED BY <1>1, <1>2, <1>4, <2>1 DEF UniqueKeys, DistinctKeys
<1>12. PICK h : h = [suid |-> table[at].suid, said |-> said]
  OBVIOUS
<1>13. SuidsOf(heard) \in Seq(Names) /\ SuidsOf(heard') = Append(SuidsOf(heard), all[at])
  <2>1. h \in Heard /\ heard \in Seq(Heard) /\ h.suid = all[at]
    BY <1>1, <1>10, <1>12 DEF FanoutTypeOK, Heard
  <2>2. heard' = Append(heard, h)
    BY <1>12 DEF Hear
  <2>. QED BY <2>1, <2>2, HeardSuids
<1>14. InOrder(SuidsOf(heard'), all, Passed')
  <2>1. Passed \in SUBSET Nat
    BY <1>1, EndIsPosition DEF Passed
  <2>2. InOrder(Append(SuidsOf(heard), all[at]), all, Passed \cup {at})
    BY <1>2, <1>9, <1>10, <1>11, <1>13, <2>1, InOrderAppend
  <2>. QED BY <1>8, <1>13, <2>2
<1>15. ASSUME NEW i \in DOMAIN heard PROVE heard[i].suid # table[at].suid
  <2>1. i \in DOMAIN SuidsOf(heard) /\ SuidsOf(heard)[i] = heard[i].suid
    BY DEF SuidsOf
  <2>2. \E j \in Passed : SuidsOf(heard)[i] = all[j]
    BY <1>9, <2>1 DEF InOrder
  <2>. QED BY <1>10, <1>11, <2>1, <2>2
<1>. QED BY <1>5, <1>6, <1>14, <1>15, <1>1, EndIsPosition DEF all

(* The reply gets the answer of the node that is heard out if it is ok,    *)
(* and nothing of it if it is an error.                                    *)
LEMMA HearCollects ==
  ASSUME FanInv, NEW said, NEW more, Hear(said, more),
         said \in {"ok", "error", "garbled"},
         said = "ok" => more = <<table[at].suid>>,
         said = "error" => more = <<>>,
         \A i \in DOMAIN heard : heard[i].suid # table[at].suid,
         \A i \in DOMAIN heard' : heard'[i].said # "garbled",
         (\A i \in DOMAIN heard : heard[i].said # "garbled") =>
            InOrder(parts, SuidsOf(heard), SaidOk)
  PROVE  InOrder(parts', SuidsOf(heard'), SaidOk')
<1>. PICK n : n = Len(heard) + 1
  OBVIOUS
<1>. PICK told : told = SuidsOf(heard')
  OBVIOUS
<1> DEFINE h == [suid |-> table[at].suid, said |-> said]
<1>1. TableOK /\ FanoutTypeOK /\ at \in DOMAIN table
  BY EndIsPosition DEF FanInv, FanoutTypeOK, Hear
<1>2. table[at].suid \in Names
  BY <1>1, SuidIsName
<1>3. h \in Heard /\ heard \in Seq(Heard)
  BY <1>1, <1>2 DEF FanoutTypeOK, Heard
<1>4. Len(heard) \in Nat /\ DOMAIN heard = 1..Len(heard) /\ n \in Nat
  BY <1>3, LenProperties
<1>5. /\ heard' \in Seq(Heard) /\ Len(heard') = n
      /\ \A i \in 1..Len(heard) : heard'[i] = heard[i]
      /\ heard'[n] = h
  BY <1>3, AppendProperties DEF Hear
<1>6. DOMAIN heard' = 1..n
  BY <1>5, LenProperties
<1>7. /\ \A i \in DOMAIN heard : SuidsOf(heard)[i] = heard[i].suid /\ told[i] = heard[i].suid
      /\ told[n] = table[at].suid
  BY <1>4, <1>5, <1>6 DEF SuidsOf
<1>8. InOrder(parts, told, SaidOk)
  <2>1. \A i \in DOMAIN heard : heard[i].said # "garbled"
    BY <1>4, <1>5, <1>6
  <2>2. InOrder(parts, SuidsOf(heard), SaidOk)
    BY <2>1
  <2>3. \A i \in SaidOk : told[i] = SuidsOf(heard)[i]
    BY <1>7 DEF SaidOk
  <2>. QED BY <2>2, <2>3, InOrderSame
<1>9. SaidOk' = IF said = "ok" THEN SaidOk \cup {n} ELSE SaidOk
  <2>1. SaidOk' = {i \in 1..n : heard'[i].said = "ok"}
    BY <1>6 DEF SaidOk
  <2>2. SaidOk = {i \in 1..Len(heard) : heard[i].said = "ok"}
    BY <1>4 DEF SaidOk
  <2>3. \A i \in 1..n : i \in 1..Len(heard) \/ i = n
    BY <1>4
  <2>. QED BY <1>4, <1>5, <2>1, <2>2, <2>3
<1>10. parts \in Seq(Names \cup {Junk})
  BY <1>1 DEF FanoutTypeOK
<1>11. CASE said = "ok"
  <2>1. parts' = Append(parts, told[n])
    <3>1. told[n] \in Names \cup {Junk} /\ parts' = parts \o <<told[n]>>
      BY <1>2, <1>7, <1>11 DEF Hear
    <3>. QED BY <1>10, <3>1, AppendIsConcat
  <2>2. SaidOk \in SUBSET Nat /\ \A i \in SaidOk : i < n /\ told[i] # told[n]
    BY <1>4, <1>7 DEF SaidOk
  <2>3. told[n] \in Names \cup {Junk}
    BY <1>2, <1>7
  <2>. QED BY <1>4, <1>8, <1>9, <1>10, <1>11, <2>1, <2>2, <2>3, InOrderAppend
<1>12. CASE said = "error"
  <2>1. parts' = parts
    BY <1>10, <1>12, ConcatEmptySeq DEF Hear
  <2>. QED BY <1>8, <1>9, <1>12, <2>1
<1>13. said # "garbled"
  BY <1>4, <1>5, <1>6
<1>. QED BY <1>11, <1>12, <1>13

(* A query begins with nothing heard, at the first node it is to ask.      *)
LEMMA StartCollects ==
  ASSUME CollectInv, NEW front, NEW text, NEW a \in Addrs, StartQuery(front, text, a)
  PROVE  AtWhomToAsk' /\ AnswersCollected'
<1>1. TableOK /\ table' = table /\ EndOf(table') = EndOf(table)
  BY DEF StartQuery, CollectInv, FanInv
<1>2. recv'.op = "request" /\ recv'.front = front /\ heard' = <<>> /\ parts' = <<>>
  BY DEF StartQuery, Receive
<1>3. CASE front = Gsn /\ query' = "all" /\ at' = NextHttp(1)
  <2>1. /\ NextHttp(1) \in 1..EndOf(table)
        /\ NextHttp(1) # EndOf(table) => table[NextHttp(1)].proto = Http
        /\ \A j \in DOMAIN table : 1 <= j /\ j < NextHttp(1) => table[j].proto # Http
    BY <1>1, EndIsPosition, NextHttpIsNext
  <2>2. Passed' = {i \in DOMAIN table : i < NextHttp(1) /\ table[i].proto = Http}
    BY <1>1, <1>3 DEF Passed
  <2>3. Passed' = {}
    BY <1>1, <2>1, <2>2, EndIsPosition
  <2>4. at' <= EndOf(table')
    BY <1>1, <1>3, <2>1, EndIsPosition
  <2>5. AtWhomToAsk'
    BY <1>1, <1>2, <1>3, <2>1 DEF AtWhomToAsk
  <2>6. AnswersCollected'
    <3>1. SuidsOf(heard') = <<>> /\ SaidOk' = {}
      BY <1>2, EmptySeq DEF SuidsOf, SaidOk
    <3>2. InOrder(SuidsOf(heard'), SuidsOf(table'), {}) /\ InOrder(parts', SuidsOf(heard'), {})
      BY <1>2, <3>1, InOrderEmpty
    <3>. QED BY <1>2, <1>3, <2>3, <2>4, <3>1, <3>2 DEF AnswersCollected, Running
  <2>. QED BY <2>5, <2>6
<1>4. CASE front # Gsn /\ query' = "one" /\ at' = FindSuid(table, front)
  <2>1. FindSuid(table, front) # EndOf(table) => table[FindSuid(table, front)].suid = front
    BY <1>1, FindSuidInTable
  <2>2. AtWhomToAsk'
    BY <1>1, <1>2, <1>4, <2>1 DEF AtWhomToAsk
  <2>3. AnswersCollected'
    <3>1. SuidsOf(heard') = <<>> /\ SaidOk' = {}
      BY <1>2, EmptySeq DEF SuidsOf, SaidOk
    <3>2. InOrder(parts', SuidsOf(heard'), {})
      BY <1>2, InOrderEmpty
    <3>. QED BY <1>2, <1>4, <3>1, <3>2 DEF AnswersCollected, Running
  <2>. QED BY <2>2, <2>3
<1>. QED BY <1>3, <1>4 DEF StartQuery

LEMMA HearStepCollects ==
  ASSUME CollectInv, NEW said \in {"ok", "error", "garbled"}, NEW more, Hear(said, more),
         said = "ok" => more = <<table[at].suid>>,
         said = "error" => more = <<>>
  PROVE  AtWhomToAsk' /\ AnswersCollected'
<1>1. /\ FanInv /\ table' = table /\ recv' = recv /\ query' = query
      /\ recv.op = "request" /\ query \in {"all", "one"}
  BY DEF CollectInv, FanInv, FanoutTypeOK, Hear, vars
<1>2. (\A i \in DOMAIN heard : heard[i].said # "garbled") => InOrder(parts, SuidsOf(heard), SaidOk)
  BY DEF CollectInv, AnswersCollected
<1>3. CASE query = "all"
  <2>1. /\ at' <= EndOf(table)
        /\ at' # EndOf(table) => table[at'].proto = Http
        /\ InOrder(SuidsOf(heard'), SuidsOf(table), Passed')
        /\ \A i \in DOMAIN heard : heard[i].suid # table[at].suid
    BY <1>3, HearFromAll
  <2>2. AtWhomToAsk'
    BY <1>1, <1>3, <2>1 DEF AtWhomToAsk, CollectInv
  <2>3. (\A i \in DOMAIN heard' : heard'[i].said # "garbled") =>
            InOrder(parts', SuidsOf(heard'), SaidOk')
    BY <1>1, <1>2, <2>1, HearCollects
  <2>. QED BY <1>1, <1>3, <2>1, <2>2, <2>3 DEF AnswersCollected, Running
<1>4. CASE query = "one"
  <2>1. at' = EndOf(table') /\ heard = <<>> /\ table[at].suid = recv.front /\ recv.front # Gsn
    BY <1>1, <1>4 DEF Hear, After, CollectInv, FanInv, AtWhomToAsk
  <2>2. AtWhomToAsk'
    BY <1>1, <1>4, <2>1 DEF AtWhomToAsk
  <2>3. SuidsOf(heard') = <<recv.front>>
    BY <2>1 DEF Hear, SuidsOf
  <2>4. \A i \in DOMAIN heard : heard[i].suid # table[at].suid
    BY <2>1, EmptySeq
  <2>5. (\A i \in DOMAIN heard' : heard'[i].said # "garbled") =>
            InOrder(parts', SuidsOf(heard'), SaidOk')
    BY <1>1, <1>2, <2>4, HearCollects
  <2>. QED BY <1>1, <1>4, <2>2, <2>3, <2>5 DEF AnswersCollected, Running
<1>. QED BY <1>1, <1>3, <1>4

LEMMA CollectInit == FanoutInit => CollectInv
<1>. SUFFICES ASSUME FanoutInit PROVE AtWhomToAsk /\ AnswersCollected
  BY FanInvInit DEF CollectInv
<1>1. /\ query = "none" /\ heard = <<>> /\ parts = <<>>
      /\ recv.op = "none"
  BY DEF FanoutInit, Idle, Init, NoPacket
<1>. QED BY <1>1, NothingHeard DEF AtWhomToAsk

LEMMA CollectStep == CollectInv /\ [FanoutNext]_queryVars => CollectInv'
<1>. SUFFICES ASSUME CollectInv, [FanoutNext]_queryVars PROVE AtWhomToAsk' /\ AnswersCollected'
  BY FanInvStep DEF CollectInv
<1>1. ASSUME query' = "none", heard' = <<>>, parts' = <<>>, recv'.op # "request"
      PROVE  AtWhomToAsk' /\ AnswersCollected'
  <2>1. AtWhomToAsk'
    BY <1>1 DEF AtWhomToAsk
  <2>2. AnswersCollected'
    <3>1. SuidsOf(heard') = <<>> /\ SaidOk' = {}
      BY <1>1, EmptySeq DEF SuidsOf, SaidOk
    <3>2. InOrder(parts', SuidsOf(heard'), {})
      BY <1>1, <3>1, InOrderEmpty
    <3>. QED BY <1>1, <3>1, <3>2 DEF AnswersCollected, Running
  <2>. QED BY <2>1, <2>2
<1>2. ASSUME UNCHANGED <<table, recv, query, at, heard, parts>>
      PROVE  AtWhomToAsk' /\ AnswersCollected'
  <2>1. AtWhomToAsk'
    BY <1>2 DEF CollectInv, AtWhomToAsk, EndOf
  <2>2. Passed' = Passed /\ SaidOk' = SaidOk
    BY <1>2 DEF Passed, SaidOk
  <2>3. EndOf(table') = EndOf(table) /\ (\A kind : Running(kind)' <=> Running(kind))
    BY <1>2 DEF Running
  <2>. QED BY <1>2, <2>1, <2>2, <2>3 DEF CollectInv, AnswersCollected
<1>3. ASSUME NEW p \in Packet, NEW a \in Addrs, Handle(p, a)
      PROVE  AtWhomToAsk' /\ AnswersCollected'
  <2>1. recv' = p /\ query' = "none" /\ heard' = <<>> /\ parts' = <<>>
    BY <1>3 DEF Handle, Idle, ProcessPacket, RegisterHost, UnregisterHost, ResolveGsn, LocalGsn,
                RootNodes, Hostname, UnknownType, Receive
  <2>2. p.op # "request"
    BY DEF Packet, RegisterPacket, ResolvePacket, HostnamePacket, PlainPacket
  <2>. QED BY <1>1, <2>1, <2>2
<1>4. ASSUME NEW front, NEW text, NEW a \in Addrs, StartQuery(front, text, a)
      PROVE  AtWhomToAsk' /\ AnswersCollected'
  BY <1>4, StartCollects
<1>5. CASE Answer
  BY <1>5, HearStepCollects DEF Answer
<1>6. CASE Crash /\ Forgotten
  BY <1>1, <1>6 DEF Crash, Forgotten, NoPacket
<1>7. CASE Finish
  <2>1. /\ query' = "none" /\ query \in {"all", "one"} /\ recv.op = "request"
        /\ UNCHANGED <<table, recv, at, heard, parts>>
    BY <1>7 DEF Finish, CollectInv, FanInv, FanoutTypeOK
  <2>2. query = IF recv.front = Gsn THEN "all" ELSE "one"
    BY <2>1 DEF CollectInv, AtWhomToAsk
  <2>3. AtWhomToAsk'
    BY <2>1 DEF AtWhomToAsk
  <2>4. Passed' = Passed /\ SaidOk' = SaidOk /\ EndOf(table') = EndOf(table)
    BY <2>1 DEF Passed, SaidOk
  <2>5. \A kind \in {"all", "one"} : Running(kind)' => Running(kind)
    <3>. SUFFICES ASSUME NEW kind \in {"all", "one"}, Running(kind)' PROVE query = kind
      BY DEF Running
    <3>1. kind = IF recv.front = Gsn THEN "all" ELSE "one"
      BY <2>1 DEF Running
    <3>. QED BY <2>2, <3>1
  <2>. QED BY <2>1, <2>3, <2>4, <2>5 DEF CollectInv, AnswersCollected
<1>. QED BY <1>2, <1>3, <1>4, <1>5, <1>6, <1>7
         DEF FanoutNext, Connect, SendFails, Abandon, DeleteAgain, Stop, ChangeServer, Restart,
             queryVars, vars, fanVars

(* A query of the network asks every registered http node, once and in the *)
(* order of the table, and nobody else, and its reply is made of just the  *)
(* answers that were ok, in that order; a query of one node asks just that *)
(* one (protocol_handler.cpp:209-287).                                     *)
THEOREM QueriesCollect == FanoutSpec => []AnswersCollected
<1>1. CollectInv => AnswersCollected
  BY DEF CollectInv
<1>. QED BY <1>1, CollectInit, CollectStep, PTL DEF FanoutSpec

--------------------------------------------------------------------------------
(* Clients                                                                 *)

(* Every machine has an address of its own: two that share one share their *)
(* registrations too, and one unregisters what the other has registered.   *)
OwnAddresses == \A c, d \in Clients : AddrOf[c] = AddrOf[d] => c = d

--------------------------------------------------------------------------------
(* The inductive invariant *)
Seen == [op : Operations \cup {"none"}, code : {"none", "ok", "netspace_error", "undefined"},
         host : Names \cup {NoHost}, epoch : Nat]

ClientTypes ==
  /\ armed \in BOOLEAN
  /\ requests \subseteq Request
  /\ port \in [Clients -> Ports]
  /\ waiting \in [Clients -> BOOLEAN]
  /\ pos \in [Clients -> Nat \ {0}]
  /\ \A c \in Clients : /\ pos[c] <= Len(Script[c]) + 1
                        /\ waiting[c] => pos[c] <= Len(Script[c])

(* Every start of the process was preceded by an end of it, which is a fault *)
EpochInv ==
  /\ epoch \in Nat /\ faults \in 0..MaxFaults
  /\ epoch <= faults /\ (~up => epoch < faults)

ReplyTypes ==
  /\ replies \subseteq Answered
  /\ \A r \in replies : r.epoch <= epoch

ViewTypes ==
  /\ view \in [Clients -> Seen]
  /\ \A c \in Clients : view[c].epoch <= epoch /\ (view[c] # NothingSeen => ~waiting[c])

(* A client that has not lost track of a datagram has one on its way at    *)
(* most, and waits for the answer on the port it came from.                *)
Orderly(c) ==
  /\ \A m \in requests \cup replies : m.client = c => waiting[c] /\ m.port = port[c]
  /\ \A m, n \in requests : m.client = c /\ n.client = c => m = n
  /\ \A m, n \in replies : m.client = c /\ n.client = c => m = n
  /\ \A m \in requests, n \in replies : ~(m.client = c /\ n.client = c)

NetInv == \A c \in Clients : c \notin unruly => Orderly(c)

(* Only the clients register *)
NodeOfClient(n, c) == n.addr = AddrOf[c] /\ n.host = HostOf(TextOf[c]) /\ n.suid = SuidOf(TextOf[c])
TableFromClients == \A n \in Range(table) : \E c \in Clients : NodeOfClient(n, c)

(* What an answer says of the table *)
Absent(c) == \A n \in Range(table) : n.addr # AddrOf[c]
OldestNamed(c, host) ==
  \E n \in Range(table) : n.addr = AddrOf[c] /\ n.host = host /\ Oldest(table, n)

Holds(c, answer) ==
  /\ answer.op = "register" /\ (answer.code = "ok" \/ Exclusive(c)) => Registered(c)
  /\ answer.op = "unregister" => Absent(c)
  /\ answer.op = "hostname" => IF answer.code = "ok" THEN OldestNamed(c, answer.host) ELSE Absent(c)

(* What is on its way to an orderly client, and what it has seen, is true *)
TruthInv ==
  up => /\ \A r \in replies : r.client \notin unruly /\ r.epoch = epoch => Holds(r.client, r)
        /\ \A c \in Clients :
             c \notin unruly /\ view[c] # NothingSeen /\ view[c].epoch = epoch => Holds(c, view[c])

--------------------------------------------------------------------------------
(* A step of the service is one of the root node, or leaves it alone.      *)
LEMMA PacketType ==
  ASSUME NEW m \in Request
  PROVE  /\ PacketOf(m) \in Packet /\ AddrOf[m.client] \in Addrs
         /\ m.op = "register" => PacketOf(m) = [op |-> "register", type |-> Org, text |-> TextOf[m.client],
                                                proto |-> CHOOSE p \in Protocols : TRUE]
         /\ m.op = "unregister" => PacketOf(m) = [op |-> "unregister"]
         /\ m.op = "hostname" => PacketOf(m) = [op |-> "hostname", addr |-> AddrOf[m.client]]
<1>1. m.client \in Clients /\ m.op \in {"register", "unregister", "hostname"}
  BY DEF Request, Operations
<1>2. AddrOf[m.client] \in Addrs /\ TextOf[m.client] \in Texts
  BY <1>1, ClientsAssumption
<1>3. (CHOOSE p \in Protocols : TRUE) \in Protocols
  BY RegistrationAssumption
<1>4. CASE m.op = "register"
  <2>1. PacketOf(m) = [op |-> "register", type |-> Org, text |-> TextOf[m.client],
                       proto |-> CHOOSE p \in Protocols : TRUE]
    BY <1>4 DEF PacketOf
  <2>2. PacketOf(m) \in RegisterPacket
    BY <1>2, <1>3, <2>1, RegistrationAssumption DEF RegisterPacket
  <2>. QED BY <1>2, <1>4, <2>1, <2>2 DEF Packet
<1>5. CASE m.op = "unregister"
  BY <1>2, <1>5 DEF PacketOf, Packet, PlainPacket
<1>6. CASE m.op = "hostname"
  BY <1>2, <1>6 DEF PacketOf, Packet, HostnamePacket
<1>. QED BY <1>1, <1>4, <1>5, <1>6

LEMMA RootStep ==
  ASSUME ClientTypes, [GsnNext]_gsnVars
  PROVE  [Next]_vars
<1>1. ASSUME NEW m \in requests, Serve(m)
      PROVE  Next
  BY <1>1, PacketType DEF ClientTypes, Serve, Next
<1>. QED
  BY <1>1 DEF GsnNext, gsnVars, StartForge, Interrupt, Deliver, Lose, ReceiveError, EndProcess,
     StartProcess, Next

(* forge sends from a port of its own. *)
LEMMA StartForgePort ==
  ASSUME ClientTypes, NEW c \in Clients, StartForge(c)
  PROVE  /\ port' = [port EXCEPT ![c] = port'[c]] /\ port'[c] \in Ports
         /\ \A m \in requests \cup replies : m.client = c => m.port # port'[c]
<1>1. (CHOOSE p \in FreePorts(c) : TRUE) \in FreePorts(c)
  BY DEF StartForge
<1>2. port' = [port EXCEPT ![c] = CHOOSE p \in FreePorts(c) : TRUE]
  BY DEF StartForge
<1>3. port'[c] = (CHOOSE p \in FreePorts(c) : TRUE)
  BY <1>2 DEF ClientTypes
<1>4. port'[c] \in FreePorts(c)
  BY <1>1, <1>3
<1>. QED BY <1>2, <1>3, <1>4 DEF FreePorts

LEMMA ScriptLength == \A c \in Clients : Len(Script[c]) \in Nat
<1>1. \A c \in Clients : Script[c] \in Seq({"register", "unregister", "hostname"})
  BY ClientsAssumption
<1>. QED BY <1>1, LenProperties

LEMMA ClientTypesInit == GsnInit => ClientTypes
<1>1. (CHOOSE p \in Ports : TRUE) \in Ports
  BY PortsAssumption
<1>2. \A c \in Clients : 1 <= Len(Script[c]) + 1
  BY ScriptLength
<1>. QED BY <1>1, <1>2 DEF GsnInit, ClientTypes

LEMMA ClientTypesStep ==
  ASSUME ClientTypes, [GsnNext]_gsnVars
  PROVE  ClientTypes'
<1>1. ASSUME NEW c \in Clients, StartForge(c)
      PROVE  ClientTypes'
  <2>1. port' \in [Clients -> Ports] /\ port'[c] \in Ports
    BY <1>1, StartForgePort DEF ClientTypes
  <2>2. Script[c][pos[c]] \in Operations
    <3>1. Script[c] \in Seq(Operations)
      BY ClientsAssumption DEF Operations
    <3>2. Len(Script[c]) \in Nat /\ pos[c] \in Nat \ {0} /\ pos[c] <= Len(Script[c])
      BY <1>1, <3>1 DEF StartForge, ClientTypes
    <3>. QED BY <3>1, <3>2, ElementOfSeq
  <2>3. requests' \subseteq Request
    <3>1. [client |-> c, port |-> port'[c], op |-> Script[c][pos[c]]] \in Request
      BY <2>1, <2>2 DEF Request
    <3>. QED BY <1>1, <3>1 DEF StartForge, ClientTypes
  <2>4. /\ waiting' = [waiting EXCEPT ![c] = TRUE] /\ pos' = pos /\ armed' = armed
        /\ pos[c] <= Len(Script[c])
    BY <1>1 DEF StartForge
  <2>. QED BY <2>1, <2>3, <2>4 DEF ClientTypes
<1>2. ASSUME NEW c \in Clients, Interrupt(c)
      PROVE  ClientTypes'
  BY <1>2 DEF Interrupt, ClientTypes, netVars
<1>3. ASSUME NEW m \in requests, Serve(m)
      PROVE  ClientTypes'
  BY <1>3 DEF Serve, ClientTypes, clientVars, AfterReceive, StartRecv
<1>4. ASSUME NEW r \in replies, Deliver(r)
      PROVE  ClientTypes'
  <2>1. CASE ~(waiting[r.client] /\ port[r.client] = r.port)
    BY <1>4, <2>1 DEF Deliver, ClientTypes
  <2>2. CASE waiting[r.client] /\ port[r.client] = r.port
    <3>1. /\ waiting' = [waiting EXCEPT ![r.client] = FALSE]
          /\ pos' = [pos EXCEPT ![r.client] = @ + 1]
          /\ UNCHANGED <<armed, requests, port>>
      BY <1>4, <2>2 DEF Deliver
    <3>2. pos' \in [Clients -> Nat \ {0}] /\ waiting' \in [Clients -> BOOLEAN]
      <4>1. r.client \in Clients => pos[r.client] + 1 \in Nat \ {0}
        BY DEF ClientTypes
      <4>. QED BY <3>1, <4>1 DEF ClientTypes
    <3>3. \A c \in Clients : waiting'[c] => waiting[c] /\ pos'[c] = pos[c]
      BY <3>1 DEF ClientTypes
    <3>4. \A c \in Clients : pos'[c] = IF c = r.client THEN pos[c] + 1 ELSE pos[c]
      BY <3>1 DEF ClientTypes
    <3>5. \A c \in Clients : pos'[c] <= Len(Script[c]) + 1
      BY <2>2, <3>4, ScriptLength DEF ClientTypes
    <3>. QED BY <3>1, <3>2, <3>3, <3>5 DEF ClientTypes
  <2>. QED BY <2>1, <2>2
<1>5. ASSUME NEW m \in requests \cup replies, Lose(m)
      PROVE  ClientTypes'
  BY <1>5 DEF Lose, ClientTypes, clientVars
<1>6. CASE ReceiveError \/ EndProcess \/ StartProcess
  BY <1>6 DEF ReceiveError, EndProcess, StartProcess, ClientTypes, clientVars, netVars, AfterReceive, StartRecv
<1>7. CASE UNCHANGED gsnVars
  BY <1>7 DEF gsnVars, ClientTypes, clientVars, netVars
<1>. QED BY <1>1, <1>2, <1>3, <1>4, <1>5, <1>6, <1>7 DEF GsnNext

LEMMA ClientTypesAlways == GsnSpec => []ClientTypes
BY ClientTypesInit, ClientTypesStep, PTL DEF GsnSpec

(* The resolution service with its clients, lost and doubled datagrams,    *)
(* interrupts and restarts implements the root node, whose requests are    *)
(* atomic: RootNode's theorems hold of it (resolution_service.cpp:33-46    *)
(* calls process_packet and leaves the table alone).                       *)
THEOREM ServiceIsRootNode == GsnSpec => Spec
<1>1. GsnInit => Init
  BY DEF GsnInit
<1>2. ClientTypes /\ [GsnNext]_gsnVars => [Next]_vars
  BY RootStep
<1>. QED BY <1>1, <1>2, ClientTypesAlways, PTL DEF GsnSpec, Spec

LEMMA RootNodeAlways == GsnSpec => [](ClientTypes /\ TypeOK /\ UniqueKeys)
BY ClientTypesAlways, ServiceIsRootNode, TypeCorrect, KeysUnique, PTL

--------------------------------------------------------------------------------
(* What the root node answers to each of the three requests of forge.      *)
LEMMA ServeCases ==
  ASSUME NEW m \in Request, ProcessPacket(PacketOf(m), AddrOf[m.client])
  PROVE  \/ m.op = "register" /\ RegisterHost(PacketOf(m), AddrOf[m.client])
         \/ m.op = "unregister" /\ UnregisterHost(PacketOf(m), AddrOf[m.client])
         \/ m.op = "hostname" /\ Hostname(PacketOf(m), AddrOf[m.client])
<1>1. m.op \in {"register", "unregister", "hostname"} /\ PacketOf(m).op = m.op
  BY PacketType DEF Request, Operations
<1>. QED BY <1>1 DEF ProcessPacket, RegisterHost, UnregisterHost, ResolveGsn, LocalGsn, RootNodes,
                     Hostname, UnknownType

LEMMA RegisterAnswered ==
  ASSUME NEW m \in Request, m.op = "register", RegisterHost(PacketOf(m), AddrOf[m.client]),
         NEW c \in Clients, c = m.client
  PROVE  \E n \in Node :
           /\ NodeOfClient(n, c)
           /\ \/ Taken(n.host, n.suid) /\ reply'.code = "netspace_duplicate" /\ UNCHANGED table
              \/ ~Taken(n.host, n.suid) /\ reply'.code = "ok" /\ table' = AddNode(table, n)
<1>1. PICK p : p = PacketOf(m)
  OBVIOUS
<1>2. /\ p = [op |-> "register", type |-> Org, text |-> TextOf[c],
              proto |-> CHOOSE q \in Protocols : TRUE]
      /\ AddrOf[c] \in Addrs
  BY <1>1, PacketType
<1>3. TextOf[c] \in Texts /\ (CHOOSE q \in Protocols : TRUE) \in Protocols
  BY ClientsAssumption, RegistrationAssumption
<1>4. PICK n : n = [type |-> p.type, host |-> HostOf(p.text), suid |-> SuidOf(p.text),
                    addr |-> AddrOf[c], proto |-> p.proto]
  OBVIOUS
<1>5. n \in Node /\ NodeOfClient(n, c) /\ n.host = HostOf(p.text) /\ n.suid = SuidOf(p.text)
  BY <1>2, <1>3, <1>4, TextNames, RegistrationAssumption DEF Node, NodeOfClient
<1>6. ~(p.type >= FinalType)
  BY <1>2 DEF Org, FinalType
<1>7. \/ Taken(n.host, n.suid) /\ reply'.code = "netspace_duplicate" /\ UNCHANGED table
      \/ ~Taken(n.host, n.suid) /\ reply'.code = "ok" /\ table' = AddNode(table, n)
  BY <1>1, <1>4, <1>5, <1>6 DEF RegisterHost, Response, Reply
<1>. QED BY <1>5, <1>7

LEMMA HostnameAnswered ==
  ASSUME TableOK, NEW m \in Request, m.op = "hostname", Hostname(PacketOf(m), AddrOf[m.client])
  PROVE  LET it == FindAddr(table, AddrOf[m.client])
         IN  /\ UNCHANGED table
             /\ it = EndOf(table) => reply'.code = "netspace_error" /\ HostIn(m, reply') = NoHost
             /\ it # EndOf(table) => /\ it \in DOMAIN table
                                     /\ reply'.code = "ok" /\ HostIn(m, reply') = table[it].host
<1>1. PacketOf(m).addr = AddrOf[m.client]
  BY PacketType
<1>2. PICK it : it = FindAddr(table, AddrOf[m.client])
  OBVIOUS
<1>3. /\ UNCHANGED table
      /\ reply' = IF it = EndOf(table) THEN Response("netspace_error") ELSE Describe(table[it])
  BY <1>1, <1>2 DEF Hostname
<1>4. CASE it = EndOf(table)
  BY <1>2, <1>3, <1>4 DEF Response, Reply, HostIn
<1>5. CASE it # EndOf(table)
  <2>1. reply'.code = "ok" /\ reply'.nodes = {table[it]}
    BY <1>3, <1>5 DEF Describe, Reply
  <2>2. (CHOOSE n \in reply'.nodes : TRUE) = table[it]
    BY <2>1
  <2>3. it \in DOMAIN table
    BY <1>2, <1>5, FindProperties DEF TableOK
  <2>. QED BY <1>2, <1>3, <1>5, <2>1, <2>2, <2>3 DEF HostIn
<1>. QED BY <1>4, <1>5

(* The answer to a request that was served now *)
AnswerTo(m) == [client |-> m.client, port |-> m.port, op |-> m.op,
                code |-> reply'.code, host |-> HostIn(m, reply'), epoch |-> epoch]

LEMMA AnswerType ==
  ASSUME TableOK, epoch \in 0..MaxFaults,
         NEW m \in Request, ProcessPacket(PacketOf(m), AddrOf[m.client])
  PROVE  AnswerTo(m) \in Answered
<1>1. reply'.code \in {"ok", "netspace_error", "netspace_duplicate"} /\ HostIn(m, reply') \in Names \cup {NoHost}
  <2>1. CASE m.op = "register" /\ RegisterHost(PacketOf(m), AddrOf[m.client])
    <3>1. HostIn(m, reply') = NoHost
      BY <2>1 DEF HostIn
    <3>. QED BY <2>1, <3>1, RegisterAnswered DEF Request
  <2>2. CASE m.op = "unregister" /\ UnregisterHost(PacketOf(m), AddrOf[m.client])
    BY <2>2 DEF UnregisterHost, Response, Reply, HostIn
  <2>3. CASE m.op = "hostname" /\ Hostname(PacketOf(m), AddrOf[m.client])
    <3>1. \A i \in DOMAIN table : table[i].host \in Names
      <4>1. \A i \in DOMAIN table : table[i] \in Node
        BY ElementOfSeq, LenProperties DEF TableOK
      <4>. QED BY <4>1 DEF Node
    <3>. QED BY <2>3, <3>1, HostnameAnswered
  <2>. QED BY <2>1, <2>2, <2>3, ServeCases
<1>. QED BY <1>1 DEF AnswerTo, Answered, Request

(* Serving answers the request with what the root node replied.            *)
LEMMA ServeStep ==
  ASSUME ClientTypes, NEW m \in requests, Serve(m)
  PROVE  /\ m \in Request /\ m.client \in Clients /\ up /\ up'
         /\ ProcessPacket(PacketOf(m), AddrOf[m.client])
         /\ replies' = replies \cup {AnswerTo(m)}
         /\ \/ requests' = requests \ {m} /\ UNCHANGED <<unruly, faults>>
            \/ requests' = requests /\ unruly' = unruly \cup {m.client} /\ Fault
         /\ UNCHANGED <<port, waiting, pos, view, epoch>>
<1>1. m \in Request /\ m.client \in Clients
  BY DEF ClientTypes, Request
<1>2. up /\ up'
  BY DEF Serve, ProcessPacket, RegisterHost, UnregisterHost, ResolveGsn, LocalGsn, RootNodes,
         Hostname, UnknownType, Receive
<1>. QED BY <1>1, <1>2 DEF Serve, clientVars, AnswerTo

--------------------------------------------------------------------------------
LEMMA EpochStep ==
  ASSUME ClientTypes, up \in BOOLEAN, EpochInv, [GsnNext]_gsnVars
  PROVE  EpochInv'
<1> USE FaultsAssumption
<1>1. ASSUME NEW m \in requests, Serve(m)
      PROVE  EpochInv'
  BY <1>1, ServeStep DEF Fault, EpochInv
<1>2. CASE EndProcess
  BY <1>2 DEF EndProcess, Crash, Fault, EpochInv
<1>3. CASE StartProcess
  BY <1>3 DEF StartProcess, Restart, EpochInv
<1>4. CASE ReceiveError
  BY <1>4 DEF ReceiveError, Fault, EpochInv, vars
<1>5. ASSUME UNCHANGED <<up, epoch>>, faults' = faults \/ Fault
      PROVE  EpochInv'
  BY <1>5 DEF EpochInv, Fault
<1>. QED
  BY <1>1, <1>2, <1>3, <1>4, <1>5
  DEF GsnNext, gsnVars, vars, StartForge, Interrupt, Deliver, Lose

LEMMA ReplyTypesStep ==
  ASSUME ClientTypes, TableOK, up \in BOOLEAN, EpochInv, ReplyTypes, [GsnNext]_gsnVars
  PROVE  ReplyTypes'
<1> USE FaultsAssumption
<1>1. ASSUME NEW m \in requests, Serve(m)
      PROVE  ReplyTypes'
  <2>1. epoch \in 0..MaxFaults
    BY DEF EpochInv
  <2>2. AnswerTo(m) \in Answered /\ AnswerTo(m).epoch = epoch
    BY <1>1, <2>1, ServeStep, AnswerType DEF AnswerTo
  <2>. QED BY <1>1, <2>1, <2>2, ServeStep DEF ReplyTypes
<1>2. CASE StartProcess
  <2>1. \A r \in replies : r.epoch \in Int
    BY DEF ReplyTypes, Answered
  <2>. QED BY <1>2, <2>1 DEF StartProcess, netVars, ReplyTypes, EpochInv
<1>3. ASSUME replies' \subseteq replies, UNCHANGED epoch
      PROVE  ReplyTypes'
  BY <1>3 DEF ReplyTypes
<1>. QED
  BY <1>1, <1>2, <1>3
  DEF GsnNext, gsnVars, netVars, StartForge, Interrupt, Deliver, Lose, ReceiveError, EndProcess

LEMMA ViewTypesStep ==
  ASSUME ClientTypes, EpochInv, ReplyTypes, ViewTypes, [GsnNext]_gsnVars
  PROVE  ViewTypes'
<1>1. ASSUME NEW c \in Clients, StartForge(c)
      PROVE  ViewTypes'
  <2>1. NothingSeen \in Seen /\ NothingSeen.epoch = 0
    BY DEF NothingSeen, Seen
  <2>2. view' = [view EXCEPT ![c] = NothingSeen] /\ waiting' = [waiting EXCEPT ![c] = TRUE] /\ epoch' = epoch
    BY <1>1 DEF StartForge
  <2>. QED BY <2>1, <2>2 DEF ViewTypes, ClientTypes, EpochInv
<1>2. ASSUME NEW r \in replies, Deliver(r)
      PROVE  ViewTypes'
  <2> DEFINE seen == [op |-> r.op, code |-> RcodeToString(r.code), host |-> r.host, epoch |-> r.epoch]
  <2>1. seen \in Seen /\ seen.epoch <= epoch
    BY FaultsAssumption DEF ReplyTypes, Answered, Seen, RcodeToString
  <2>2. CASE UNCHANGED <<waiting, view>>
    BY <1>2, <2>2 DEF Deliver, ViewTypes
  <2>3. CASE waiting' = [waiting EXCEPT ![r.client] = FALSE] /\ view' = [view EXCEPT ![r.client] = seen]
    <3>1. epoch' = epoch
      BY <1>2 DEF Deliver
    <3> HIDE DEF seen
    <3>. QED BY <2>1, <2>3, <3>1 DEF ViewTypes, ClientTypes
  <2>. QED BY <1>2, <2>2, <2>3 DEF Deliver
<1>3. CASE StartProcess
  <2>1. \A c \in Clients : view[c].epoch \in Nat
    BY DEF ViewTypes, Seen
  <2>. QED BY <1>3, <2>1 DEF StartProcess, clientVars, ViewTypes, EpochInv
<1>4. ASSUME NEW c \in Clients, Interrupt(c)
      PROVE  ViewTypes'
  BY <1>4 DEF Interrupt, ViewTypes, ClientTypes
<1>5. ASSUME UNCHANGED <<view, waiting, epoch>>
      PROVE  ViewTypes'
  BY <1>5 DEF ViewTypes
<1>. QED
  BY <1>1, <1>2, <1>3, <1>4, <1>5, ServeStep
  DEF GsnNext, gsnVars, clientVars, Lose, ReceiveError, EndProcess

(* A client that has lost track of no datagram has never had two on their  *)
(* way.                                                                    *)
LEMMA NetStep ==
  ASSUME ClientTypes, ReplyTypes, NetInv, [GsnNext]_gsnVars
  PROVE  NetInv'
<1>1. ASSUME NEW c \in Clients, StartForge(c)
      PROVE  NetInv'
  <2>1. /\ ~waiting[c] /\ replies' = replies /\ unruly' = unruly
        /\ requests' = requests \cup {[client |-> c, port |-> port'[c], op |-> Script[c][pos[c]]]}
    BY <1>1 DEF StartForge
  <2>2. waiting'[c] /\ \A d \in Clients \ {c} : waiting'[d] = waiting[d] /\ port'[d] = port[d]
    BY <1>1 DEF StartForge, ClientTypes
  <2>3. PICK new : new = [client |-> c, port |-> port'[c], op |-> Script[c][pos[c]]]
    OBVIOUS
  <2>4. new.client = c /\ new.port = port'[c] /\ requests' = requests \cup {new}
    BY <2>1, <2>3
  <2>5. c \notin unruly => \A m \in requests \cup replies : m.client # c
    BY <2>1 DEF NetInv, Orderly
  <2>6. c \notin unruly' => Orderly(c)'
    BY <2>1, <2>2, <2>4, <2>5 DEF Orderly
  <2>7. ASSUME NEW d \in Clients \ {c}, d \notin unruly'
        PROVE  Orderly(d)'
    BY <2>1, <2>2, <2>4, <2>7 DEF NetInv, Orderly
  <2>. QED BY <2>6, <2>7 DEF NetInv
<1>2. ASSUME NEW c \in Clients, Interrupt(c)
      PROVE  NetInv'
  <2>1. UNCHANGED <<requests, replies, port>> /\ \A d \in Clients \ {c} : waiting'[d] = waiting[d]
    BY <1>2 DEF Interrupt, netVars, ClientTypes
  <2>2. (~InFlight(c) /\ unruly' = unruly) \/ unruly' = unruly \cup {c}
    BY <1>2 DEF Interrupt
  <2>3. \A d \in Clients \ {c} : d \notin unruly' => Orderly(d)'
    BY <2>1, <2>2 DEF NetInv, Orderly
  <2>4. c \notin unruly' => Orderly(c)'
    BY <2>1, <2>2 DEF InFlight, Orderly
  <2>. QED BY <2>3, <2>4 DEF NetInv
<1>3. ASSUME NEW m \in requests, Serve(m)
      PROVE  NetInv'
  <2>1. /\ replies' = replies \cup {AnswerTo(m)} /\ UNCHANGED <<port, waiting>>
        /\ \/ requests' = requests \ {m} /\ unruly' = unruly
           \/ requests' = requests /\ unruly' = unruly \cup {m.client}
    BY <1>3, ServeStep
  <2>2. PICK a : a = AnswerTo(m)
    OBVIOUS
  <2>3. a.client = m.client /\ a.port = m.port /\ replies' = replies \cup {a}
    BY <2>1, <2>2 DEF AnswerTo
  <2>4. ASSUME NEW d \in Clients, d \notin unruly'
        PROVE  Orderly(d)'
    <3>1. d \notin unruly /\ Orderly(d)
      BY <2>1, <2>4 DEF NetInv
    <3>2. CASE d # m.client
      BY <2>1, <2>3, <3>1, <3>2 DEF Orderly
    <3>3. CASE d = m.client
      <4>1. requests' = requests \ {m}
        BY <2>1, <2>4, <3>3
      <4>2. (\A n \in requests' : n.client # d) /\ (\A r \in replies : r.client # d)
        BY <3>1, <3>3, <4>1 DEF Orderly
      <4>3. waiting[d] /\ m.port = port[d]
        BY <3>1, <3>3 DEF Orderly
      <4>. QED BY <2>1, <2>3, <3>3, <4>2, <4>3 DEF Orderly
    <3>. QED BY <3>2, <3>3
  <2>. QED BY <2>4 DEF NetInv
<1>4. ASSUME NEW r \in replies, Deliver(r)
      PROVE  NetInv'
  <2>1. /\ replies' = replies \ {r} /\ UNCHANGED <<requests, port, unruly>>
        /\ waiting' = waiting \/ waiting' = [waiting EXCEPT ![r.client] = FALSE]
    BY <1>4 DEF Deliver
  <2>2. \A d \in Clients \ {r.client} : waiting'[d] = waiting[d]
    BY <2>1 DEF ClientTypes
  <2>3. ASSUME NEW d \in Clients, d \notin unruly'
        PROVE  Orderly(d)'
    <3>1. Orderly(d)
      BY <2>1, <2>3 DEF NetInv
    <3>2. CASE d # r.client
      BY <2>1, <2>2, <3>1, <3>2 DEF Orderly
    <3>3. CASE d = r.client
      <4>1. (\A n \in replies' : n.client # d) /\ (\A n \in requests : n.client # d)
        BY <2>1, <3>1, <3>3 DEF Orderly
      <4>. QED BY <2>1, <4>1 DEF Orderly
    <3>. QED BY <3>2, <3>3
  <2>. QED BY <2>3 DEF NetInv
<1>5. ASSUME requests' \subseteq requests, replies' \subseteq replies,
             UNCHANGED <<port, waiting, unruly>>
      PROVE  NetInv'
  BY <1>5 DEF NetInv, Orderly
<1>. QED
  BY <1>1, <1>2, <1>3, <1>4, <1>5
  DEF GsnNext, gsnVars, clientVars, netVars, Lose, ReceiveError, EndProcess, StartProcess

--------------------------------------------------------------------------------
(* Nobody but the clients registers anything. *)
LEMMA TableFromClientsStep ==
  ASSUME ClientTypes, TableOK, UniqueKeys, TableFromClients, [GsnNext]_gsnVars
  PROVE  TableFromClients'
<1>1. ASSUME NEW m \in requests, Serve(m)
      PROVE  TableFromClients'
  <2>1. m \in Request /\ m.client \in Clients /\ ProcessPacket(PacketOf(m), AddrOf[m.client])
    BY <1>1, ServeStep
  <2>2. CASE m.op = "register" /\ RegisterHost(PacketOf(m), AddrOf[m.client])
    <3>1. PICK n \in Node : NodeOfClient(n, m.client) /\ (table' = table \/ table' = AddNode(table, n))
      BY <2>1, <2>2, RegisterAnswered
    <3>2. Range(table') \subseteq Range(table) \cup {n}
      BY <3>1, AddToRange DEF TableOK
    <3>. QED BY <2>1, <3>1, <3>2 DEF TableFromClients
  <2>3. CASE m.op = "unregister" /\ UnregisterHost(PacketOf(m), AddrOf[m.client])
    <3>1. PICK it : it = FindAddr(table, AddrOf[m.client])
      OBVIOUS
    <3>2. table' = table \/ (it \in DOMAIN table /\ table' = EraseNode(table, it))
      BY <2>3, <3>1, FindProperties DEF UnregisterHost, TableOK
    <3>3. Range(table') \subseteq Range(table)
      BY <3>2, EraseFromRange DEF TableOK, UniqueKeys
    <3>. QED BY <3>3 DEF TableFromClients
  <2>4. CASE m.op = "hostname" /\ Hostname(PacketOf(m), AddrOf[m.client])
    BY <2>4 DEF Hostname, TableFromClients
  <2>. QED BY <2>1, <2>2, <2>3, <2>4, ServeCases
<1>2. CASE Crash
  BY <1>2 DEF Crash, TableFromClients, Range
<1>3. CASE UNCHANGED table
  BY <1>3 DEF TableFromClients
<1>. QED
  BY <1>1, <1>2, <1>3
  DEF GsnNext, gsnVars, vars, StartForge, Interrupt, Deliver, Lose, ReceiveError, EndProcess,
      StartProcess, Restart

--------------------------------------------------------------------------------
(* A machine with an address of its own has one node at most. *)
LEMMA OneNodeEach ==
  ASSUME OwnAddresses, UniqueKeys, TableFromClients, NEW c \in Clients
  PROVE  /\ \A n \in Range(table) : n.addr = AddrOf[c] => NodeOfClient(n, c)
         /\ \A m, n \in Range(table) : m.addr = AddrOf[c] /\ n.addr = AddrOf[c] => m = n
<1>1. \A n \in Range(table) : n.addr = AddrOf[c] => NodeOfClient(n, c)
  BY DEF TableFromClients, NodeOfClient, OwnAddresses
<1>2. ASSUME NEW m \in Range(table), NEW n \in Range(table), m.addr = AddrOf[c], n.addr = AddrOf[c]
      PROVE  m = n
  <2>1. m.host = n.host
    BY <1>1, <1>2 DEF NodeOfClient
  <2>2. PICK i, j \in DOMAIN table : table[i] = m /\ table[j] = n
    BY DEF Range
  <2>. QED BY <2>1, <2>2 DEF UniqueKeys, DistinctKeys
<1>. QED BY <1>1, <1>2

(* What was said of a client holds as long as its address has the same     *)
(* nodes.                                                                  *)
LEMMA HoldsKept ==
  ASSUME OwnAddresses, UniqueKeys', TableFromClients', NEW c \in Clients, NEW a, Holds(c, a),
         \A n : n.addr = AddrOf[c] => (n \in Range(table') <=> n \in Range(table))
  PROVE  Holds(c, a)'
<1>1. \A m, n \in Range(table') : m.addr = AddrOf[c] /\ n.addr = AddrOf[c] => m = n
  <2>1. \A n \in Range(table') : n.addr = AddrOf[c] => NodeOfClient(n, c)
    BY DEF TableFromClients, NodeOfClient, OwnAddresses
  <2>2. ASSUME NEW m \in Range(table'), NEW n \in Range(table'), m.addr = AddrOf[c], n.addr = AddrOf[c]
        PROVE  m = n
    <3>1. m.host = n.host
      BY <2>1, <2>2 DEF NodeOfClient
    <3>2. PICK i, j \in DOMAIN table' : table'[i] = m /\ table'[j] = n
      BY DEF Range
    <3>. QED BY <3>1, <3>2 DEF UniqueKeys, DistinctKeys
  <2>. QED BY <2>2
<1>2. Registered(c) => Registered(c)'
  BY DEF Registered
<1>3. Absent(c) => Absent(c)'
  BY DEF Absent
<1>4. \A host : OldestNamed(c, host) => OldestNamed(c, host)'
  BY <1>1 DEF OldestNamed, Oldest
<1>. QED BY <1>2, <1>3, <1>4 DEF Holds

(* Serving one client changes no node of another's address. *)
LEMMA OthersUntouched ==
  ASSUME OwnAddresses, ClientTypes, TableOK, UniqueKeys, [GsnNext]_gsnVars,
         NEW m \in requests, Serve(m), NEW c \in Clients, c # m.client
  PROVE  \A n : n.addr = AddrOf[c] => (n \in Range(table') <=> n \in Range(table))
<1>1. m.client \in Clients /\ up /\ up' /\ [Next]_vars
  BY ServeStep, RootStep
<1>2. peer' = AddrOf[m.client]
  BY DEF Serve, ProcessPacket, RegisterHost, UnregisterHost, ResolveGsn, LocalGsn, RootNodes,
         Hostname, UnknownType, Receive
<1>3. AddrOf[c] # peer'
  BY <1>1, <1>2 DEF OwnAddresses
<1>4. CASE table' = table
  BY <1>4
<1>5. CASE table' # table
  <2>1. QueueStep
    BY <1>1, <1>5, FifoStep
  <2>. QED BY <1>3, <2>1 DEF QueueStep
<1>. QED BY <1>4, <1>5

(* What the node replies to a client is true when it replies. *)
LEMMA HoldsNow ==
  ASSUME OwnAddresses, ClientTypes, TableOK, UniqueKeys, TableFromClients,
         NEW m \in requests, Serve(m), NEW c \in Clients, c = m.client, NEW a, a = AnswerTo(m)
  PROVE  Holds(c, a)'
<1>1. m \in Request /\ ProcessPacket(PacketOf(m), AddrOf[c])
  BY ServeStep
<1>2. a.op = m.op /\ a.code = reply'.code /\ a.host = HostIn(m, reply')
  BY DEF AnswerTo
<1>3. CASE m.op = "register" /\ RegisterHost(PacketOf(m), AddrOf[c])
  <2>1. PICK n \in Node :
          /\ NodeOfClient(n, c)
          /\ \/ Taken(n.host, n.suid) /\ reply'.code = "netspace_duplicate" /\ UNCHANGED table
             \/ ~Taken(n.host, n.suid) /\ reply'.code = "ok" /\ table' = AddNode(table, n)
    BY <1>1, <1>3, RegisterAnswered
  <2>2. CASE table' = AddNode(table, n)
    <3>1. n \in Range(table')
      BY <2>2, AddToRange DEF TableOK
    <3>2. Registered(c)'
      BY <2>1, <3>1 DEF Registered, NodeOfClient
    <3>. QED BY <1>2, <1>3, <3>2 DEF Holds
  <2>3. CASE Taken(n.host, n.suid) /\ reply'.code = "netspace_duplicate" /\ UNCHANGED table
    <3>1. PICK i \in DOMAIN table : table[i].host = n.host \/ table[i].suid = n.suid
      BY <2>3, FindProperties DEF Taken, TableOK
    <3>2. PICK k \in Range(table) : k = table[i]
      BY DEF Range
    <3>3. PICK d \in Clients : NodeOfClient(k, d)
      BY DEF TableFromClients
    <3>4. Exclusive(c) => d = c
      BY <2>1, <3>1, <3>2, <3>3 DEF Exclusive, NodeOfClient
    <3>5. Exclusive(c) => Registered(c)'
      BY <2>3, <3>3, <3>4 DEF Registered, NodeOfClient
    <3>. QED BY <1>2, <1>3, <2>3, <3>5 DEF Holds
  <2>. QED BY <2>1, <2>2, <2>3
<1>4. CASE m.op = "unregister" /\ UnregisterHost(PacketOf(m), AddrOf[c])
  <2>1. PICK it : it = FindAddr(table, AddrOf[c])
    OBVIOUS
  <2>2. CASE it = EndOf(table)
    <3>1. \A n \in Range(table) : n.addr # AddrOf[c]
      BY <2>1, <2>2, UnfoundIsAbsent DEF TableOK
    <3>2. UNCHANGED table
      BY <1>4, <2>1, <2>2 DEF UnregisterHost
    <3>3. Absent(c)'
      BY <3>1, <3>2 DEF Absent
    <3>. QED BY <1>2, <1>4, <3>3 DEF Holds
  <2>3. CASE it # EndOf(table)
    <3>1. it \in DOMAIN table /\ table[it] \in Range(table) /\ table[it].addr = AddrOf[c]
      BY <2>1, <2>3, FoundIsOldest DEF TableOK
    <3>2. table' = EraseNode(table, it)
      BY <1>4, <2>1, <2>3 DEF UnregisterHost
    <3>3. Range(table') = Range(table) \ {table[it]}
      BY <3>1, <3>2, EraseFromRange DEF TableOK, UniqueKeys
    <3>4. Absent(c)'
      BY <3>1, <3>3, OneNodeEach DEF Absent
    <3>. QED BY <1>2, <1>4, <3>4 DEF Holds
  <2>. QED BY <2>2, <2>3
<1>5. CASE m.op = "hostname" /\ Hostname(PacketOf(m), AddrOf[c])
  <2>1. PICK it : it = FindAddr(table, AddrOf[c])
    OBVIOUS
  <2>2. CASE it = EndOf(table)
    <3>1. UNCHANGED table /\ a.code = "netspace_error"
      BY <1>1, <1>2, <1>5, <2>1, <2>2, HostnameAnswered
    <3>2. \A n \in Range(table) : n.addr # AddrOf[c]
      BY <2>1, <2>2, UnfoundIsAbsent DEF TableOK
    <3>3. Absent(c)'
      BY <3>1, <3>2 DEF Absent
    <3>. QED BY <1>2, <1>5, <3>1, <3>3 DEF Holds
  <2>3. CASE it # EndOf(table)
    <3>1. UNCHANGED table /\ a.code = "ok" /\ a.host = table[it].host
      BY <1>1, <1>2, <1>5, <2>1, <2>3, HostnameAnswered
    <3>2. table[it] \in Range(table) /\ table[it].addr = AddrOf[c] /\ Oldest(table, table[it])
      BY <2>1, <2>3, FoundIsOldest DEF TableOK
    <3>3. OldestNamed(c, a.host)
      BY <3>1, <3>2 DEF OldestNamed
    <3>4. OldestNamed(c, a.host)'
      BY <3>1, <3>3 DEF OldestNamed, Oldest
    <3>. QED BY <1>2, <1>5, <3>1, <3>4 DEF Holds
  <2>. QED BY <2>2, <2>3
<1>. QED BY <1>1, <1>3, <1>4, <1>5, ServeCases

(* Where neither the table nor the process changes, what was true stays.   *)
LEMMA HoldsStill ==
  ASSUME UNCHANGED table, NEW c, NEW a
  PROVE  Holds(c, a)' <=> Holds(c, a)
BY DEF Holds, Registered, Absent, OldestNamed, Oldest, Exclusive

LEMMA TruthStill ==
  ASSUME TruthInv, UNCHANGED <<table, up, epoch>>, replies' \subseteq replies, unruly \subseteq unruly',
         \A c \in Clients : view'[c] = view[c] \/ view'[c] = NothingSeen
  PROVE  TruthInv'
<1>1. \A c, a : Holds(c, a)' <=> Holds(c, a)
  BY HoldsStill
<1>. QED BY <1>1 DEF TruthInv

LEMMA TruthStep ==
  ASSUME OwnAddresses, ClientTypes, TableOK, UniqueKeys, UniqueKeys', EpochInv, ReplyTypes, ViewTypes,
         NetInv, TableFromClients, TableFromClients', TruthInv, [GsnNext]_gsnVars
  PROVE  TruthInv'
<1>1. ASSUME NEW c \in Clients, StartForge(c)
      PROVE  TruthInv'
  <2>1. \A d \in Clients : view'[d] = view[d] \/ view'[d] = NothingSeen
    BY <1>1 DEF StartForge, ViewTypes
  <2>. QED BY <1>1, <2>1, TruthStill DEF StartForge, vars
<1>2. ASSUME NEW m \in requests, Serve(m)
      PROVE  TruthInv'
  <2>1. /\ m.client \in Clients /\ up /\ UNCHANGED <<waiting, view, epoch>>
        /\ replies' = replies \cup {AnswerTo(m)} /\ unruly \subseteq unruly'
    BY <1>2, ServeStep
  <2>2. PICK a : a = AnswerTo(m)
    OBVIOUS
  <2>3. a.client = m.client /\ replies' = replies \cup {a}
    BY <2>1, <2>2 DEF AnswerTo
  <2>4. Holds(m.client, a)'
    <3>1. PICK c \in Clients : c = m.client
      BY <2>1
    <3>. QED BY <1>2, <2>2, <3>1, HoldsNow
  <2>5. ASSUME NEW c \in Clients \ {m.client}, NEW b, Holds(c, b)
        PROVE  Holds(c, b)'
    BY <1>2, <2>5, OthersUntouched, HoldsKept
  <2>6. ASSUME NEW r \in replies', r.client \notin unruly', r.epoch = epoch'
        PROVE  Holds(r.client, r)'
    <3>1. CASE r = a
      BY <2>3, <2>4, <3>1
    <3>2. CASE r # a
      <4>1. r \in replies /\ r.client \notin unruly /\ r.epoch = epoch
        BY <2>1, <2>3, <2>6, <3>2
      <4>2. r.client \in Clients /\ Holds(r.client, r)
        BY <2>1, <4>1 DEF TruthInv, ReplyTypes, Answered
      <4>3. r.client # m.client
        BY <2>1, <4>1, <4>2 DEF NetInv, Orderly
      <4>. QED BY <2>5, <4>2, <4>3
    <3>. QED BY <3>1, <3>2
  <2>7. ASSUME NEW c \in Clients, c \notin unruly', view'[c] # NothingSeen, view'[c].epoch = epoch'
        PROVE  Holds(c, view[c])'
    <3>1. c \notin unruly /\ view[c] # NothingSeen /\ view[c].epoch = epoch /\ view' = view
      BY <2>1, <2>7
    <3>2. c # m.client
      BY <3>1 DEF NetInv, Orderly, ViewTypes
    <3>3. PICK b : b = view[c]
      OBVIOUS
    <3>4. Holds(c, b)
      BY <2>1, <3>1, <3>3 DEF TruthInv
    <3>5. Holds(c, b)'
      BY <2>5, <3>2, <3>4
    <3>6. b = view'[c]
      BY <3>1, <3>3
    <3>. QED BY <3>5, <3>6
  <2>. QED BY <2>6, <2>7 DEF TruthInv
<1>3. ASSUME NEW r \in replies, Deliver(r)
      PROVE  TruthInv'
  <2>1. UNCHANGED <<table, up, epoch, unruly>> /\ replies' \subseteq replies
    BY <1>3 DEF Deliver, vars
  <2>2. CASE view' = view
    BY <2>1, <2>2, TruthStill
  <2>3. CASE view' = [view EXCEPT ![r.client] =
                        [op |-> r.op, code |-> RcodeToString(r.code), host |-> r.host, epoch |-> r.epoch]]
    <3>1. PICK b : b = [op |-> r.op, code |-> RcodeToString(r.code), host |-> r.host, epoch |-> r.epoch]
      OBVIOUS
    <3>2. r.client \in Clients /\ view'[r.client] = b /\ \A c \in Clients \ {r.client} : view'[c] = view[c]
      BY <2>3, <3>1 DEF ReplyTypes, Answered, ViewTypes
    <3>3. Holds(r.client, r) => Holds(r.client, b)
      BY <3>1 DEF Holds, RcodeToString
    <3>4. up /\ r.client \notin unruly /\ r.epoch = epoch => Holds(r.client, b)
      BY <3>3 DEF TruthInv
    <3>5. \A c, a : Holds(c, a)' <=> Holds(c, a)
      BY <2>1, HoldsStill
    <3>6. b.epoch = r.epoch
      BY <3>1
    <3>. QED BY <2>1, <3>2, <3>4, <3>5, <3>6 DEF TruthInv
  <2>. QED BY <1>3, <2>2, <2>3 DEF Deliver
<1>4. CASE EndProcess
  BY <1>4 DEF EndProcess, Crash, TruthInv
<1>5. CASE StartProcess
  <2>1. /\ epoch' = epoch + 1 /\ replies' = replies /\ view' = view /\ epoch \in Nat
    BY <1>5 DEF StartProcess, netVars, clientVars, EpochInv
  <2>2. \A r \in replies : r.epoch # epoch'
    BY <2>1 DEF ReplyTypes, Answered
  <2>3. \A c \in Clients : view[c].epoch # epoch'
    BY <2>1 DEF ViewTypes, Seen
  <2>. QED BY <2>1, <2>2, <2>3 DEF TruthInv
<1>6. ASSUME NEW c \in Clients, Interrupt(c)
      PROVE  TruthInv'
  BY <1>6, TruthStill DEF Interrupt, vars, netVars
<1>7. ASSUME NEW m \in requests \cup replies, Lose(m)
      PROVE  TruthInv'
  BY <1>7, TruthStill DEF Lose, vars, clientVars
<1>8. CASE ReceiveError \/ UNCHANGED gsnVars
  BY <1>8, TruthStill DEF ReceiveError, gsnVars, vars, netVars, clientVars
<1>. QED BY <1>1, <1>2, <1>3, <1>4, <1>5, <1>6, <1>7, <1>8 DEF GsnNext

LEMMA ServiceInit ==
  ASSUME GsnInit
  PROVE  EpochInv /\ ReplyTypes /\ ViewTypes /\ NetInv /\ TableFromClients /\ TruthInv
<1>1. EpochInv
  BY FaultsAssumption DEF GsnInit, Init, EpochInv
<1>2. ReplyTypes /\ NetInv
  BY DEF GsnInit, ReplyTypes, NetInv, Orderly
<1>3. NothingSeen \in Seen /\ NothingSeen.epoch = 0
  BY DEF NothingSeen, Seen
<1>4. ViewTypes
  BY <1>3 DEF GsnInit, ViewTypes
<1>5. TableFromClients
  BY DEF GsnInit, Init, TableFromClients, Range
<1>6. TruthInv
  BY DEF GsnInit, TruthInv
<1>. QED BY <1>1, <1>2, <1>4, <1>5, <1>6

(* Everything but the truth of the answers holds for any addresses.        *)
LEMMA ServiceInvariant ==
  GsnSpec => [](EpochInv /\ ReplyTypes /\ ViewTypes /\ NetInv /\ TableFromClients)
<1>1. ClientTypes /\ TypeOK /\ UniqueKeys /\ EpochInv /\ ReplyTypes /\ ViewTypes /\ NetInv
        /\ TableFromClients /\ [GsnNext]_gsnVars
        => EpochInv' /\ ReplyTypes' /\ ViewTypes' /\ NetInv' /\ TableFromClients'
  BY EpochStep, ReplyTypesStep, ViewTypesStep, NetStep, TableFromClientsStep DEF TypeOK, TableOK
<1>. QED BY <1>1, ServiceInit, RootNodeAlways, PTL DEF GsnSpec

(* Datagrams, answers and counters keep their types (GsnService's          *)
(* GsnTypeOK).                                                             *)
THEOREM ServiceTypeCorrect == GsnSpec => []GsnTypeOK
<1>1. ClientTypes /\ TypeOK /\ ReplyTypes /\ ViewTypes => GsnTypeOK
  <2> SUFFICES ASSUME ClientTypes, TypeOK, ReplyTypes, ViewTypes PROVE GsnTypeOK
    OBVIOUS
  <2>1. \A c \in Clients : pos[c] \in 1..Len(Script[c])+1
    BY ScriptLength DEF ClientTypes
  <2>2. \A c \in Clients : view[c].host \in Names \cup {NoHost}
    BY DEF ViewTypes, Seen
  <2>. QED BY <2>1, <2>2 DEF ClientTypes, ReplyTypes, GsnTypeOK
<1>. QED BY <1>1, ServiceInvariant, RootNodeAlways, PTL

LEMMA AnswersTrue ==
  ASSUME OwnAddresses
  PROVE  GsnSpec => []TruthInv
<1>1. ClientTypes /\ TypeOK /\ UniqueKeys /\ UniqueKeys' /\ EpochInv /\ ReplyTypes /\ ViewTypes /\ NetInv
        /\ TableFromClients /\ TableFromClients' /\ TruthInv /\ [GsnNext]_gsnVars => TruthInv'
  BY TruthStep DEF TypeOK, TableOK
<1>. QED BY <1>1, ServiceInit, ServiceInvariant, RootNodeAlways, PTL DEF GsnSpec

(* A client that was told its register went well, or that registers names  *)
(* of its own, is in the table until it asks for something else, whatever  *)
(* the others' datagrams do (protocol_handler.cpp:61-71).                  *)
THEOREM RegisterHolds ==
  ASSUME OwnAddresses
  PROVE  GsnSpec => []RegisterAnswerHolds
<1>1. TruthInv => RegisterAnswerHolds
  BY DEF TruthInv, RegisterAnswerHolds, Settled, Holds
<1>. QED BY <1>1, AnswersTrue, PTL

(* After an answered unregister no node of the client's address is left    *)
(* (protocol_handler.cpp:80-85).                                           *)
THEOREM UnregisterHolds ==
  ASSUME OwnAddresses
  PROVE  GsnSpec => []UnregisterAnswerHolds
<1>1. TruthInv => UnregisterAnswerHolds
  BY DEF TruthInv, UnregisterAnswerHolds, Settled, Holds, Absent
<1>. QED BY <1>1, AnswersTrue, PTL

(* The host a client was told of is that of its oldest node until it       *)
(* changes that itself (protocol_handler.cpp:185-196).                     *)
THEOREM HostnameHolds ==
  ASSUME OwnAddresses
  PROVE  GsnSpec => []HostnameAnswerHolds
<1>1. TruthInv => HostnameAnswerHolds
  BY DEF TruthInv, HostnameAnswerHolds, Settled, Holds, Absent, OldestNamed
<1>. QED BY <1>1, AnswersTrue, PTL

================================================================================
