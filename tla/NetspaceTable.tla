----------------------------- MODULE NetspaceTable -----------------------------
(***************************************************************************)
(* The netspace table of a root node (shared/infrastructure/               *)
(* netspace_table.cpp): the std::vector of the nodes registered with it.   *)
(*                                                                         *)
(* The table is a sequence of node records and an iterator is a position   *)
(* in it; end() is the position after the last node.  Every search is a    *)
(* std::find_if from begin(), so it stops at the first node that matches.  *)
(* The table itself checks nothing: two nodes may agree in any field.      *)
(***************************************************************************)
EXTENDS Integers, SequencesExt

(* netspace_table::end *)
EndOf(t) == Len(t) + 1

(* The search all find_* functions share: the first position of a set of   *)
(* matching positions, end() when nothing matches.                         *)
FirstOf(matches, end) ==
  IF matches = {} THEN end ELSE CHOOSE i \in matches : \A j \in matches : i <= j

FindHost(t, host) == FirstOf({i \in DOMAIN t : t[i].host = host}, EndOf(t))
FindSuid(t, suid) == FirstOf({i \in DOMAIN t : t[i].suid = suid}, EndOf(t))
FindAddr(t, addr) == FirstOf({i \in DOMAIN t : t[i].addr = addr}, EndOf(t))

(* add_node: push_back, with no test for a node that is already there *)
AddNode(t, node) == Append(t, node)

(* erase_node: end() is ignored, otherwise the later nodes move up by one. *)
(* Mistakes: the last node fills the gap; everything up to end() goes.     *)
EraseBySwap(t, it) == IF it = EndOf(t) THEN t ELSE Front([t EXCEPT ![it] = Last(t)])
EraseToEnd(t, it) == SubSeq(t, 1, it - 1)
EraseNode(t, it) == IF it = EndOf(t) THEN t ELSE RemoveAt(t, it)

(* protocol_handler::nodes_of: the nodes of a type *)
NodesOf(t, type) == {n \in Range(t) : n.type = type}

================================================================================
