------------------------------- MODULE DvspPacket -------------------------------
(***************************************************************************)
(* The packets that every part of the system passes around: dvsp_packet    *)
(* (shared/protocol/dvsp_packet.cpp) owns its content by a raw pointer,    *)
(* which it allocates, deletes and copies by hand.                         *)
(*                                                                         *)
(* A packet is modelled by the size in its header and its pointer, the     *)
(* heap by what each block holds.  Handlers give a new packet the header   *)
(* of another one, size and all, before they give it its content           *)
(* (protocol_handler.cpp:102, 156).                                        *)
(***************************************************************************)
EXTENDS Integers, FiniteSets

CONSTANTS
  Packets,  \* the dvsp_packet objects of a run
  Blocks,   \* bound: the blocks of the heap
  Contents, \* what a packet may be given to carry
  SizeOf,   \* how long a content is; one is empty
  Null,     \* nullptr
  Free      \* what is in a block that is not allocated

ASSUME ContentsAssumption == SizeOf \in [Contents -> Nat]
ASSUME HeapAssumption == Null \notin Blocks /\ Free \notin Contents

VARIABLES
  live,     \* the packets that exist
  size,     \* per packet: m_header.size
  ptr,      \* per packet: m_content
  heap,     \* per block: the content in it, or Free
  told,     \* per packet: what it was last given to carry
  emptied,  \* an empty content has been set on a packet that has a block
  broken    \* a block was deleted twice, or read when it was not there

packetVars == <<live, size, ptr, heap, told, emptied, broken>>

Init ==
  /\ live = {}
  /\ size = [p \in Packets |-> 0]
  /\ ptr = [p \in Packets |-> Null]
  /\ heap = [b \in Blocks |-> Free]
  /\ told \in [Packets -> {c \in Contents : SizeOf[c] = 0}]
  /\ emptied = FALSE
  /\ broken = FALSE

IsFree(h, b) == h[b] = Free

(* The heap after delete[] of a packet's pointer *)
NotDeleted(p) == heap   \* a mistake: the old content is forgotten
Deleted(p) == IF ptr[p] = Null THEN heap ELSE [heap EXCEPT ![ptr[p]] = Free]
DeletesTwice(p) == ptr[p] # Null /\ IsFree(heap, ptr[p])

(* new generic_type[] and the copy of a content into it *)
Allocate(p, h, content) ==
  \E b \in Blocks : /\ IsFree(h, b)
                    /\ heap' = [h EXCEPT ![b] = content]
                    /\ ptr' = [ptr EXCEPT ![p] = b]

(* The size that comes with a content *)
SizeTerminated(content) == SizeOf[content] + 1   \* a mistake: counts the '\0'
Sized(content) == SizeOf[content]

(* reset and the copy that follows it: for size 0 the content is deleted   *)
(* and the pointer stays.                                                  *)
SetContent(p, content) ==
  /\ p \in live /\ ~broken
  /\ IF SizeOf[content] = 0 THEN heap' = Deleted(p) /\ UNCHANGED ptr
     ELSE Allocate(p, Deleted(p), content)
  /\ size' = [size EXCEPT ![p] = Sized(content)]
  /\ told' = [told EXCEPT ![p] = content]
  /\ emptied' = (emptied \/ (SizeOf[content] = 0 /\ ptr[p] # Null))
  /\ broken' = DeletesTwice(p)
  /\ UNCHANGED live

(* dvsp_packet::dvsp_packet() *)
Construct(p) ==
  /\ p \notin live /\ ~broken
  /\ live' = live \cup {p}
  /\ size' = [size EXCEPT ![p] = 0]
  /\ ptr' = [ptr EXCEPT ![p] = Null]
  /\ told' \in {[told EXCEPT ![p] = c] : c \in {d \in Contents : SizeOf[d] = 0}}
  /\ UNCHANGED <<heap, emptied, broken>>

(* header() = the header of another packet, on a packet without content *)
CopyHeaderAnytime(p, q) ==   \* a mistake: on a packet that has a content
  /\ p \in live /\ q \in live /\ ~broken
  /\ size' = [size EXCEPT ![p] = size[q]]
  /\ UNCHANGED <<live, ptr, heap, told, emptied, broken>>

CopyHeader(p, q) ==
  /\ p \in live /\ q \in live /\ ~broken
  /\ ptr[p] = Null
  /\ size' = [size EXCEPT ![p] = size[q]]
  /\ UNCHANGED <<live, ptr, heap, told, emptied, broken>>

(* A size without a content: serialise, content and to_string throw *)
IsEmpty(q) == size[q] # 0 /\ ptr[q] = Null

(* Reading size bytes from the pointer of a packet *)
ReadsAmiss(q) ==
  size[q] # 0 /\ (IsFree(heap, ptr[q]) \/ SizeOf[heap[ptr[q]]] # size[q])
Bytes(q) == IF size[q] = 0 THEN told[q] ELSE heap[ptr[q]]

(* The copy constructor allocates, were it 0 bytes.  Nobody copies a       *)
(* packet that has a size and no content.                                  *)
CopyConstruct(p, q) ==
  /\ p \notin live /\ q \in live /\ ~broken /\ ~IsEmpty(q)
  /\ live' = live \cup {p}
  /\ size' = [size EXCEPT ![p] = size[q]]
  /\ told' = [told EXCEPT ![p] = told[q]]
  /\ broken' = ReadsAmiss(q)
  /\ IF ReadsAmiss(q) THEN UNCHANGED <<heap, ptr>> ELSE Allocate(p, heap, Bytes(q))
  /\ UNCHANGED emptied

(* serialise and the constructor that reads what it wrote: deserialise     *)
(* takes the header and allocates if there is a content.                   *)
FromSerial(p, q) ==
  /\ p \notin live /\ q \in live /\ ~broken /\ ~IsEmpty(q)
  /\ live' = live \cup {p}
  /\ size' = [size EXCEPT ![p] = size[q]]
  /\ told' = [told EXCEPT ![p] = told[q]]
  /\ broken' = ReadsAmiss(q)
  /\ IF size[q] = 0 \/ ReadsAmiss(q) THEN ptr' = [ptr EXCEPT ![p] = Null] /\ UNCHANGED heap
     ELSE Allocate(p, heap, Bytes(q))
  /\ UNCHANGED emptied

(* ~dvsp_packet *)
Destroy(p) ==
  /\ p \in live /\ ~broken
  /\ live' = live \ {p}
  /\ heap' = Deleted(p)
  /\ broken' = DeletesTwice(p)
  /\ UNCHANGED <<size, ptr, told, emptied>>

Next ==
  \/ \E p \in Packets, c \in Contents : SetContent(p, c)
  \/ \E p \in Packets : Construct(p) \/ Destroy(p)
  \/ \E p, q \in Packets : CopyHeader(p, q) \/ CopyConstruct(p, q) \/ FromSerial(p, q)

Spec == Init /\ [][Next]_packetVars

--------------------------------------------------------------------------------
(* Pointers, blocks and contents have their types, and a size in a header  *)
(* is that of something a packet can carry.                                *)
PacketTypeOK ==
  /\ live \subseteq Packets
  /\ size \in [Packets -> {0} \cup {SizeOf[c] : c \in Contents}]
  /\ ptr \in [Packets -> Blocks \cup {Null}]
  /\ heap \in [Blocks -> Contents \cup {Free}]
  /\ told \in [Packets -> Contents]
  /\ emptied \in BOOLEAN /\ broken \in BOOLEAN

Owners(b) == {p \in live : ptr[p] = b}

(* Every allocated block belongs to one packet and every packet's pointer  *)
(* to an allocated block: nothing is leaked, deleted twice or read when it *)
(* is gone, through any sequence of constructions, copies, new contents    *)
(* and destructions -- until a packet that had a content is emptied, which *)
(* keeps its pointer (dvsp_packet.hpp:81-87).                              *)
Ownership ==
  ~emptied =>
    /\ ~broken
    /\ \A p \in live : ptr[p] # Null => ~IsFree(heap, ptr[p])
    /\ \A b \in Blocks : ~IsFree(heap, b) => \E p \in live : ptr[p] = b
    /\ \A p, q \in live : ptr[p] = ptr[q] /\ ptr[p] # Null => p = q

(* A packet carries what it was given last, or what the packet carried     *)
(* that it was copied or deserialised from, whatever happened to that one  *)
(* since (dvsp_packet.cpp:11-16, 60-80).                                   *)
CarriesWhatItWasGiven ==
  ~emptied =>
    \A p \in live : ptr[p] # Null => heap[ptr[p]] = told[p] /\ size[p] = SizeOf[told[p]]

================================================================================
