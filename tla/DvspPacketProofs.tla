---------------------------- MODULE DvspPacketProofs ----------------------------
(***************************************************************************)
(* Proofs about DvspPacket, for any packets, any heap and any contents:    *)
(* types, ownership of the blocks, and what a packet carries.              *)
(*                                                                         *)
(* Ownership and content hold each other up: a packet is only read where   *)
(* it owns a block, and it owns a block of the right length because of     *)
(* what it carries.  What has to be added is that a packet without a block *)
(* was last given nothing.                                                 *)
(***************************************************************************)
EXTENDS DvspPacket, TLAPS

NothingWithoutBlock == ~emptied => \A p \in live : ptr[p] = Null => SizeOf[told[p]] = 0

IInv == PacketTypeOK /\ Ownership /\ CarriesWhatItWasGiven /\ NothingWithoutBlock

(* A block was allocated, in a heap that deleted none or the pointer's.    *)
LEMMA AllocateTypes ==
  ASSUME NEW p \in Packets, NEW h \in [Blocks -> Contents \cup {Free}],
         NEW content \in Contents \cup {Free}, PacketTypeOK, Allocate(p, h, content)
  PROVE  /\ heap' \in [Blocks -> Contents \cup {Free}]
         /\ ptr' \in [Packets -> Blocks \cup {Null}]
BY DEF Allocate, PacketTypeOK

LEMMA DeletedType ==
  ASSUME NEW p \in Packets, PacketTypeOK
  PROVE  Deleted(p) \in [Blocks -> Contents \cup {Free}]
BY DEF Deleted, PacketTypeOK

(* What serialise and the copy constructor read is a content.              *)
LEMMA BytesType ==
  ASSUME NEW q \in Packets, PacketTypeOK, ~IsEmpty(q)
  PROVE  Bytes(q) \in Contents \cup {Free}
BY DEF Bytes, PacketTypeOK, IsEmpty

(* PacketTypeOK is inductive by itself. *)
LEMMA TypeInit == Init => PacketTypeOK
BY DEF Init, PacketTypeOK

LEMMA TypeStep ==
  ASSUME PacketTypeOK, [Next]_packetVars
  PROVE  PacketTypeOK'
<1>1. ASSUME NEW p \in Packets, NEW c \in Contents, SetContent(p, c)
      PROVE  PacketTypeOK'
  <2>1. heap' \in [Blocks -> Contents \cup {Free}] /\ ptr' \in [Packets -> Blocks \cup {Null}]
    BY <1>1, AllocateTypes, DeletedType DEF SetContent, PacketTypeOK
  <2>2. size' \in [Packets -> {0} \cup {SizeOf[d] : d \in Contents}]
    BY <1>1 DEF SetContent, Sized, PacketTypeOK
  <2>3. live' \subseteq Packets /\ told' \in [Packets -> Contents]
        /\ emptied' \in BOOLEAN /\ broken' \in BOOLEAN
    BY <1>1 DEF SetContent, DeletesTwice, IsFree, PacketTypeOK
  <2>. QED BY <2>1, <2>2, <2>3 DEF PacketTypeOK
<1>2. ASSUME NEW p \in Packets, Construct(p)
      PROVE  PacketTypeOK'
  <2>1. PICK c \in Contents : told' = [told EXCEPT ![p] = c]
    BY <1>2 DEF Construct
  <2>. QED BY <1>2, <2>1 DEF Construct, PacketTypeOK
<1>3. ASSUME NEW p \in Packets, Destroy(p)
      PROVE  PacketTypeOK'
  BY <1>3, DeletedType DEF Destroy, DeletesTwice, IsFree, PacketTypeOK
<1>4. ASSUME NEW p \in Packets, NEW q \in Packets, CopyHeader(p, q)
      PROVE  PacketTypeOK'
  BY <1>4 DEF CopyHeader, PacketTypeOK
<1>5. ASSUME NEW p \in Packets, NEW q \in Packets, CopyConstruct(p, q)
      PROVE  PacketTypeOK'
  <2>1. heap' \in [Blocks -> Contents \cup {Free}] /\ ptr' \in [Packets -> Blocks \cup {Null}]
    BY <1>5, AllocateTypes, BytesType DEF CopyConstruct, PacketTypeOK
  <2>. QED BY <1>5, <2>1 DEF CopyConstruct, ReadsAmiss, IsFree, PacketTypeOK
<1>6. ASSUME NEW p \in Packets, NEW q \in Packets, FromSerial(p, q)
      PROVE  PacketTypeOK'
  <2>1. heap' \in [Blocks -> Contents \cup {Free}] /\ ptr' \in [Packets -> Blocks \cup {Null}]
    BY <1>6, AllocateTypes, BytesType DEF FromSerial, PacketTypeOK
  <2>. QED BY <1>6, <2>1 DEF FromSerial, ReadsAmiss, IsFree, PacketTypeOK
<1>7. CASE UNCHANGED packetVars
  BY <1>7 DEF packetVars, PacketTypeOK
<1>. QED BY <1>1, <1>2, <1>3, <1>4, <1>5, <1>6, <1>7 DEF Next

(* IInv is inductive.  A handler that reads a packet finds what it reads.  *)
LEMMA ReadsWell ==
  ASSUME IInv, ~emptied, NEW q \in live, ~IsEmpty(q)
  PROVE  /\ ~ReadsAmiss(q)
         /\ SizeOf[Bytes(q)] = size[q]
         /\ Bytes(q) = told[q]
<1>. q \in Packets
  BY DEF IInv, PacketTypeOK
<1>1. CASE size[q] # 0
  <2>1. ptr[q] # Null
    BY <1>1 DEF IsEmpty
  <2>2. ~IsFree(heap, ptr[q]) /\ heap[ptr[q]] = told[q] /\ size[q] = SizeOf[told[q]]
    BY <2>1 DEF IInv, Ownership, CarriesWhatItWasGiven
  <2>. QED BY <1>1, <2>2 DEF ReadsAmiss, Bytes
<1>2. CASE size[q] = 0
  <2>1. CASE ptr[q] # Null
    BY <1>2, <2>1 DEF IInv, CarriesWhatItWasGiven, ReadsAmiss, Bytes
  <2>2. CASE ptr[q] = Null
    BY <1>2, <2>2 DEF IInv, NothingWithoutBlock, ReadsAmiss, Bytes
  <2>. QED BY <2>1, <2>2
<1>. QED BY <1>1, <1>2

(* A packet that owns its block deletes it once, and it alone.             *)
LEMMA DeletesOwn ==
  ASSUME IInv, ~emptied, NEW p \in live
  PROVE  /\ ~DeletesTwice(p)
         /\ \A q \in live \ {p} : ptr[q] # Null =>
              /\ ~IsFree(Deleted(p), ptr[q])
              /\ Deleted(p)[ptr[q]] = heap[ptr[q]]
         /\ \A b \in Blocks : ~IsFree(Deleted(p), b) =>
              ~IsFree(heap, b) /\ ptr[p] # b
<1>. p \in Packets /\ live \subseteq Packets
  BY DEF IInv, PacketTypeOK
<1>1. ~DeletesTwice(p)
  BY DEF IInv, Ownership, DeletesTwice
<1>2. ASSUME NEW q \in live \ {p}, ptr[q] # Null
      PROVE  ~IsFree(Deleted(p), ptr[q]) /\ Deleted(p)[ptr[q]] = heap[ptr[q]]
  <2>1. ptr[q] # ptr[p] /\ ptr[q] \in Blocks /\ ~IsFree(heap, ptr[q])
    BY <1>2 DEF IInv, Ownership, PacketTypeOK
  <2>. QED BY <2>1 DEF Deleted, IsFree, IInv, PacketTypeOK
<1>3. ASSUME NEW b \in Blocks, ~IsFree(Deleted(p), b)
      PROVE  ~IsFree(heap, b) /\ ptr[p] # b
  <2>1. CASE ptr[p] = Null
    BY <1>3, <2>1, HeapAssumption DEF Deleted, IsFree
  <2>2. CASE ptr[p] # Null
    <3>1. Deleted(p) = [heap EXCEPT ![ptr[p]] = Free]
      BY <2>2 DEF Deleted
    <3>. QED BY <1>3, <2>2, <3>1 DEF IsFree, IInv, PacketTypeOK
  <2>. QED BY <2>1, <2>2
<1>. QED BY <1>1, <1>2, <1>3

(* The part of Ownership that speaks of blocks *)
Owned ==
  /\ \A p \in live : ptr[p] # Null => ~IsFree(heap, ptr[p])
  /\ \A b \in Blocks : ~IsFree(heap, b) => \E p \in live : ptr[p] = b
  /\ \A p, q \in live : ptr[p] = ptr[q] /\ ptr[p] # Null => p = q

(* A packet that allocates in a heap without a block of its own owns what  *)
(* it got, and the others keep what they had.                              *)
LEMMA AllocatesOwn ==
  ASSUME IInv, ~emptied, NEW p \in Packets, NEW content \in Contents,
         NEW h \in [Blocks -> Contents \cup {Free}], Allocate(p, h, content),
         live' = live \cup {p},
         \A q \in live \ {p} : ptr[q] # Null => ~IsFree(h, ptr[q]) /\ h[ptr[q]] = heap[ptr[q]],
         \A b \in Blocks : ~IsFree(h, b) => ~IsFree(heap, b) /\ (p \in live => ptr[p] # b)
  PROVE  /\ Owned'
         /\ ptr'[p] # Null /\ heap'[ptr'[p]] = content
         /\ \A q \in live \ {p} :
              ptr'[q] = ptr[q] /\ (ptr[q] # Null => heap'[ptr[q]] = heap[ptr[q]])
<1>1. PICK b \in Blocks : /\ IsFree(h, b)
                          /\ heap' = [h EXCEPT ![b] = content]
                          /\ ptr' = [ptr EXCEPT ![p] = b]
  BY DEF Allocate
<1>. b # Null /\ content # Free
  BY HeapAssumption
<1>2. ptr'[p] = b /\ heap'[b] = content
  BY <1>1 DEF IInv, PacketTypeOK
<1>3. ASSUME NEW q \in live \ {p}
      PROVE  /\ ptr'[q] = ptr[q]
             /\ ptr[q] # Null => /\ heap'[ptr[q]] = heap[ptr[q]]
                                 /\ ptr[q] # b
                                 /\ ~IsFree(heap', ptr[q])
  <2>1. q \in Packets /\ ptr[q] \in Blocks \cup {Null}
    BY DEF IInv, PacketTypeOK
  <2>2. ptr'[q] = ptr[q]
    BY <1>1, <2>1 DEF IInv, PacketTypeOK
  <2>3. ASSUME ptr[q] # Null
        PROVE  heap'[ptr[q]] = heap[ptr[q]] /\ ptr[q] # b /\ ~IsFree(heap', ptr[q])
    <3>1. ptr[q] \in Blocks /\ ~IsFree(h, ptr[q]) /\ h[ptr[q]] = heap[ptr[q]]
      BY <2>1, <2>3
    <3>2. ptr[q] # b
      BY <1>1, <3>1
    <3>. QED BY <1>1, <3>1, <3>2 DEF IsFree
  <2>. QED BY <2>2, <2>3
<1>4. ASSUME NEW c \in Blocks, ~IsFree(heap', c)
      PROVE  \E q \in live' : ptr'[q] = c
  <2>1. CASE c = b
    BY <1>2, <2>1
  <2>2. CASE c # b
    <3>1. ~IsFree(h, c)
      BY <1>1, <1>4, <2>2 DEF IsFree
    <3>2. ~IsFree(heap, c) /\ (p \in live => ptr[p] # c)
      BY <3>1
    <3>3. PICK q \in live : ptr[q] = c
      BY <3>2 DEF IInv, Ownership
    <3>. QED BY <1>3, <3>2, <3>3
  <2>. QED BY <2>1, <2>2
<1>5. \A q \in live' : ptr'[q] # Null => ~IsFree(heap', ptr'[q])
  BY <1>2, <1>3 DEF IsFree
<1>6. ASSUME NEW q \in live', NEW r \in live', ptr'[q] = ptr'[r], ptr'[q] # Null
      PROVE  q = r
  BY <1>2, <1>3, <1>6 DEF IInv, Ownership
<1>. QED BY <1>2, <1>3, <1>4, <1>5, <1>6 DEF Owned

(* What IInv comes to while no packet was emptied, types apart.            *)
Sound ==
  /\ ~broken
  /\ Owned
  /\ \A p \in live : ptr[p] # Null => heap[ptr[p]] = told[p] /\ size[p] = SizeOf[told[p]]
  /\ \A p \in live : ptr[p] = Null => SizeOf[told[p]] = 0

LEMMA SoundIsEnough == (~emptied => Sound) <=> Ownership /\ CarriesWhatItWasGiven /\ NothingWithoutBlock
BY DEF Sound, Owned, Ownership, CarriesWhatItWasGiven, NothingWithoutBlock

(* A packet has the size of what it is told, in a block of its own.        *)
LEMMA AllocateSound ==
  ASSUME IInv, ~emptied, NEW p \in Packets, NEW content \in Contents,
         NEW h \in [Blocks -> Contents \cup {Free}], Allocate(p, h, content),
         live' = live \cup {p},
         \A q \in live \ {p} : ptr[q] # Null => ~IsFree(h, ptr[q]) /\ h[ptr[q]] = heap[ptr[q]],
         \A b \in Blocks : ~IsFree(h, b) => ~IsFree(heap, b) /\ (p \in live => ptr[p] # b),
         told' = [told EXCEPT ![p] = content], size' = [size EXCEPT ![p] = SizeOf[content]],
         ~broken'
  PROVE  Sound'
<1>1. /\ Owned'
      /\ ptr'[p] # Null /\ heap'[ptr'[p]] = content
      /\ \A q \in live \ {p} :
           ptr'[q] = ptr[q] /\ (ptr[q] # Null => heap'[ptr[q]] = heap[ptr[q]])
  BY AllocatesOwn
<1>2. told'[p] = content /\ size'[p] = SizeOf[content]
  BY DEF IInv, PacketTypeOK
<1>3. \A q \in live \ {p} : told'[q] = told[q] /\ size'[q] = size[q]
  BY DEF IInv, PacketTypeOK
<1>. QED BY <1>1, <1>2, <1>3 DEF Sound, IInv, CarriesWhatItWasGiven, NothingWithoutBlock

LEMMA SetContentSound ==
  ASSUME IInv, NEW p \in Packets, NEW c \in Contents, SetContent(p, c), ~emptied'
  PROVE  Sound'
<1>. p \in live /\ ~emptied /\ live' = live \cup {p} /\ broken' = DeletesTwice(p)
  BY DEF SetContent
<1>. told' = [told EXCEPT ![p] = c] /\ size' = [size EXCEPT ![p] = SizeOf[c]]
  BY DEF SetContent, Sized
<1>. ~broken'
  BY DeletesOwn
<1>1. CASE SizeOf[c] = 0
  <2>1. ptr[p] = Null /\ heap' = heap /\ ptr' = ptr
    BY <1>1 DEF SetContent, Deleted
  <2>2. told'[p] = c /\ \A q \in live \ {p} : told'[q] = told[q] /\ size'[q] = size[q]
    BY DEF IInv, PacketTypeOK
  <2>3. Owned'
    BY <2>1 DEF IInv, Ownership, Owned, IsFree
  <2>. QED BY <1>1, <2>1, <2>2, <2>3 DEF Sound, IInv, CarriesWhatItWasGiven, NothingWithoutBlock
<1>2. CASE SizeOf[c] # 0
  <2>1. Allocate(p, Deleted(p), c)
    BY <1>2 DEF SetContent
  <2>2. Deleted(p) \in [Blocks -> Contents \cup {Free}]
    BY DeletedType DEF IInv
  <2>3. \A q \in live \ {p} : ptr[q] # Null =>
          ~IsFree(Deleted(p), ptr[q]) /\ Deleted(p)[ptr[q]] = heap[ptr[q]]
    BY DeletesOwn
  <2>4. \A b \in Blocks : ~IsFree(Deleted(p), b) => ~IsFree(heap, b) /\ (p \in live => ptr[p] # b)
    BY DeletesOwn
  <2>. QED BY <2>1, <2>2, <2>3, <2>4, AllocateSound
<1>. QED BY <1>1, <1>2

LEMMA ConstructSound ==
  ASSUME IInv, NEW p \in Packets, Construct(p), ~emptied'
  PROVE  Sound'
<1>1. PICK c \in Contents : SizeOf[c] = 0 /\ told' = [told EXCEPT ![p] = c]
  BY DEF Construct
<1>2. ~emptied /\ ~broken /\ ~broken' /\ heap' = heap
  BY DEF Construct
<1>3. ptr'[p] = Null /\ told'[p] = c
  BY <1>1 DEF Construct, IInv, PacketTypeOK
<1>4. live' = live \cup {p} /\ p \notin live
  BY DEF Construct
<1>5. \A q \in live : ptr'[q] = ptr[q] /\ told'[q] = told[q] /\ size'[q] = size[q]
  BY <1>1, <1>4 DEF Construct, IInv, PacketTypeOK
<1>6. Owned'
  BY <1>2, <1>3, <1>4, <1>5 DEF Owned, IInv, Ownership, IsFree
<1>. QED BY <1>1, <1>2, <1>3, <1>4, <1>5, <1>6
         DEF Sound, IInv, CarriesWhatItWasGiven, NothingWithoutBlock

LEMMA DestroySound ==
  ASSUME IInv, NEW p \in Packets, Destroy(p), ~emptied'
  PROVE  Sound'
<1>. /\ p \in live /\ ~emptied /\ live' = live \ {p} /\ heap' = Deleted(p)
     /\ UNCHANGED <<size, ptr, told>>
  BY DEF Destroy
<1>1. ~broken'
  BY DeletesOwn DEF Destroy
<1>2. \A q \in live' : ptr[q] # Null => ~IsFree(heap', ptr[q]) /\ heap'[ptr[q]] = heap[ptr[q]]
  BY DeletesOwn
<1>3. \A b \in Blocks : ~IsFree(heap', b) => ~IsFree(heap, b) /\ ptr[p] # b
  BY DeletesOwn
<1>4. \A b \in Blocks : ~IsFree(heap', b) => \E q \in live' : ptr'[q] = b
  BY <1>3 DEF IInv, Ownership
<1>5. Owned'
  BY <1>2, <1>4 DEF Owned, IInv, Ownership, IsFree
<1>. QED BY <1>1, <1>2, <1>5 DEF Sound, IInv, CarriesWhatItWasGiven, NothingWithoutBlock

LEMMA CopyHeaderSound ==
  ASSUME IInv, NEW p \in Packets, NEW q \in Packets, CopyHeader(p, q), ~emptied'
  PROVE  Sound'
<1>1. UNCHANGED <<live, ptr, heap, told, emptied, broken>> /\ ptr[p] = Null
  BY DEF CopyHeader
<1>2. \A r \in live \ {p} : size'[r] = size[r]
  BY DEF CopyHeader, IInv, PacketTypeOK
<1>3. Owned' /\ ~broken'
  BY <1>1 DEF Owned, IInv, Ownership, IsFree
<1>. QED BY <1>1, <1>2, <1>3 DEF Sound, IInv, CarriesWhatItWasGiven, NothingWithoutBlock

(* A new packet is made of one that is read: by a copy or by its bytes.    *)
LEMMA CopyConstructSound ==
  ASSUME IInv, NEW p \in Packets, NEW q \in Packets, CopyConstruct(p, q), ~emptied'
  PROVE  Sound'
<1>. p \notin live /\ q \in live /\ ~IsEmpty(q) /\ ~emptied /\ live' = live \cup {p}
  BY DEF CopyConstruct
<1>1. ~ReadsAmiss(q) /\ SizeOf[Bytes(q)] = size[q] /\ Bytes(q) = told[q]
  BY ReadsWell
<1>2. /\ Allocate(p, heap, Bytes(q)) /\ ~broken'
      /\ told' = [told EXCEPT ![p] = Bytes(q)] /\ size' = [size EXCEPT ![p] = SizeOf[Bytes(q)]]
  BY <1>1 DEF CopyConstruct
<1>3. Bytes(q) \in Contents /\ heap \in [Blocks -> Contents \cup {Free}]
  BY <1>1 DEF IInv, PacketTypeOK
<1>4. \A r \in live \ {p} : ptr[r] # Null => ~IsFree(heap, ptr[r])
  BY DEF IInv, Ownership
<1>. QED BY <1>2, <1>3, <1>4, AllocateSound

LEMMA FromSerialSound ==
  ASSUME IInv, NEW p \in Packets, NEW q \in Packets, FromSerial(p, q), ~emptied'
  PROVE  Sound'
<1>. p \notin live /\ q \in live /\ ~IsEmpty(q) /\ ~emptied /\ live' = live \cup {p}
  BY DEF FromSerial
<1>1. ~ReadsAmiss(q) /\ SizeOf[Bytes(q)] = size[q] /\ Bytes(q) = told[q]
  BY ReadsWell
<1>2. /\ ~broken'
      /\ told' = [told EXCEPT ![p] = Bytes(q)] /\ size' = [size EXCEPT ![p] = SizeOf[Bytes(q)]]
  BY <1>1 DEF FromSerial
<1>3. Bytes(q) \in Contents /\ heap \in [Blocks -> Contents \cup {Free}]
  BY <1>1 DEF IInv, PacketTypeOK
<1>4. \A r \in live \ {p} : ptr[r] # Null => ~IsFree(heap, ptr[r])
  BY DEF IInv, Ownership
<1>5. CASE size[q] # 0
  <2>1. Allocate(p, heap, Bytes(q))
    BY <1>1, <1>5 DEF FromSerial
  <2>. QED BY <1>2, <1>3, <1>4, <2>1, AllocateSound
<1>6. CASE size[q] = 0
  <2>1. ptr'[p] = Null /\ heap' = heap /\ told'[p] = Bytes(q)
    BY <1>2, <1>6 DEF FromSerial, IInv, PacketTypeOK
  <2>2. \A r \in live : ptr'[r] = ptr[r] /\ told'[r] = told[r] /\ size'[r] = size[r]
    BY <1>2, <1>6 DEF FromSerial, IInv, PacketTypeOK
  <2>3. Owned'
    BY <2>1, <2>2 DEF Owned, IInv, Ownership, IsFree
  <2>. QED BY <1>1, <1>2, <1>6, <2>1, <2>2, <2>3
           DEF Sound, IInv, CarriesWhatItWasGiven, NothingWithoutBlock
<1>. QED BY <1>5, <1>6

LEMMA InvInit == Init => IInv
BY TypeInit DEF Init, IInv, IsFree, Ownership, CarriesWhatItWasGiven, NothingWithoutBlock

LEMMA InvStep ==
  ASSUME IInv, [Next]_packetVars
  PROVE  IInv'
<1>1. PacketTypeOK'
  BY TypeStep DEF IInv
<1>2. ASSUME ~emptied', Next
      PROVE  Sound'
  <2>1. CASE \E p \in Packets, c \in Contents : SetContent(p, c)
    BY <1>2, <2>1, SetContentSound
  <2>2. CASE \E p \in Packets : Construct(p) \/ Destroy(p)
    BY <1>2, <2>2, ConstructSound, DestroySound
  <2>3. CASE \E p, q \in Packets : CopyHeader(p, q) \/ CopyConstruct(p, q) \/ FromSerial(p, q)
    BY <1>2, <2>3, CopyHeaderSound, CopyConstructSound, FromSerialSound
  <2>. QED BY <1>2, <2>1, <2>2, <2>3 DEF Next
<1>3. CASE Next
  BY <1>1, <1>2, <1>3 DEF IInv, Sound, Owned, Ownership, CarriesWhatItWasGiven, NothingWithoutBlock
<1>4. CASE UNCHANGED packetVars
  BY <1>4 DEF packetVars, IInv, PacketTypeOK, Ownership, CarriesWhatItWasGiven,
              NothingWithoutBlock, IsFree
<1>. QED BY <1>3, <1>4

LEMMA Invariance == Spec => []IInv
BY InvInit, InvStep, PTL DEF Spec

(* Packets keep their types, and headers sizes of contents, in any heap.   *)
THEOREM TypeCorrect == Spec => []PacketTypeOK
BY Invariance, PTL DEF IInv

(* No block is leaked, deleted twice or read when it is gone by any number *)
(* of packets in any sequence of constructions, copies, new contents and   *)
(* destructions, unless a packet that has a content is emptied             *)
(* (dvsp_packet.cpp:11-31, dvsp_packet.hpp:81-90).                         *)
THEOREM BlocksOwned == Spec => []Ownership
BY Invariance, PTL DEF IInv

(* A packet carries what it or the packet it was made of was given, with   *)
(* the size in its header (dvsp_packet.cpp:11-16, 60-80).                  *)
THEOREM ContentCarried == Spec => []CarriesWhatItWasGiven
BY Invariance, PTL DEF IInv

================================================================================
