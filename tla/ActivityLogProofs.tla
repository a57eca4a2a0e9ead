--------------------------- MODULE ActivityLogProofs ---------------------------
(***************************************************************************)
(* Proofs about ActivityLog and LogWire: the types, the discipline of the  *)
(* locks, the chain of the records, that each log is an append-only log,   *)
(* the honesty of the headers, and segments on the wire.                   *)
(***************************************************************************)
EXTENDS LogWire, SequenceLemmas

(* What a step of the model needs of sequences of records *)
LEMMA TipType ==
  ASSUME NEW records \in Seq(Record)
  PROVE  Tip(records) \in Seq(Contents)
BY DEF Tip, Last, Record

LEMMA SaltedType ==
  ASSUME NEW records \in Seq(Record), NEW c \in Contents
  PROVE  Salted(records, c) \in Record
<1>1. Tip(records) \in Seq(Contents)
  BY TipType
<1>2. Append(Tip(records), c) \in Seq(Contents) /\ Append(Tip(records), c) # <<>>
  BY <1>1
<1> QED  BY <1>2 DEF Salted, Record

LEMMA SegmentType ==
  ASSUME NEW S, NEW seq \in Seq(S), NEW i \in DOMAIN seq
  PROVE  SubSeq(seq, i + 1, Len(seq)) \in Seq(S)
BY SubSeqProperties

LEMMA HandOverType ==
  ASSUME NEW handles \in [Slots -> Transaction], NEW from \in Slots, NEW to \in Slots, NEW l \in Logs
  PROVE  HandOver(handles, from, to, l) \in [Slots -> Transaction]
<1>1. [state |-> "valid", base |-> l] \in Transaction
  BY DEF Transaction
<1>2. Emptied(handles[from]) \in Transaction
  BY DEF Emptied, Transaction
<1> QED  BY <1>1, <1>2 DEF HandOver

LEMMA CountType ==
  ASSUME NEW h \in [num : Nat, hash : Hash]
  PROVE  [h EXCEPT !.num = @ + 1] \in [num : Nat, hash : Hash]
OBVIOUS

(* Every call of a thread in the middle of one has its log and its slot. *)
LEMMA CallTypes ==
  ASSUME TypeOK, NEW t \in Threads
  PROVE  /\ pc[t].at \in {"locking", "locked", "unlocking", "record"} => pc[t] \in Call
         /\ pc[t].at = "segment" => pc[t] \in SegmentCall
BY DEF TypeOK, Idle, Call, SegmentCall

LEMMA CallPlaces ==
  ASSUME TypeOK
  PROVE  \A t \in Threads : pc[t].at # "idle" => pc[t].slot \in Slots /\ pc[t].log \in Logs
BY DEF TypeOK, Idle, Call, SegmentCall

(* Every variable of the log keeps its type (log_transaction.cpp). *)
THEOREM TypeCorrect == Spec => []TypeOK
<1>1. Init => TypeOK
  <2> SUFFICES ASSUME Init PROVE TypeOK
    OBVIOUS
  <2>1. (CHOOSE l \in Logs : TRUE) \in Logs
    BY LogsAssumption
  <2>2. <<>> \in Seq(Record) /\ ZeroHash \in Hash
    BY DEF ZeroHash, Hash
  <2> QED  BY <2>1, <2>2, BoundAssumption DEF Init, TypeOK, NoTrans, Transaction
<1>2. TypeOK /\ [Next]_vars => TypeOK'
  <2> SUFFICES ASSUME TypeOK, [Next]_vars PROVE TypeOK'
    OBVIOUS
  <2> USE DEF TypeOK
  <2>1. ASSUME NEW t \in Threads, NEW s \in Slots, NEW l \in Logs, BeginTransaction(t, s, l)
        PROVE  TypeOK'
    BY <2>1 DEF BeginTransaction, Call
  <2>2. ASSUME NEW t \in Threads, LockMutex(t) PROVE TypeOK'
    BY <2>2, CallTypes DEF LockMutex, Call
  <2>3. ASSUME NEW t \in Threads, SetTransacting(t) PROVE TypeOK'
    BY <2>3, CallTypes DEF SetTransacting, Call, Transaction
  <2>4. ASSUME NEW t \in Threads, NEW s \in Slots, Destroy(t, s) PROVE TypeOK'
    <3>1. Base(t, s) \in Logs
      BY DEF Base, Transaction
    <3>2. trans' \in [Threads -> [Slots -> Transaction]]
      BY <2>4, <3>1 DEF Destroy, NoTrans, Transaction
    <3>3. CASE Valid(t, s)
      <4>1. transacting' \in [Logs -> BOOLEAN]
        BY <2>4, <3>1, <3>3 DEF Destroy
      <4>2. pc' \in [Threads -> {Idle} \cup Call \cup SegmentCall]
        <5> DEFINE call == [at |-> "unlocking", slot |-> s, log |-> Base(t, s)]
        <5>1. call \in Call
          BY <3>1 DEF Call
        <5>2. pc' = [pc EXCEPT ![t] = call]
          BY <2>4, <3>3 DEF Destroy
        <5> HIDE DEF call
        <5> QED  BY <5>1, <5>2
      <4> QED  BY <2>4, <3>2, <4>1, <4>2 DEF Destroy
    <3>4. CASE ~Valid(t, s)
      BY <2>4, <3>2, <3>4 DEF Destroy
    <3> QED  BY <3>3, <3>4
  <2>5. ASSUME NEW t \in Threads, UnlockMutex(t) PROVE TypeOK'
    BY <2>5, CallTypes DEF UnlockMutex, Call
  <2>6. ASSUME NEW t \in Threads, NEW from \in Slots, NEW to \in Slots, MoveConstruct(t, from, to)
        PROVE  TypeOK'
    <3>1. Base(t, from) \in Logs
      BY DEF Base, Transaction
    <3>2. trans' \in [Threads -> [Slots -> Transaction]]
      BY <2>6, <3>1, HandOverType DEF MoveConstruct
    <3> QED  BY <2>6, <3>2 DEF MoveConstruct
  <2>7. ASSUME NEW t \in Threads, NEW from \in Slots, NEW to \in Slots, MoveAssign(t, from, to)
        PROVE  TypeOK'
    <3>1. Base(t, from) \in Logs /\ Base(t, to) \in Logs
      BY DEF Base, Transaction
    <3>2. log' \in [Logs -> Seq(Record)] /\ header' \in [Logs -> [num : Nat, hash : Hash]]
      BY <2>7, <3>1 DEF MoveAssign
    <3>3. trans' \in [Threads -> [Slots -> Transaction]]
      BY <2>7, <3>1, HandOverType DEF MoveAssign
    <3> QED  BY <2>7, <3>2, <3>3 DEF MoveAssign
  <2>8. ASSUME NEW t \in Threads, NEW s \in Slots, NEW c \in Contents, GenerateRecord(t, s, c)
        PROVE  TypeOK'
    <3>1. Base(t, s) \in Logs
      BY DEF Base, Transaction
    <3>2. <<Salted(log[Base(t, s)], c)>> \in Seq(Record)
      BY <3>1, SaltedType
    <3> QED  BY <2>8, <3>2 DEF GenerateRecord
  <2>9. ASSUME NEW t \in Threads, NEW s \in Slots, NEW i \in DOMAIN log[Base(t, s)], SegmentFrom(t, s, i)
        PROVE  TypeOK'
    <3>1. Base(t, s) \in Logs
      BY DEF Base, Transaction
    <3>2. SubSeq(log[Base(t, s)], i + 1, Len(log[Base(t, s)])) \in Seq(Record)
      BY <3>1, SegmentType
    <3> QED  BY <2>9, <3>2 DEF SegmentFrom
  <2>10. ASSUME NEW t \in Threads, NEW s \in Slots, WriteRecord(t, s) PROVE TypeOK'
    <3>1. Base(t, s) \in Logs
      BY DEF Base, Transaction
    <3>2. Head(draft[t]) \in Record
      <4>1. draft[t] \in Seq(Record) /\ Len(draft[t]) = 1
        BY <2>10 DEF WriteRecord
      <4> HIDE DEF TypeOK
      <4> QED  BY <4>1
    <3> QED  BY <2>10, <3>1, <3>2 DEF WriteRecord, Call
  <2>11. ASSUME NEW t \in Threads, FinishRecord(t) PROVE TypeOK'
    <3>1. pc[t].log \in Logs
      BY <2>11, CallTypes DEF FinishRecord, Call
    <3>2. [num |-> header[pc[t].log].num + 1, hash |-> LogHash(log[pc[t].log])] \in [num : Nat, hash : Hash]
      BY <3>1 DEF LogHash, Hash
    <3> QED  BY <2>11, <3>1, <3>2 DEF FinishRecord
  <2>12. ASSUME NEW t \in Threads, NEW s \in Slots, WriteSegment(t, s) PROVE TypeOK'
    <3>1. Base(t, s) \in Logs
      BY DEF Base, Transaction
    <3> QED  BY <2>12, <3>1 DEF WriteSegment, SegmentCall
  <2>13. ASSUME NEW t \in Threads, PushNext(t) PROVE TypeOK'
    <3>1. pc[t] \in SegmentCall /\ pc[t].todo # <<>>
      BY <2>13, CallTypes DEF PushNext
    <3>2. Head(pc[t].todo) \in Record /\ Tail(pc[t].todo) \in Seq(Record)
      BY <3>1 DEF SegmentCall
    <3>3. log' \in [Logs -> Seq(Record)]
      BY <2>13, <3>1, <3>2 DEF PushNext, SegmentCall
    <3>4. header' \in [Logs -> [num : Nat, hash : Hash]]
      <4>1. pc[t].log \in Logs
        BY <3>1 DEF SegmentCall
      <4>2. [header[pc[t].log] EXCEPT !.num = @ + 1] \in [num : Nat, hash : Hash]
        BY <4>1, CountType
      <4> QED  BY <2>13, <4>1, <4>2 DEF PushNext
    <3>5. pc' \in [Threads -> {Idle} \cup Call \cup SegmentCall]
      <4>1. [pc[t] EXCEPT !.todo = Tail(@)] \in SegmentCall
        BY <3>1, <3>2 DEF SegmentCall
      <4> QED  BY <2>13, <4>1 DEF PushNext
    <3> QED  BY <2>13, <3>3, <3>4, <3>5 DEF PushNext
  <2>14. ASSUME NEW t \in Threads, FinishSegment(t) PROVE TypeOK'
    <3>1. pc[t].log \in Logs
      BY <2>14, CallTypes DEF FinishSegment, SegmentCall
    <3>2. LogHash(log[pc[t].log]) \in Hash
      BY <3>1 DEF LogHash, Hash
    <3> QED  BY <2>14, <3>1, <3>2 DEF FinishSegment
  <2>15. ASSUME NEW t \in Threads, FailAllocation(t) PROVE TypeOK'
    BY <2>15, BoundAssumption DEF FailAllocation
  <2>16. CASE UNCHANGED vars
    BY <2>16 DEF vars
  <2> QED
    BY <2>1, <2>2, <2>3, <2>4, <2>5, <2>6, <2>7, <2>8, <2>9, <2>10, <2>11, <2>12, <2>13, <2>14,
       <2>15, <2>16 DEF Next, Step
<1> QED  BY <1>1, <1>2, PTL DEF Spec

--------------------------------------------------------------------------------
(* OneTransaction is not inductive: what a thread between two steps of a   *)
(* call may rely on has to be said too.                                    *)

(* A thread that is getting a transaction has no other one in its variable. *)
SlotFree ==
  \A t \in Threads :
    pc[t].at \in {"locking", "locked"} => trans[t][pc[t].slot].state = "none"

(* A thread on its way into or out of a log has no transaction on it. *)
Apart ==
  \A t \in Threads, l \in Logs : Passing(t, l) => \A s \in Slots : ~Live(t, s, l)

(* A thread that is writing has the transaction it writes through. *)
WritersHold ==
  \A t \in Threads :
    pc[t].at \in {"record", "segment"} => Live(t, pc[t].slot, pc[t].log)

(* The flag is up as long as there is a transaction. *)
FlagExact ==
  \A l \in Logs : transacting[l] <=> \E t \in Threads, s \in Slots : Live(t, s, l)

LockInv == OneTransaction /\ SlotFree /\ Apart /\ WritersHold /\ FlagExact

LEMMA LockInit ==
  ASSUME Init
  PROVE  LockInv
<1>1. \A t \in Threads, s \in Slots, l \in Logs : ~Live(t, s, l)
  BY DEF Init, Live, Valid, NoTrans
<1>2. \A l \in Logs : mutex[l] = Nobody /\ ~transacting[l]
  BY DEF Init
<1>3. \A t \in Threads : pc[t].at = "idle"
  BY DEF Init, Idle
<1>4. \A t \in Threads, l \in Logs : ~Passing(t, l)
  BY <1>3 DEF Passing
<1>5. OneTransaction
  <2>1. \A l \in Logs, t \in Threads : mutex[l] # t
    BY <1>2, NobodyAssumption
  <2> QED  BY <1>1, <1>4, <2>1, Zenon DEF OneTransaction
<1>6. SlotFree /\ WritersHold
  BY <1>3 DEF SlotFree, WritersHold
<1>7. Apart /\ FlagExact
  BY <1>1, <1>2, <1>4 DEF Apart, FlagExact
<1> QED  BY <1>5, <1>6, <1>7 DEF LockInv

(* A step that neither locks nor hands over: only the stage of a thread    *)
(* outside of begin and end may change.                                    *)
LEMMA QuietStep ==
  ASSUME TypeOK, LockInv, UNCHANGED <<mutex, transacting, trans>>, NEW t \in Threads,
         pc[t].at \notin {"locked", "unlocking"}, pc'[t].at \notin {"locked", "unlocking"},
         \A u \in Threads \ {t} : pc'[u] = pc[u],
         pc'[t].at = "locking" => trans[t][pc'[t].slot].state = "none",
         pc'[t].at \in {"record", "segment"} => Live(t, pc'[t].slot, pc'[t].log)
  PROVE  LockInv'
<1>1. \A u \in Threads, l \in Logs : Passing(u, l)' <=> Passing(u, l)
  BY DEF Passing
<1>2. \A u \in Threads, s \in Slots, l \in Logs : Live(u, s, l)' <=> Live(u, s, l)
  BY DEF Live, Valid, Base
<1>3. OneTransaction'
  BY <1>1, <1>2 DEF OneTransaction, LockInv
<1>4. SlotFree'
  BY DEF SlotFree, LockInv
<1>5. Apart'
  BY <1>1, <1>2 DEF Apart, LockInv
<1>6. WritersHold'
  BY <1>2 DEF WritersHold, LockInv, Live, Valid, Base
<1>7. FlagExact'
  BY <1>2 DEF FlagExact, LockInv
<1> QED  BY <1>3, <1>4, <1>5, <1>6, <1>7 DEF LockInv

(* Locking and unlocking do what they say. *)
LEMMA LockMutexStep ==
  ASSUME TypeOK, LockInv, NEW t \in Threads, LockMutex(t)
  PROVE  LockInv'
<1> DEFINE k == pc[t].log
<1>1. k \in Logs /\ pc[t].slot \in Slots /\ pc[t] \in Call
  BY CallTypes DEF LockMutex, Call
<1>2. mutex[k] = Nobody /\ mutex' = [mutex EXCEPT ![k] = t] /\ UNCHANGED <<transacting, trans>>
  BY DEF LockMutex, CanLock
<1>3. pc'[t].at = "locked" /\ pc'[t].log = k /\ pc'[t].slot = pc[t].slot /\ \A u \in Threads \ {t} : pc'[u] = pc[u]
  BY <1>1 DEF LockMutex, TypeOK, Call
<1>4. \A u \in Threads, l \in Logs : Passing(u, l)' <=> Passing(u, l) \/ (u = t /\ l = k)
  BY <1>3 DEF Passing, LockMutex
<1>5. \A u \in Threads, s \in Slots, l \in Logs : Live(u, s, l)' <=> Live(u, s, l)
  BY <1>2 DEF Live, Valid, Base
<1>6. \A u \in Threads, s \in Slots : ~Live(u, s, k) /\ ~Passing(u, k)
  BY <1>1, <1>2, NobodyAssumption DEF LockInv, OneTransaction
<1>7. \A l \in Logs : mutex'[l] = IF l = k THEN t ELSE mutex[l]
  BY <1>1, <1>2 DEF TypeOK
<1> HIDE DEF k
<1>8. OneTransaction'
  BY <1>1, <1>2, <1>4, <1>5, <1>6, <1>7, NobodyAssumption DEF OneTransaction, LockInv
<1>9. SlotFree'
  BY <1>2, <1>3 DEF SlotFree, LockInv, LockMutex
<1>10. Apart'
  BY <1>4, <1>5, <1>6 DEF Apart, LockInv
<1>11. WritersHold'
  BY <1>3, <1>2 DEF WritersHold, LockInv, Live, Valid, Base
<1>12. FlagExact'
  BY <1>2, <1>5 DEF FlagExact, LockInv
<1> QED  BY <1>8, <1>9, <1>10, <1>11, <1>12 DEF LockInv

LEMMA UnlockMutexStep ==
  ASSUME TypeOK, LockInv, NEW t \in Threads, UnlockMutex(t)
  PROVE  LockInv'
<1> DEFINE k == pc[t].log
<1>1. k \in Logs /\ Passing(t, k)
  BY CallTypes DEF UnlockMutex, Call, Passing
<1>2. mutex' = [mutex EXCEPT ![k] = Nobody] /\ UNCHANGED <<transacting, trans>>
  BY DEF UnlockMutex
<1>3. pc'[t].at = "idle" /\ \A u \in Threads \ {t} : pc'[u] = pc[u]
  BY DEF UnlockMutex, TypeOK, Idle
<1>4. \A u \in Threads, l \in Logs : Passing(u, l)' <=> Passing(u, l) /\ u # t
  BY <1>3 DEF Passing
<1>5. \A u \in Threads, s \in Slots, l \in Logs : Live(u, s, l)' <=> Live(u, s, l)
  BY <1>2 DEF Live, Valid, Base
<1>6. \A l \in Logs : Passing(t, l) <=> l = k
  BY <1>1 DEF Passing
<1>7. mutex[k] = t /\ \A u \in Threads, s \in Slots : ~Live(u, s, k) /\ (Passing(u, k) => u = t)
  BY <1>1 DEF LockInv, OneTransaction, Apart
<1>8. \A l \in Logs : mutex'[l] = IF l = k THEN Nobody ELSE mutex[l]
  BY <1>1, <1>2 DEF TypeOK
<1> HIDE DEF k
<1>9. OneTransaction'
  BY <1>1, <1>4, <1>5, <1>6, <1>7, <1>8, NobodyAssumption DEF OneTransaction, LockInv
<1>10. SlotFree'
  BY <1>2, <1>3 DEF SlotFree, LockInv
<1>11. Apart'
  BY <1>4, <1>5 DEF Apart, LockInv
<1>12. WritersHold'
  BY <1>2, <1>3 DEF WritersHold, LockInv, Live, Valid, Base
<1>13. FlagExact'
  BY <1>2, <1>5 DEF FlagExact, LockInv
<1> QED  BY <1>9, <1>10, <1>11, <1>12, <1>13 DEF LockInv

LEMMA SetTransactingStep ==
  ASSUME TypeOK, LockInv, NEW t \in Threads, SetTransacting(t)
  PROVE  LockInv'
<1> DEFINE k == pc[t].log
           r == pc[t].slot
<1>1. k \in Logs /\ r \in Slots /\ Passing(t, k)
  BY CallTypes DEF SetTransacting, Call, Passing
<1>2. /\ mutex' = mutex
      /\ transacting' = [transacting EXCEPT ![k] = TRUE]
      /\ trans' = [trans EXCEPT ![t][r] = [state |-> "valid", base |-> k]]
  BY DEF SetTransacting
<1>3. pc'[t].at = "idle" /\ \A u \in Threads \ {t} : pc'[u] = pc[u]
  BY DEF SetTransacting, TypeOK, Idle
<1>4. \A u \in Threads, l \in Logs : Passing(u, l)' <=> Passing(u, l) /\ u # t
  BY <1>3 DEF Passing
<1>5. trans[t][r].state = "none"
  BY DEF SetTransacting, LockInv, SlotFree
<1>6. \A u \in Threads, s \in Slots :
        trans'[u][s] = IF u = t /\ s = r THEN [state |-> "valid", base |-> k] ELSE trans[u][s]
  BY <1>1, <1>2 DEF TypeOK
<1>7. \A u \in Threads, s \in Slots, l \in Logs :
        Live(u, s, l)' <=> Live(u, s, l) \/ (u = t /\ s = r /\ l = k)
  BY <1>5, <1>6 DEF Live, Valid, Base
<1>8. mutex[k] = t /\ \A u \in Threads, s \in Slots : ~Live(u, s, k) /\ (Passing(u, k) => u = t)
  BY <1>1 DEF LockInv, OneTransaction, Apart
<1>9. \A l \in Logs : Passing(t, l) <=> l = k
  BY <1>1 DEF Passing
<1>10. \A l \in Logs : transacting'[l] <=> l = k \/ transacting[l]
  BY <1>1, <1>2 DEF TypeOK
<1> HIDE DEF k, r
<1>11. OneTransaction'
  BY <1>1, <1>2, <1>4, <1>7, <1>8, <1>9 DEF OneTransaction, LockInv
<1>12. SlotFree'
  BY <1>3, <1>6, CallPlaces DEF SlotFree, LockInv
<1>13. Apart'
  BY <1>4, <1>7, <1>8 DEF Apart, LockInv
<1>14. WritersHold'
  BY <1>3, <1>6, CallPlaces, <1>5 DEF WritersHold, LockInv, Live, Valid, Base
<1>15. FlagExact'
  BY <1>1, <1>7, <1>10 DEF FlagExact, LockInv
<1> QED  BY <1>11, <1>12, <1>13, <1>14, <1>15 DEF LockInv

(* Only a valid transaction that is destroyed gives its log back. *)
LEMMA DestroyStep ==
  ASSUME TypeOK, LockInv, NEW t \in Threads, NEW r \in Slots, Destroy(t, r)
  PROVE  LockInv'
<1> DEFINE k == Base(t, r)
<1>1. k \in Logs
  BY DEF Base, TypeOK, Transaction
<1>2. mutex' = mutex /\ trans' = [trans EXCEPT ![t][r] = NoTrans(k)] /\ pc[t].at = "idle"
  BY DEF Destroy, Idle
<1>3. \A u \in Threads, s \in Slots :
        trans'[u][s] = IF u = t /\ s = r THEN NoTrans(k) ELSE trans[u][s]
  BY <1>1, <1>2 DEF TypeOK
<1>4. \A u \in Threads, s \in Slots, l \in Logs :
        Live(u, s, l)' <=> Live(u, s, l) /\ ~(u = t /\ s = r)
  BY <1>3 DEF Live, Valid, Base, NoTrans
<1>5. CASE Valid(t, r)
  <2>1. transacting' = [transacting EXCEPT ![k] = FALSE]
    BY <1>5 DEF Destroy
  <2>2. pc' = [pc EXCEPT ![t] = [at |-> "unlocking", slot |-> r, log |-> k]]
    BY <1>5 DEF Destroy
  <2>3. /\ pc'[t].at = "unlocking" /\ pc'[t].log = k
        /\ \A u \in Threads \ {t} : pc'[u] = pc[u]
    BY <2>2 DEF TypeOK
  <2>4. \A u \in Threads, l \in Logs : Passing(u, l)' <=> Passing(u, l) \/ (u = t /\ l = k)
    BY <1>2, <2>3 DEF Passing
  <2>5. Live(t, r, k)
    BY <1>5 DEF Live
  <2>6. mutex[k] = t /\ \A u \in Threads, s \in Slots : Live(u, s, k) => u = t /\ s = r
    BY <1>1, <2>5 DEF LockInv, OneTransaction
  <2>7. \A l \in Logs : Live(t, r, l) => l = k
    BY DEF Live
  <2>8. \A l \in Logs : transacting'[l] <=> l # k /\ transacting[l]
    BY <1>1, <2>1 DEF TypeOK
  <2> HIDE DEF k
  <2>9. OneTransaction'
    BY <1>1, <1>2, <1>4, <2>4, <2>5, <2>6, <2>7 DEF OneTransaction, LockInv
  <2>10. SlotFree'
    BY <1>3, <2>3, CallPlaces DEF SlotFree, LockInv, NoTrans
  <2>11. Apart'
    BY <1>4, <2>4, <2>6 DEF Apart, LockInv
  <2>12. WritersHold'
    BY <1>2, <1>3, <2>3, CallPlaces DEF WritersHold, LockInv, Live, Valid, Base
  <2>13. FlagExact'
    BY <1>1, <1>4, <2>6, <2>7, <2>8 DEF FlagExact, LockInv
  <2> QED  BY <2>9, <2>10, <2>11, <2>12, <2>13 DEF LockInv
<1>6. CASE ~Valid(t, r)
  <2>1. UNCHANGED <<transacting, pc>>
    BY <1>6 DEF Destroy
  <2>2. \A u \in Threads, s \in Slots, l \in Logs : Live(u, s, l)' <=> Live(u, s, l)
    BY <1>4, <1>6 DEF Live
  <2>3. \A u \in Threads, l \in Logs : Passing(u, l)' <=> Passing(u, l)
    BY <2>1 DEF Passing
  <2> HIDE DEF k
  <2>4. OneTransaction' /\ Apart' /\ FlagExact'
    BY <1>2, <2>1, <2>2, <2>3 DEF OneTransaction, Apart, FlagExact, LockInv
  <2>5. SlotFree'
    BY <1>3, <2>1, CallPlaces DEF SlotFree, LockInv, NoTrans
  <2>6. WritersHold'
    BY <1>2, <1>3, <2>1, CallPlaces DEF WritersHold, LockInv, Live, Valid, Base
  <2> QED  BY <2>4, <2>5, <2>6 DEF LockInv
<1> QED  BY <1>5, <1>6

(* A transaction that changes its variable is the only one before and after. *)
LEMMA HandOverStep ==
  ASSUME TypeOK, LockInv, NEW t \in Threads, NEW from \in Slots, NEW to \in Slots, NEW k \in Logs,
         pc[t].at = "idle", Live(t, from, k), ~Valid(t, to),
         trans' = [trans EXCEPT ![t] = HandOver(@, from, to, k)],
         UNCHANGED <<mutex, transacting, pc>>
  PROVE  LockInv'
<1>1. from # to
  BY DEF Live
<1>2. \A s \in Slots :
        HandOver(trans[t], from, to, k)[s] =
          IF s = to THEN [state |-> "valid", base |-> k]
          ELSE IF s = from THEN Emptied(trans[t][from]) ELSE trans[t][s]
  BY <1>1 DEF HandOver, TypeOK
<1>3. \A u \in Threads \ {t} : trans'[u] = trans[u]
  BY DEF TypeOK
<1>4. trans'[t] = HandOver(trans[t], from, to, k)
  BY DEF TypeOK
<1>5. \A s \in Slots, l \in Logs :
        Live(t, s, l)' <=> (s = to /\ l = k) \/ (s # from /\ Live(t, s, l))
  BY <1>1, <1>2, <1>4 DEF Live, Valid, Base, Emptied
<1>6. \A u \in Threads \ {t}, s \in Slots, l \in Logs : Live(u, s, l)' <=> Live(u, s, l)
  BY <1>3 DEF Live, Valid, Base
<1>7. \A l \in Logs : Live(t, from, l) => l = k
  BY DEF Live
<1>8. mutex[k] = t /\ \A u \in Threads, s \in Slots : Live(u, s, k) => u = t /\ s = from
  BY DEF LockInv, OneTransaction
<1>9. \A u \in Threads, l \in Logs : Passing(u, l)' <=> Passing(u, l)
  BY DEF Passing
<1>10. \A u \in Threads, l \in Logs :
         (\E s \in Slots : Live(u, s, l)') <=> (\E s \in Slots : Live(u, s, l))
  <2>1. \A l \in Logs : (\E s \in Slots : Live(t, s, l)') <=> (\E s \in Slots : Live(t, s, l))
    BY <1>5, <1>7
  <2> QED  BY <1>6, <2>1
<1>11. OneTransaction'
  <2> SUFFICES ASSUME NEW l \in Logs
               PROVE  /\ \A u, v \in Threads, s, r \in Slots :
                           Live(u, s, l)' /\ Live(v, r, l)' => u = v /\ s = r /\ mutex[l] = u
                      /\ \A u \in Threads :
                           mutex[l] = u <=> (Passing(u, l)' \/ \E s \in Slots : Live(u, s, l)')
    BY DEF OneTransaction
  <2>1. ASSUME NEW u \in Threads, NEW v \in Threads, NEW s \in Slots, NEW r \in Slots,
               Live(u, s, l)', Live(v, r, l)'
        PROVE  u = v /\ s = r /\ mutex[l] = u
    <3>1. CASE l = k
      BY <2>1, <3>1, <1>5, <1>6, <1>8
    <3>2. CASE l # k
      BY <2>1, <3>2, <1>5, <1>6 DEF LockInv, OneTransaction
    <3> QED  BY <3>1, <3>2
  <2>2. ASSUME NEW u \in Threads
        PROVE  mutex[l] = u <=> (Passing(u, l)' \/ \E s \in Slots : Live(u, s, l)')
    BY <1>9, <1>10 DEF LockInv, OneTransaction
  <2> QED  BY <2>1, <2>2
<1>12. SlotFree'
  BY <1>3, CallPlaces DEF SlotFree, LockInv
<1>13. Apart'
  BY <1>9, <1>10, Zenon DEF Apart, LockInv
<1>14. WritersHold'
  BY <1>6, CallPlaces DEF WritersHold, LockInv
<1>15. FlagExact'
  BY <1>10 DEF FlagExact, LockInv
<1> QED  BY <1>11, <1>12, <1>13, <1>14, <1>15 DEF LockInv

(* Where callers move only valid transactions, and assign them only to     *)
(* variables of the same log, no step breaks the discipline.               *)
LEMMA LockStep ==
  ASSUME MoveValid, KeepLog, TypeOK, LockInv, [Next]_vars
  PROVE  LockInv'
<1>1. ASSUME NEW t \in Threads, NEW s \in Slots, NEW l \in Logs, BeginTransaction(t, s, l)
      PROVE  LockInv'
  <2>1. /\ pc[t].at = "idle" /\ pc'[t] = [at |-> "locking", slot |-> s, log |-> l]
        /\ trans[t][s].state = "none" /\ \A u \in Threads \ {t} : pc'[u] = pc[u]
    BY <1>1 DEF BeginTransaction, TypeOK, Idle
  <2> QED  BY <1>1, <2>1, QuietStep DEF BeginTransaction
<1>2. ASSUME NEW t \in Threads, NEW from \in Slots, NEW to \in Slots, MoveConstruct(t, from, to)
      PROVE  LockInv'
  <2>1. Base(t, from) \in Logs
    BY DEF Base, TypeOK, Transaction
  <2>2. pc[t].at = "idle" /\ Live(t, from, Base(t, from)) /\ ~Valid(t, to)
    BY <1>2 DEF MoveConstruct, MayMove, Live, Valid, Idle
  <2> QED  BY <1>2, <2>1, <2>2, HandOverStep DEF MoveConstruct
<1>3. ASSUME NEW t \in Threads, NEW from \in Slots, NEW to \in Slots, MoveAssign(t, from, to)
      PROVE  LockInv'
  <2>1. Base(t, from) \in Logs /\ Base(t, to) = Base(t, from)
    BY <1>3 DEF Base, TypeOK, Transaction, MoveAssign
  <2>2. pc[t].at = "idle" /\ Live(t, from, Base(t, from)) /\ from # to
    BY <1>3 DEF MoveAssign, MayMove, Live, Idle
  <2>3. ~Valid(t, to)
    BY <2>1, <2>2 DEF LockInv, OneTransaction, Live
  <2> QED  BY <1>3, <2>1, <2>2, <2>3, HandOverStep DEF MoveAssign
<1>4. ASSUME UNCHANGED <<mutex, transacting, trans, pc>>
      PROVE  LockInv'
  BY <1>4 DEF LockInv, OneTransaction, SlotFree, Apart, WritersHold, FlagExact, Passing, Live, Valid, Base
<1>5. ASSUME NEW t \in Threads, NEW s \in Slots, WriteRecord(t, s) \/ WriteSegment(t, s)
      PROVE  LockInv'
  <2>1. /\ pc[t].at = "idle" /\ pc'[t].at \in {"record", "segment"}
        /\ pc'[t].slot = s /\ pc'[t].log = Base(t, s) /\ \A u \in Threads \ {t} : pc'[u] = pc[u]
    BY <1>5 DEF WriteRecord, WriteSegment, MayWrite, TypeOK, Idle
  <2>2. Live(t, s, Base(t, s))
    BY <1>5 DEF WriteRecord, WriteSegment, MayWrite, Live
  <2> QED  BY <1>5, <2>1, <2>2, QuietStep DEF WriteRecord, WriteSegment
<1>6. ASSUME NEW t \in Threads, FinishRecord(t) \/ FinishSegment(t) \/ FailAllocation(t)
      PROVE  LockInv'
  <2>1. /\ pc[t].at \in {"record", "segment"} /\ pc'[t].at = "idle"
        /\ \A u \in Threads \ {t} : pc'[u] = pc[u]
    BY <1>6 DEF FinishRecord, FinishSegment, FailAllocation, TypeOK, Idle
  <2> QED  BY <1>6, <2>1, QuietStep DEF FinishRecord, FinishSegment, FailAllocation
<1>7. ASSUME NEW t \in Threads, PushNext(t)
      PROVE  LockInv'
  <2>1. /\ pc[t].at = "segment" /\ pc'[t].at = "segment" /\ pc'[t].slot = pc[t].slot
        /\ pc'[t].log = pc[t].log /\ \A u \in Threads \ {t} : pc'[u] = pc[u]
    BY <1>7, CallTypes DEF PushNext, TypeOK, SegmentCall
  <2>2. Live(t, pc[t].slot, pc[t].log)
    BY <2>1 DEF LockInv, WritersHold
  <2> QED  BY <1>7, <2>1, <2>2, QuietStep DEF PushNext
<1>8. ASSUME NEW t \in Threads, Step(t)
      PROVE  LockInv'
  <2>1. CASE \E s \in Slots, c \in Contents : GenerateRecord(t, s, c)
    BY <1>4, <2>1 DEF GenerateRecord
  <2>2. CASE \E s \in Slots : \E i \in DOMAIN log[Base(t, s)] : SegmentFrom(t, s, i)
    BY <1>4, <2>2 DEF SegmentFrom
  <2> QED
    BY <1>8, <2>1, <2>2, <1>1, <1>2, <1>3, <1>5, <1>6, <1>7,
       LockMutexStep, UnlockMutexStep, SetTransactingStep, DestroyStep DEF Step
<1>9. CASE UNCHANGED vars
  BY <1>9 DEF vars, LockInv, OneTransaction, SlotFree, Apart, WritersHold, FlagExact, Passing, Live, Valid, Base
<1> QED  BY <1>8, <1>9 DEF Next

(* At most one valid transaction on a log, in the thread that holds its    *)
(* mutex, however the handles were moved around (activity_log.cpp:10-19).  *)
THEOREM TransactionsExclusive ==
  ASSUME MoveValid, KeepLog
  PROVE  Spec => []OneTransaction
<1>1. Init => LockInv
  BY LockInit
<1>2. TypeOK /\ LockInv /\ [Next]_vars => LockInv'
  BY LockStep
<1>3. LockInv => OneTransaction
  BY DEF LockInv
<1> QED  BY <1>1, <1>2, <1>3, TypeCorrect, PTL DEF Spec

(* transacting(), read without the lock, says whether there is a           *)
(* transaction, but for the time begin and end are under way               *)
(* (activity_log.cpp:10-26).                                               *)
THEOREM FlagFollowsTransactions ==
  ASSUME MoveValid, KeepLog
  PROVE  Spec => []TransactingMeansLive
<1>1. Init => LockInv
  BY LockInit
<1>2. TypeOK /\ LockInv /\ [Next]_vars => LockInv'
  BY LockStep
<1>3. LockInv => TransactingMeansLive
  BY DEF LockInv, FlagExact, TransactingMeansLive
<1> QED  BY <1>1, <1>2, <1>3, TypeCorrect, PTL DEF Spec

--------------------------------------------------------------------------------
(* What a log holds.  The records of a log stay a chain, its header stays  *)
(* honest, and each log is an append-only log under its lock.              *)
(*                                                                         *)
(* ChainIntact and HeaderHonest speak of logs and headers only; what they  *)
(* rest on is what a thread in the middle of a write still has to do, and  *)
(* that LockInv keeps every other thread away from the log meanwhile.      *)

(* Every record of a sequence is salted with the one before it             *)
Linked(s) == \A i \in 2..Len(s) : Front(s[i]) = s[i - 1]

(* ... and the first with the last of the records it follows.              *)
Continues(records, s) == Linked(s) /\ (s # <<>> => Front(s[1]) = Tip(records))

(* Logs are chains from their first record on, drafts are chains that      *)
(* begin anywhere, and what a segment still has to push goes on from where *)
(* the log ends now.                                                       *)
ChainInv ==
  /\ \A l \in Logs : Continues(<<>>, log[l])
  /\ \A t \in Threads : Linked(draft[t])
  /\ \A t \in Threads : pc[t].at = "segment" => Continues(log[pc[t].log], pc[t].todo)

LEMMA AppendContinues ==
  ASSUME NEW records \in Seq(Record), Continues(<<>>, records),
         NEW r \in Record, Front(r) = Tip(records)
  PROVE  Continues(<<>>, Append(records, r))
<1> DEFINE longer == Append(records, r)
<1>1. /\ Len(records) \in Nat /\ Len(longer) = Len(records) + 1
      /\ \A i \in 1..Len(records) : longer[i] = records[i]
      /\ longer[Len(records) + 1] = r
  BY AppendProperties
<1>2. records # <<>> => Len(records) >= 1 /\ Tip(records) = records[Len(records)]
  BY EmptySeq DEF Tip, Last
<1>3. records = <<>> => Len(records) = 0 /\ Tip(records) = <<>>
  BY DEF Tip
<1> HIDE DEF longer
<1>4. ASSUME NEW i \in 2..Len(longer)
      PROVE  Front(longer[i]) = longer[i - 1]
  <2>1. CASE i <= Len(records)
    BY <1>1, <2>1 DEF Continues, Linked
  <2>2. CASE i = Len(records) + 1
    BY <1>1, <1>2, <1>3, <2>2
  <2>. QED BY <1>1, <2>1, <2>2
<1>5. Front(longer[1]) = <<>>
  <2>1. CASE records = <<>>
    BY <1>1, <1>3, <2>1
  <2>2. CASE records # <<>>
    BY <1>1, <1>2, <2>2 DEF Continues, Tip
  <2>. QED BY <2>1, <2>2
<1>. QED BY <1>4, <1>5 DEF Continues, Linked, Tip, longer

LEMMA TailContinues ==
  ASSUME NEW records \in Seq(Record), NEW s \in Seq(Record), s # <<>>, Continues(records, s)
  PROVE  Continues(Append(records, Head(s)), Tail(s))
<1>1. /\ Tail(s) \in Seq(Record) /\ Len(s) \in Nat /\ Len(s) >= 1 /\ Len(Tail(s)) = Len(s) - 1
      /\ \A i \in 1..Len(Tail(s)) : Tail(s)[i] = s[i + 1]
      /\ Head(s) = s[1]
  BY EmptySeq, HeadTailProperties
<1>2. Tip(Append(records, Head(s))) = s[1]
  BY <1>1, AppendProperties DEF Tip, Last
<1>3. Linked(Tail(s))
  BY <1>1 DEF Continues, Linked
<1>4. Tail(s) # <<>> => Front(Tail(s)[1]) = s[1]
  <2>1. Tail(s) # <<>> => 2 \in 2..Len(s)
    BY <1>1, EmptySeq
  <2>. QED BY <1>1, <2>1 DEF Continues, Linked
<1>. QED BY <1>2, <1>3, <1>4 DEF Continues

LEMMA SegmentLinked ==
  ASSUME NEW s \in Seq(Record), Linked(s), NEW i \in DOMAIN s
  PROVE  Linked(SubSeq(s, i + 1, Len(s)))
<1> DEFINE segment == SubSeq(s, i + 1, Len(s))
<1>1. i \in 1..Len(s) /\ Len(s) \in Nat
  BY LenProperties
<1>2. /\ Len(segment) = Len(s) - i
      /\ \A j \in 1..Len(segment) : segment[j] = s[i + j]
  BY <1>1, SubSeqProperties
<1> HIDE DEF segment
<1>3. ASSUME NEW j \in 2..Len(segment)
      PROVE  Front(segment[j]) = segment[j - 1]
  <2>1. j \in Int /\ 2 <= j /\ j <= Len(s) - i /\ 1 <= i /\ i \in Int
    BY <1>1, <1>2
  <2>2. segment[j] = s[i + j]
    BY <1>1, <1>2, <2>1
  <2>3. segment[j - 1] = s[(i + j) - 1]
    <3>1. j - 1 \in 1..Len(segment) /\ i + (j - 1) = (i + j) - 1
      BY <1>1, <1>2, <2>1
    <3>. QED BY <1>2, <3>1
  <2>4. i + j \in 2..Len(s)
    BY <1>1, <2>1
  <2>. QED BY <2>2, <2>3, <2>4 DEF Linked
<1>4. Linked(segment)
  BY <1>3 DEF Linked
<1>. QED BY <1>4 DEF segment

(* Who writes to a log is alone there: nobody else is in the middle of a   *)
(* write to it.                                                            *)
LEMMA AloneOnLog ==
  ASSUME TypeOK, LockInv, NEW t \in Threads, NEW s \in Slots, NEW l \in Logs, Live(t, s, l)
  PROVE  \A u \in Threads : pc[u].at \in {"record", "segment"} /\ pc[u].log = l => u = t
<1> SUFFICES ASSUME NEW u \in Threads, pc[u].at \in {"record", "segment"}, pc[u].log = l
             PROVE  u = t
  OBVIOUS
<1>1. pc[u].slot \in Slots /\ Live(u, pc[u].slot, l)
  BY CallPlaces DEF LockInv, WritersHold
<1>. QED BY <1>1 DEF LockInv, OneTransaction

(* Where callers assign a transaction only to a variable of the same log,  *)
(* the two writes are all that changes a log.                              *)
LEMMA LogStep ==
  ASSUME KeepLog, TypeOK, NEW t \in Threads, Step(t),
         ~ \E s \in Slots : WriteRecord(t, s), ~ PushNext(t)
  PROVE  log' = log
<1>1. ASSUME NEW from \in Slots, NEW to \in Slots, MoveAssign(t, from, to)
      PROVE  log' = log
  BY <1>1 DEF MoveAssign, TypeOK
<1>. QED
  BY <1>1 DEF Step, BeginTransaction, LockMutex, SetTransacting, Destroy, UnlockMutex, MoveConstruct,
     GenerateRecord, SegmentFrom, WriteSegment, FinishRecord, FinishSegment, FailAllocation

(* A record that is written alone: its thread was outside of every call    *)
(* and, careful, has verified that the record goes on from the log.        *)
LEMMA RecordWritten ==
  ASSUME Careful, TypeOK, NEW t \in Threads, NEW s \in Slots, WriteRecord(t, s)
  PROVE  /\ Base(t, s) \in Logs /\ Live(t, s, Base(t, s)) /\ pc[t].at = "idle"
         /\ Head(draft[t]) \in Record /\ Front(Head(draft[t])) = Tip(log[Base(t, s)])
         /\ log' = [log EXCEPT ![Base(t, s)] = Append(@, Head(draft[t]))]
         /\ pc'[t].at = "record" /\ \A u \in Threads \ {t} : pc'[u] = pc[u]
         /\ draft' = draft
<1>1. Base(t, s) \in Logs
  BY DEF Base, TypeOK, Transaction
<1>2. draft[t] \in Seq(Record) /\ Len(draft[t]) = 1
  BY DEF WriteRecord, TypeOK
<1>3. draft[t] # <<>> /\ Head(draft[t]) \in Record
  BY <1>2
<1>4. Front(Head(draft[t])) = Tip(log[Base(t, s)])
  BY <1>3 DEF WriteRecord, MayWrite, HeadVerification
<1>5. pc'[t].at = "record" /\ \A u \in Threads \ {t} : pc'[u] = pc[u]
  BY DEF WriteRecord, TypeOK
<1>. QED BY <1>1, <1>3, <1>4, <1>5 DEF WriteRecord, MayWrite, Live, Idle

(* The next record of a segment goes on from where the log ends.           *)
LEMMA SegmentRecordWritten ==
  ASSUME TypeOK, LockInv, ChainInv, NEW t \in Threads, PushNext(t)
  PROVE  /\ pc[t].log \in Logs /\ pc[t].slot \in Slots /\ Live(t, pc[t].slot, pc[t].log)
         /\ pc[t].todo \in Seq(Record) /\ pc[t].todo # <<>>
         /\ Head(pc[t].todo) \in Record /\ Front(Head(pc[t].todo)) = Tip(log[pc[t].log])
         /\ log' = [log EXCEPT ![pc[t].log] = Append(@, Head(pc[t].todo))]
         /\ pc'[t] = [pc[t] EXCEPT !.todo = Tail(@)] /\ \A u \in Threads \ {t} : pc'[u] = pc[u]
         /\ draft' = draft
<1>1. pc[t] \in SegmentCall /\ pc[t].todo # <<>> /\ pc[t].at = "segment"
  BY CallTypes DEF PushNext
<1>2. pc[t].log \in Logs /\ pc[t].slot \in Slots /\ pc[t].todo \in Seq(Record)
  BY <1>1 DEF SegmentCall
<1>3. Head(pc[t].todo) \in Record /\ Head(pc[t].todo) = pc[t].todo[1]
  BY <1>1, <1>2
<1>4. Front(Head(pc[t].todo)) = Tip(log[pc[t].log])
  BY <1>1, <1>3 DEF ChainInv, Continues
<1>5. Live(t, pc[t].slot, pc[t].log)
  BY <1>1 DEF LockInv, WritersHold
<1>6. pc'[t] = [pc[t] EXCEPT !.todo = Tail(@)] /\ \A u \in Threads \ {t} : pc'[u] = pc[u]
  BY DEF PushNext, TypeOK
<1>. QED BY <1>1, <1>2, <1>3, <1>4, <1>5, <1>6 DEF PushNext

LEMMA ChainInit ==
  ASSUME Init
  PROVE  ChainInv
<1>1. Linked(<<>>) /\ Continues(<<>>, <<>>)
  BY DEF Linked, Continues
<1>2. \A t \in Threads : pc[t].at = "idle"
  BY DEF Init, Idle
<1>. QED BY <1>1, <1>2 DEF Init, ChainInv

(* The logs and what is still to be written stay as they are where a step  *)
(* writes nothing.                                                         *)
LEMMA ChainKept ==
  ASSUME TypeOK, ChainInv, NEW t \in Threads, log' = log,
         \A u \in Threads \ {t} : pc'[u] = pc[u] /\ draft'[u] = draft[u],
         Linked(draft'[t]),
         pc'[t].at = "segment" => Continues(log[pc'[t].log], pc'[t].todo)
  PROVE  ChainInv'
BY DEF ChainInv

(* The log after a record that goes on from it; the other logs are as they *)
(* were.                                                                   *)
LEMMA ChainGrows ==
  ASSUME TypeOK, ChainInv, NEW l \in Logs, NEW r \in Record, Front(r) = Tip(log[l]),
         log' = [log EXCEPT ![l] = Append(@, r)]
  PROVE  /\ \A k \in Logs : Continues(<<>>, log'[k])
         /\ log'[l] = Append(log[l], r) /\ \A k \in Logs \ {l} : log'[k] = log[k]
<1>1. log'[l] = Append(log[l], r) /\ \A k \in Logs \ {l} : log'[k] = log[k]
  BY DEF TypeOK
<1>2. log[l] \in Seq(Record) /\ Continues(<<>>, log[l])
  BY DEF TypeOK, ChainInv
<1>3. Continues(<<>>, Append(log[l], r))
  BY <1>2, AppendContinues
<1>. QED BY <1>1, <1>3 DEF ChainInv

LEMMA ChainStep ==
  ASSUME MoveValid, KeepLog, Careful, TypeOK, LockInv, ChainInv, [Next]_vars
  PROVE  ChainInv'
<1>1. CASE UNCHANGED vars
  BY <1>1 DEF vars, ChainInv
<1>2. ASSUME NEW t \in Threads, NEW s \in Slots, WriteRecord(t, s)
      PROVE  ChainInv'
  <2> DEFINE l == Base(t, s)
             r == Head(draft[t])
  <2>1. /\ l \in Logs /\ Live(t, s, l) /\ r \in Record /\ Front(r) = Tip(log[l])
        /\ log' = [log EXCEPT ![l] = Append(@, r)]
        /\ pc'[t].at = "record" /\ \A u \in Threads \ {t} : pc'[u] = pc[u]
        /\ draft' = draft
    BY <1>2, RecordWritten
  <2> HIDE DEF l, r
  <2>2. /\ \A k \in Logs : Continues(<<>>, log'[k])
        /\ \A k \in Logs \ {l} : log'[k] = log[k]
    BY <2>1, ChainGrows
  <2>3. ASSUME NEW u \in Threads, pc'[u].at = "segment"
        PROVE  Continues(log'[pc'[u].log], pc'[u].todo)
    <3>1. u # t /\ pc'[u] = pc[u]
      BY <2>1, <2>3
    <3>2. pc[u].log \in Logs \ {l}
      BY <2>1, <2>3, <3>1, AloneOnLog, CallPlaces
    <3>. QED BY <2>2, <2>3, <3>1, <3>2 DEF ChainInv
  <2>. QED BY <2>1, <2>2, <2>3 DEF ChainInv
<1>3. ASSUME NEW t \in Threads, PushNext(t)
      PROVE  ChainInv'
  <2> DEFINE l == pc[t].log
             todo == pc[t].todo
  <2>1. /\ l \in Logs /\ pc[t].slot \in Slots /\ Live(t, pc[t].slot, l)
        /\ todo \in Seq(Record) /\ todo # <<>>
        /\ Head(todo) \in Record /\ Front(Head(todo)) = Tip(log[l])
        /\ log' = [log EXCEPT ![l] = Append(@, Head(todo))]
        /\ \A u \in Threads \ {t} : pc'[u] = pc[u]
        /\ draft' = draft
    BY <1>3, SegmentRecordWritten
  <2>2. pc'[t].log = l /\ pc'[t].todo = Tail(todo) /\ pc[t].at = "segment"
    BY <1>3, CallTypes DEF PushNext, TypeOK, SegmentCall
  <2>3. Continues(log[l], todo) /\ log[l] \in Seq(Record)
    BY <2>1, <2>2 DEF ChainInv, TypeOK
  <2> HIDE DEF l, todo
  <2>4. /\ \A k \in Logs : Continues(<<>>, log'[k])
        /\ log'[l] = Append(log[l], Head(todo)) /\ \A k \in Logs \ {l} : log'[k] = log[k]
    BY <2>1, ChainGrows
  <2>5. Continues(log'[l], Tail(todo))
    BY <2>1, <2>3, <2>4, TailContinues
  <2>6. ASSUME NEW u \in Threads \ {t}, pc'[u].at = "segment"
        PROVE  Continues(log'[pc'[u].log], pc'[u].todo)
    <3>1. pc'[u] = pc[u]
      BY <2>1
    <3>2. pc[u].log \in Logs \ {l}
      BY <2>1, <2>6, <3>1, AloneOnLog, CallPlaces
    <3>. QED BY <2>4, <2>6, <3>1, <3>2 DEF ChainInv
  <2>. QED BY <2>1, <2>2, <2>4, <2>5, <2>6 DEF ChainInv
<1>4. ASSUME NEW t \in Threads, Step(t), ~ \E s \in Slots : WriteRecord(t, s), ~ PushNext(t)
      PROVE  ChainInv'
  <2>1. log' = log
    BY <1>4, LogStep
  <2>2. CASE \E s \in Slots, c \in Contents : GenerateRecord(t, s, c)
    <3>1. PICK s \in Slots, c \in Contents : GenerateRecord(t, s, c)
      BY <2>2
    <3>2. draft'[t] = <<Salted(log[Base(t, s)], c)>> /\ pc[t].at = "idle" /\ pc' = pc
          /\ \A u \in Threads \ {t} : draft'[u] = draft[u]
      BY <3>1 DEF GenerateRecord, TypeOK, Idle
    <3>3. Linked(draft'[t])
      BY <3>2 DEF Linked
    <3>. QED BY <2>1, <3>2, <3>3, ChainKept
  <2>3. CASE \E s \in Slots : \E i \in DOMAIN log[Base(t, s)] : SegmentFrom(t, s, i)
    <3>1. PICK s \in Slots : \E i \in DOMAIN log[Base(t, s)] : SegmentFrom(t, s, i)
      BY <2>3
    <3>2. PICK i \in DOMAIN log[Base(t, s)] : SegmentFrom(t, s, i)
      BY <3>1
    <3>3. PICK records : records = log[Base(t, s)]
      OBVIOUS
    <3>4. Base(t, s) \in Logs
      BY DEF Base, TypeOK, Transaction
    <3>5. records \in Seq(Record) /\ Linked(records) /\ i \in DOMAIN records
      BY <3>2, <3>3, <3>4 DEF TypeOK, ChainInv, Continues
    <3>6. draft'[t] = SubSeq(records, i + 1, Len(records)) /\ pc[t].at = "idle" /\ pc' = pc
          /\ \A u \in Threads \ {t} : draft'[u] = draft[u]
      <4>. PICK rest : rest = SubSeq(records, i + 1, Len(records))
        OBVIOUS
      <4>1. draft \in [Threads -> Seq(Record)]
        BY DEF TypeOK
      <4>2. pc[t] = Idle /\ pc' = pc /\ draft' = [draft EXCEPT ![t] = rest]
        BY <3>2, <3>3 DEF SegmentFrom
      <4>3. pc[t].at = "idle" /\ pc' = pc
        BY <4>2 DEF Idle
      <4>4. draft'[t] = rest
        BY <4>1, <4>2
      <4>5. \A u \in Threads \ {t} : draft'[u] = draft[u]
        BY <4>1, <4>2
      <4>. QED BY <4>3, <4>4, <4>5, Zenon
    <3>7. Linked(draft'[t])
      BY <3>5, <3>6, SegmentLinked
    <3>. QED BY <2>1, <3>6, <3>7, ChainKept
  <2>4. CASE \E s \in Slots : WriteSegment(t, s)
    <3>1. PICK s \in Slots : WriteSegment(t, s)
      BY <2>4
    <3>2. /\ pc'[t].at = "segment" /\ pc'[t].log = Base(t, s) /\ pc'[t].todo = draft[t]
          /\ \A u \in Threads \ {t} : pc'[u] = pc[u]
          /\ draft' = draft
      BY <3>1 DEF WriteSegment, TypeOK
    <3>3. draft[t] \in Seq(Record) /\ Linked(draft[t])
      BY DEF TypeOK, ChainInv
    <3>4. draft[t] # <<>> => Front(draft[t][1]) = Tip(log[Base(t, s)])
      BY <3>1, <3>3 DEF WriteSegment, MayWrite, HeadVerification
    <3>. QED BY <2>1, <3>2, <3>3, <3>4, ChainKept DEF Continues
  <2>5. CASE /\ draft' = draft
             /\ \A u \in Threads \ {t} : pc'[u] = pc[u]
             /\ pc'[t].at # "segment"
    BY <2>1, <2>5, ChainKept DEF ChainInv
  <2>6. CASE pc' = pc /\ draft' = draft
    BY <2>1, <2>6 DEF ChainInv
  <2>7. ASSUME LockMutex(t) \/ SetTransacting(t) \/ UnlockMutex(t)
               \/ FinishRecord(t) \/ FinishSegment(t) \/ FailAllocation(t)
               \/ (\E s \in Slots, l \in Logs : BeginTransaction(t, s, l))
        PROVE  ChainInv'
    <3>1. LockMutex(t) => pc'[t].at # "segment"
      BY CallTypes DEF LockMutex, TypeOK, Call
    <3>. QED
      BY <2>5, <2>7, <3>1 DEF LockMutex, SetTransacting, UnlockMutex, FinishRecord, FinishSegment,
         FailAllocation, BeginTransaction, TypeOK, Idle
  <2>8. ASSUME NEW s \in Slots, Destroy(t, s)
        PROVE  ChainInv'
    <3>1. draft' = draft /\ \A u \in Threads \ {t} : pc'[u] = pc[u]
      BY <2>8 DEF Destroy, TypeOK
    <3>2. pc'[t].at # "segment"
      BY <2>8 DEF Destroy, TypeOK, Idle
    <3>. QED BY <2>5, <3>1, <3>2
  <2>9. ASSUME NEW from \in Slots, NEW to \in Slots,
               MoveConstruct(t, from, to) \/ MoveAssign(t, from, to)
        PROVE  ChainInv'
    BY <2>6, <2>9 DEF MoveConstruct, MoveAssign
  <2>. QED BY <1>4, <2>2, <2>3, <2>4, <2>7, <2>8, <2>9 DEF Step
<1>. QED BY <1>1, <1>2, <1>3, <1>4 DEF Next

LEMMA ChainAlways ==
  ASSUME MoveValid, KeepLog, Careful
  PROVE  Spec => [](TypeOK /\ LockInv /\ ChainInv)
<1>1. Init => LockInv /\ ChainInv
  BY LockInit, ChainInit
<1>2. TypeOK /\ LockInv /\ [Next]_vars => LockInv'
  BY LockStep
<1>3. TypeOK /\ LockInv /\ ChainInv /\ [Next]_vars => ChainInv'
  BY ChainStep
<1>. QED BY <1>1, <1>2, <1>3, TypeCorrect, PTL DEF Spec

(* Every record of a log is salted with the one before it, whatever the    *)
(* threads kept while others wrote (log_transaction.cpp:101-112, 144-149). *)
THEOREM ChainUnbroken ==
  ASSUME MoveValid, KeepLog, Careful
  PROVE  Spec => []ChainIntact
<1>1. TypeOK /\ ChainInv => ChainIntact
  <2> SUFFICES ASSUME TypeOK, ChainInv, NEW l \in Logs, NEW i \in DOMAIN log[l]
               PROVE  Front(log[l][i]) = IF i = 1 THEN <<>> ELSE log[l][i - 1]
    BY DEF ChainIntact
  <2>1. log[l] \in Seq(Record) /\ Continues(<<>>, log[l])
    BY DEF TypeOK, ChainInv
  <2>2. i \in 1..Len(log[l]) /\ log[l] # <<>>
    BY <2>1
  <2>. QED BY <2>1, <2>2 DEF Continues, Linked, Tip
<1>. QED BY <1>1, ChainAlways, PTL

--------------------------------------------------------------------------------
(* What a write does to its log, as the append-only log sees it *)
LEMMA WriteIsAppend ==
  ASSUME TypeOK, LockInv, NEW t \in Threads, NEW s \in Slots, NEW l \in Logs, Live(t, s, l),
         NEW r \in Record, Front(r) = Tip(log[l]),
         log' = [log EXCEPT ![l] = Append(@, r)], mutex' = mutex
  PROVE  \A k \in Logs : [Ledger(k)!Next]_(Ledger(k)!vars)
<1>1. log'[l] = Append(log[l], r) /\ \A k \in Logs \ {l} : log'[k] = log[k]
  BY DEF TypeOK
<1>2. mutex[l] # Nobody
  BY NobodyAssumption DEF LockInv, OneTransaction
<1>3. r = Append(Tip(log[l]), Last(r)) /\ Last(r) \in Contents
  BY EmptySeq, AppendProperties DEF Record, Front, Last
<1>4. Tip(log[l]) = Ledger(l)!Tip
  BY DEF Tip, Last, Ledger!Tip
<1>5. Ledger(l)!Write(Last(r))
  BY <1>1, <1>2, <1>3, <1>4 DEF Ledger!Write
<1>6. \A k \in Logs \ {l} : UNCHANGED Ledger(k)!vars
  BY <1>1 DEF Ledger!vars
<1>. QED BY <1>3, <1>5, <1>6 DEF Ledger!Next

LEMMA LedgerStep ==
  ASSUME MoveValid, KeepLog, Careful, TypeOK, LockInv, ChainInv, [Next]_vars
  PROVE  \A l \in Logs : [Ledger(l)!Next]_(Ledger(l)!vars)
<1>1. ASSUME UNCHANGED <<log, mutex>>
      PROVE  \A l \in Logs : UNCHANGED Ledger(l)!vars
  BY <1>1 DEF Ledger!vars
<1>2. ASSUME NEW t \in Threads, NEW s \in Slots, WriteRecord(t, s)
      PROVE  \A l \in Logs : [Ledger(l)!Next]_(Ledger(l)!vars)
  <2>1. PICK l \in Logs : l = Base(t, s)
    BY <1>2, RecordWritten
  <2>2. PICK r \in Record : r = Head(draft[t])
    BY <1>2, RecordWritten
  <2>3. /\ Live(t, s, l) /\ Front(r) = Tip(log[l])
        /\ log' = [log EXCEPT ![l] = Append(@, r)] /\ mutex' = mutex
    BY <1>2, <2>1, <2>2, RecordWritten DEF WriteRecord
  <2>. QED BY <2>3, WriteIsAppend
<1>3. ASSUME NEW t \in Threads, PushNext(t)
      PROVE  \A l \in Logs : [Ledger(l)!Next]_(Ledger(l)!vars)
  <2>1. PICK l \in Logs : l = pc[t].log
    BY <1>3, SegmentRecordWritten
  <2>2. PICK r \in Record : r = Head(pc[t].todo)
    BY <1>3, SegmentRecordWritten
  <2>3. PICK s \in Slots : s = pc[t].slot
    BY <1>3, SegmentRecordWritten
  <2>4. /\ Live(t, s, l) /\ Front(r) = Tip(log[l])
        /\ log' = [log EXCEPT ![l] = Append(@, r)] /\ mutex' = mutex
    BY <1>3, <2>1, <2>2, <2>3, SegmentRecordWritten DEF PushNext
  <2>. QED BY <2>4, WriteIsAppend
<1>4. ASSUME NEW t \in Threads, LockMutex(t)
      PROVE  \A l \in Logs : [Ledger(l)!Next]_(Ledger(l)!vars)
  <2>1. PICK k \in Logs : k = pc[t].log
    BY <1>4, CallPlaces DEF LockMutex
  <2>2. /\ log' = log /\ mutex[k] = Nobody /\ mutex'[k] = t
        /\ \A l \in Logs \ {k} : mutex'[l] = mutex[l]
    BY <1>4, <2>1 DEF LockMutex, CanLock, TypeOK
  <2>3. Ledger(k)!Acquire(t)
    BY <2>2 DEF Ledger!Acquire
  <2>. QED BY <2>2, <2>3 DEF Ledger!Next, Ledger!vars
<1>5. ASSUME NEW t \in Threads, UnlockMutex(t)
      PROVE  \A l \in Logs : [Ledger(l)!Next]_(Ledger(l)!vars)
  <2>1. PICK k \in Logs : k = pc[t].log /\ Passing(t, k)
    BY <1>5, CallPlaces DEF UnlockMutex, Passing
  <2>2. mutex[k] # Nobody
    BY <2>1, NobodyAssumption DEF LockInv, OneTransaction
  <2>3. /\ log' = log /\ mutex'[k] = Nobody
        /\ \A l \in Logs \ {k} : mutex'[l] = mutex[l]
    BY <1>5, <2>1 DEF UnlockMutex, TypeOK
  <2>4. Ledger(k)!Release
    BY <2>2, <2>3 DEF Ledger!Release
  <2>. QED BY <2>3, <2>4 DEF Ledger!Next, Ledger!vars
<1>6. ASSUME NEW t \in Threads, Step(t), ~ \E s \in Slots : WriteRecord(t, s), ~ PushNext(t),
             ~ LockMutex(t), ~ UnlockMutex(t)
      PROVE  UNCHANGED <<log, mutex>>
  <2>1. log' = log
    BY <1>6, LogStep
  <2>2. mutex' = mutex
    BY <1>6 DEF Step, BeginTransaction, SetTransacting, Destroy, MoveConstruct, MoveAssign,
       GenerateRecord, SegmentFrom, WriteSegment, FinishRecord, FinishSegment, FailAllocation
  <2>. QED BY <2>1, <2>2
<1>. QED BY <1>1, <1>2, <1>3, <1>4, <1>5, <1>6 DEF Next, vars

(* Each log is an append-only log under its lock: its records are added at *)
(* the end, one by one, by who holds it, and none is changed or lost.      *)
THEOREM LogsAreLedgers ==
  ASSUME MoveValid, KeepLog, Careful
  PROVE  Spec => ImplementsLedger
<1>1. Init => \A l \in Logs : Ledger(l)!Init
  BY DEF Init, Ledger!Init
<1>2. TypeOK /\ LockInv /\ ChainInv /\ [Next]_vars
        => [\A l \in Logs : [Ledger(l)!Next]_(Ledger(l)!vars)]_vars
  BY LedgerStep
<1>. QED BY <1>1, <1>2, ChainAlways, PTL DEF Spec, ImplementsLedger

--------------------------------------------------------------------------------
(* HeaderHonest is not inductive: that a header never counts too much      *)
(* rests on write_record having pushed the record it is about to count.    *)
RecordWriting(l) == \E t \in Threads : pc[t].at = "record" /\ pc[t].log = l

Uncounted(l) == IF RecordWriting(l) THEN 1 ELSE 0

(* The hash of a header was that of the log at some time                   *)
HashSeen(l) ==
  \/ header[l].hash = ZeroHash
  \/ \E n \in 0..Len(log[l]) : header[l].hash = LogHash(SubSeq(log[l], 1, n))

HeaderInvOf(l) ==
  /\ header[l].num + Uncounted(l) <= Len(log[l])
  /\ Len(log[l]) <= header[l].num + Uncounted(l) + faults
  /\ HashSeen(l)
  /\ faults = 0 /\ ~Writing(l) /\ log[l] # <<>> => LogVerification(l)

HeaderInv == \A l \in Logs : HeaderInvOf(l)

LEMMA HashSeenGrows ==
  ASSUME NEW records \in Seq(Record), NEW r \in Record, NEW n \in 0..Len(records)
  PROVE  n \in 0..Len(Append(records, r)) /\ SubSeq(Append(records, r), 1, n) = SubSeq(records, 1, n)
<1> DEFINE longer == Append(records, r)
<1>1. /\ longer \in Seq(Record) /\ Len(records) \in Nat /\ Len(longer) = Len(records) + 1
      /\ \A i \in 1..Len(records) : longer[i] = records[i]
  BY AppendProperties
<1> HIDE DEF longer
<1>2. \A i \in 1..n : records[i] \in Record /\ longer[i] \in Record
  BY <1>1
<1>3. /\ SubSeq(records, 1, n) \in Seq(Record) /\ Len(SubSeq(records, 1, n)) = n
      /\ \A i \in 1..n : SubSeq(records, 1, n)[i] = records[i]
  BY <1>1, <1>2, SubSeqProperties
<1>4. /\ SubSeq(longer, 1, n) \in Seq(Record) /\ Len(SubSeq(longer, 1, n)) = n
      /\ \A i \in 1..n : SubSeq(longer, 1, n)[i] = longer[i]
  BY <1>1, <1>2, SubSeqProperties
<1>5. SubSeq(longer, 1, n) = SubSeq(records, 1, n)
  BY <1>1, <1>3, <1>4, SeqEqual
<1>. QED BY <1>1, <1>5 DEF longer

(* A log that a step does not touch, and that is written to by the same    *)
(* threads before and after, keeps its header honest.                      *)
LEMMA HeaderUntouched ==
  ASSUME TypeOK, TypeOK', NEW l \in Logs, HeaderInvOf(l),
         log'[l] = log[l], header'[l] = header[l], faults' = faults,
         RecordWriting(l)' <=> RecordWriting(l), Writing(l)' <=> Writing(l)
  PROVE  HeaderInvOf(l)'
<1>1. HashSeen(l)'
  BY DEF HeaderInvOf, HashSeen
<1>. QED BY <1>1 DEF HeaderInvOf, Uncounted, LogVerification

(* A step of a thread changes who writes on no log but its own.            *)
LEMMA WritersElsewhere ==
  ASSUME NEW t \in Threads, NEW l \in Logs, \A u \in Threads \ {t} : pc'[u] = pc[u],
         pc[t].at \in {"record", "segment"} => pc[t].log # l,
         pc'[t].at \in {"record", "segment"} => pc'[t].log # l
  PROVE  (RecordWriting(l)' <=> RecordWriting(l)) /\ (Writing(l)' <=> Writing(l))
BY DEF RecordWriting, Writing

LEMMA HeaderInit ==
  ASSUME Init
  PROVE  HeaderInv
<1>1. \A t \in Threads : pc[t].at = "idle"
  BY DEF Init, Idle
<1>2. \A l \in Logs : log[l] = <<>> /\ header[l] = [num |-> 0, hash |-> ZeroHash] /\ faults = 0
  BY DEF Init
<1>. QED BY <1>1, <1>2, EmptySeq DEF HeaderInv, HeaderInvOf, Uncounted, RecordWriting, HashSeen

(* write_record pushes a record it has not counted yet.                    *)
LEMMA HeaderWriteRecord ==
  ASSUME TypeOK, TypeOK', LockInv, HeaderInv, NEW t \in Threads, NEW s \in Slots, WriteRecord(t, s)
  PROVE  HeaderInv'
<1>1. PICK k \in Logs : k = Base(t, s)
  BY DEF Base, TypeOK, Transaction
<1>2. Live(t, s, k) /\ pc[t].at = "idle" /\ header' = header /\ faults' = faults
  BY <1>1 DEF WriteRecord, MayWrite, Live, Idle
<1>3. pc'[t].at = "record" /\ pc'[t].log = k /\ \A u \in Threads \ {t} : pc'[u] = pc[u]
  BY <1>1 DEF WriteRecord, TypeOK
<1>4. PICK r \in Record : r = Head(draft[t])
  <2>1. draft[t] \in Seq(Record) /\ Len(draft[t]) = 1
    BY DEF WriteRecord, TypeOK
  <2>. QED BY <2>1
<1>5. log'[k] = Append(log[k], r) /\ \A l \in Logs \ {k} : log'[l] = log[l]
  BY <1>1, <1>4 DEF WriteRecord, TypeOK
<1>6. ASSUME NEW l \in Logs \ {k}
      PROVE  HeaderInvOf(l)'
  BY <1>2, <1>3, <1>5, <1>6, WritersElsewhere, HeaderUntouched DEF HeaderInv
<1>7. HeaderInvOf(k)'
  <2>1. ~RecordWriting(k)
    BY <1>2, AloneOnLog DEF RecordWriting
  <2>2. RecordWriting(k)' /\ Writing(k)'
    BY <1>3 DEF RecordWriting, Writing
  <2>3. log[k] \in Seq(Record) /\ Len(log'[k]) = Len(log[k]) + 1
    BY <1>5, AppendProperties DEF TypeOK
  <2>4. HashSeen(k)'
    BY <1>2, <1>5, <2>3, HashSeenGrows DEF HeaderInv, HeaderInvOf, HashSeen
  <2>5. header[k].num \in Nat /\ Len(log[k]) \in Nat /\ faults \in Nat
    BY <2>3, BoundAssumption DEF TypeOK
  <2>. QED BY <1>2, <2>1, <2>2, <2>3, <2>4, <2>5 DEF HeaderInv, HeaderInvOf, Uncounted
<1>. QED BY <1>6, <1>7 DEF HeaderInv

(* ... and counts it when it has hashed the log.                           *)
LEMMA HeaderFinishRecord ==
  ASSUME TypeOK, TypeOK', LockInv, HeaderInv, NEW t \in Threads, FinishRecord(t)
  PROVE  HeaderInv'
<1>1. PICK k \in Logs : k = pc[t].log
  BY CallPlaces DEF FinishRecord
<1>2. pc[t].at = "record" /\ pc[t].slot \in Slots /\ Live(t, pc[t].slot, k)
  BY <1>1, CallPlaces DEF FinishRecord, LockInv, WritersHold
<1>3. pc'[t].at = "idle" /\ \A u \in Threads \ {t} : pc'[u] = pc[u]
  BY DEF FinishRecord, TypeOK, Idle
<1>4. /\ log' = log /\ faults' = faults
      /\ header'[k] = [num |-> header[k].num + 1, hash |-> LogHash(log[k])]
      /\ \A l \in Logs \ {k} : header'[l] = header[l]
  BY <1>1 DEF FinishRecord, TypeOK
<1>5. ASSUME NEW l \in Logs \ {k}
      PROVE  HeaderInvOf(l)'
  BY <1>1, <1>3, <1>4, <1>5, WritersElsewhere, HeaderUntouched DEF HeaderInv
<1>6. HeaderInvOf(k)'
  <2>1. RecordWriting(k)
    BY <1>1, <1>2 DEF RecordWriting
  <2>2. ~RecordWriting(k)'
    BY <1>2, <1>3, AloneOnLog DEF RecordWriting
  <2>3. log'[k] \in Seq(Record) /\ header'[k].hash = LogHash(log'[k]) /\ header'[k].num = header[k].num + 1
    BY <1>4 DEF TypeOK
  <2>4. HashSeen(k)'
    <3>1. Len(log'[k]) \in 0..Len(log'[k]) /\ SubSeq(log'[k], 1, Len(log'[k])) = log'[k]
      BY <2>3, SubSeqFull
    <3>. QED BY <2>3, <3>1 DEF HashSeen
  <2>5. header[k].num \in Nat /\ Len(log[k]) \in Nat /\ faults \in Nat
    BY <1>4, <2>3, BoundAssumption DEF TypeOK
  <2>. QED BY <1>4, <2>1, <2>2, <2>3, <2>4, <2>5 DEF HeaderInv, HeaderInvOf, Uncounted, LogVerification
<1>. QED BY <1>5, <1>6 DEF HeaderInv

(* write_segment counts each record as it pushes it.                       *)
LEMMA HeaderPushNext ==
  ASSUME TypeOK, TypeOK', LockInv, HeaderInv, NEW t \in Threads, PushNext(t)
  PROVE  HeaderInv'
<1>1. PICK k \in Logs : k = pc[t].log
  BY CallPlaces DEF PushNext
<1>2. pc[t] \in SegmentCall /\ pc[t].at = "segment" /\ pc[t].todo # <<>>
  BY CallTypes DEF PushNext
<1>3. pc'[t].at = "segment" /\ pc'[t].log = k /\ \A u \in Threads \ {t} : pc'[u] = pc[u]
  BY <1>1, <1>2 DEF PushNext, TypeOK, SegmentCall
<1>4. PICK r \in Record : r = Head(pc[t].todo)
  BY <1>2 DEF SegmentCall
<1>5. /\ log'[k] = Append(log[k], r) /\ \A l \in Logs \ {k} : log'[l] = log[l]
      /\ \A l \in Logs \ {k} : header'[l] = header[l]
      /\ faults' = faults
  BY <1>1, <1>4 DEF PushNext, TypeOK
<1>6. header'[k].num = header[k].num + 1 /\ header'[k].hash = header[k].hash
  <2>1. header[k] \in [num : Nat, hash : Hash] /\ header'[k] = [header[k] EXCEPT !.num = @ + 1]
    BY <1>1 DEF PushNext, TypeOK
  <2>. QED BY <2>1
<1>7. ASSUME NEW l \in Logs \ {k}
      PROVE  HeaderInvOf(l)'
  BY <1>1, <1>3, <1>5, <1>7, WritersElsewhere, HeaderUntouched DEF HeaderInv
<1>8. HeaderInvOf(k)'
  <2>1. RecordWriting(k)' <=> RecordWriting(k)
    BY <1>2, <1>3 DEF RecordWriting
  <2>2. Writing(k)'
    BY <1>3 DEF Writing
  <2>3. log[k] \in Seq(Record) /\ Len(log'[k]) = Len(log[k]) + 1
    BY <1>5, AppendProperties DEF TypeOK
  <2>4. HashSeen(k)'
    BY <1>5, <1>6, <2>3, HashSeenGrows DEF HeaderInv, HeaderInvOf, HashSeen
  <2>5. header[k].num \in Nat /\ Len(log[k]) \in Nat /\ faults \in Nat
    BY <2>3, BoundAssumption DEF TypeOK
  <2>. QED BY <1>5, <1>6, <2>1, <2>2, <2>3, <2>4, <2>5 DEF HeaderInv, HeaderInvOf, Uncounted
<1>. QED BY <1>7, <1>8 DEF HeaderInv

(* ... and hashes the log when it has pushed the last.                     *)
LEMMA HeaderFinishSegment ==
  ASSUME TypeOK, TypeOK', LockInv, HeaderInv, NEW t \in Threads, FinishSegment(t)
  PROVE  HeaderInv'
<1>1. PICK k \in Logs : k = pc[t].log
  BY CallPlaces DEF FinishSegment
<1>2. pc[t].at = "segment" /\ pc'[t].at = "idle" /\ \A u \in Threads \ {t} : pc'[u] = pc[u]
  BY DEF FinishSegment, TypeOK, Idle
<1>3. /\ log' = log /\ faults' = faults
      /\ \A l \in Logs \ {k} : header'[l] = header[l]
  BY <1>1 DEF FinishSegment, TypeOK
<1>4. header'[k].num = header[k].num /\ header'[k].hash = LogHash(log'[k])
  <2>1. header[k] \in [num : Nat, hash : Hash] /\ header'[k] = [header[k] EXCEPT !.hash = LogHash(log[k])]
    BY <1>1 DEF FinishSegment, TypeOK
  <2>. QED BY <1>3, <2>1
<1>5. ASSUME NEW l \in Logs \ {k}
      PROVE  HeaderInvOf(l)'
  BY <1>1, <1>2, <1>3, <1>5, WritersElsewhere, HeaderUntouched DEF HeaderInv
<1>6. HeaderInvOf(k)'
  <2>1. RecordWriting(k)' <=> RecordWriting(k)
    BY <1>2 DEF RecordWriting
  <2>2. HashSeen(k)'
    <3>1. log'[k] \in Seq(Record)
      BY DEF TypeOK
    <3>2. Len(log'[k]) \in 0..Len(log'[k]) /\ SubSeq(log'[k], 1, Len(log'[k])) = log'[k]
      BY <3>1, SubSeqFull
    <3>. QED BY <1>4, <3>2 DEF HashSeen
  <2>. QED BY <1>3, <1>4, <2>1, <2>2 DEF HeaderInv, HeaderInvOf, Uncounted, LogVerification
<1>. QED BY <1>5, <1>6 DEF HeaderInv

(* A write that is cut short leaves at most one record uncounted, and the  *)
(* failure is counted instead.                                             *)
LEMMA HeaderFailAllocation ==
  ASSUME TypeOK, TypeOK', HeaderInv, NEW t \in Threads, FailAllocation(t)
  PROVE  HeaderInv'
<1>1. pc'[t].at = "idle" /\ \A u \in Threads \ {t} : pc'[u] = pc[u]
  BY DEF FailAllocation, TypeOK, Idle
<1>2. log' = log /\ header' = header /\ faults' = faults + 1 /\ faults \in Nat
  BY BoundAssumption DEF FailAllocation, TypeOK
<1>3. ASSUME NEW l \in Logs
      PROVE  HeaderInvOf(l)'
  <2>1. RecordWriting(l)' => RecordWriting(l)
    BY <1>1 DEF RecordWriting
  <2>2. HashSeen(l)'
    BY <1>2 DEF HeaderInv, HeaderInvOf, HashSeen
  <2>3. header[l].num \in Nat /\ Len(log[l]) \in Nat
    BY DEF TypeOK
  <2>. QED BY <1>2, <2>1, <2>2, <2>3 DEF HeaderInv, HeaderInvOf, Uncounted
<1>. QED BY <1>3 DEF HeaderInv

LEMMA HeaderStep ==
  ASSUME MoveValid, KeepLog, TypeOK, TypeOK', LockInv, HeaderInv, [Next]_vars
  PROVE  HeaderInv'
<1>1. ASSUME NEW t \in Threads, log' = log, header' = header, faults' = faults,
             \A u \in Threads \ {t} : pc'[u] = pc[u],
             pc'[t] # pc[t] => /\ pc[t].at \notin {"record", "segment"}
                               /\ pc'[t].at \notin {"record", "segment"}
      PROVE  HeaderInv'
  <2>1. \A l \in Logs : (RecordWriting(l)' <=> RecordWriting(l)) /\ (Writing(l)' <=> Writing(l))
    BY <1>1 DEF RecordWriting, Writing
  <2>. QED BY <1>1, <2>1, HeaderUntouched DEF HeaderInv
<1>2. ASSUME NEW t \in Threads, NEW s \in Slots, WriteSegment(t, s)
      PROVE  HeaderInv'
  <2>1. PICK k \in Logs : k = Base(t, s)
    BY DEF Base, TypeOK, Transaction
  <2>2. /\ pc[t].at = "idle" /\ pc'[t].at = "segment" /\ pc'[t].log = k
        /\ \A u \in Threads \ {t} : pc'[u] = pc[u]
        /\ log' = log /\ header' = header /\ faults' = faults
    BY <1>2, <2>1 DEF WriteSegment, MayWrite, TypeOK, Idle
  <2>3. \A l \in Logs \ {k} : HeaderInvOf(l)'
    BY <2>2, WritersElsewhere, HeaderUntouched DEF HeaderInv
  <2>4. (RecordWriting(k)' <=> RecordWriting(k)) /\ Writing(k)'
    BY <2>2 DEF RecordWriting, Writing
  <2>5. HeaderInvOf(k)'
    BY <2>2, <2>4 DEF HeaderInv, HeaderInvOf, HashSeen, Uncounted
  <2>. QED BY <2>3, <2>5 DEF HeaderInv
<1>3. ASSUME NEW t \in Threads, NEW from \in Slots, NEW to \in Slots, MoveAssign(t, from, to)
      PROVE  HeaderInv'
  <2>1. log' = log /\ header' = header /\ faults' = faults /\ pc' = pc
    BY <1>3 DEF MoveAssign, TypeOK
  <2>. QED BY <1>1, <2>1
<1>4. ASSUME NEW t \in Threads,
             LockMutex(t) \/ SetTransacting(t) \/ UnlockMutex(t)
             \/ (\E s \in Slots, l \in Logs : BeginTransaction(t, s, l)) \/ (\E s \in Slots : Destroy(t, s))
      PROVE  HeaderInv'
  <2>1. log' = log /\ header' = header /\ faults' = faults /\ \A u \in Threads \ {t} : pc'[u] = pc[u]
    BY <1>4 DEF LockMutex, SetTransacting, UnlockMutex, BeginTransaction, Destroy, TypeOK
  <2>2. LockMutex(t) => pc[t].at = "locking" /\ pc'[t].at = "locked"
    BY CallTypes DEF LockMutex, TypeOK, Call
  <2>3. \A s \in Slots : Destroy(t, s) => pc[t].at = "idle" /\ pc'[t].at \in {"idle", "unlocking"}
    BY DEF Destroy, TypeOK, Idle
  <2>4. SetTransacting(t) \/ UnlockMutex(t) => pc[t].at \in {"locked", "unlocking"} /\ pc'[t].at = "idle"
    BY DEF SetTransacting, UnlockMutex, TypeOK, Idle
  <2>5. \A s \in Slots, l \in Logs : BeginTransaction(t, s, l) => pc[t].at = "idle" /\ pc'[t].at = "locking"
    BY DEF BeginTransaction, TypeOK, Idle
  <2>6. pc[t].at \notin {"record", "segment"} /\ pc'[t].at \notin {"record", "segment"}
    BY <1>4, <2>2, <2>3, <2>4, <2>5
  <2>. QED BY <1>1, <2>1, <2>6
<1>5. ASSUME NEW t \in Threads,
             \/ \E from, to \in Slots : MoveConstruct(t, from, to)
             \/ \E s \in Slots, c \in Contents : GenerateRecord(t, s, c)
             \/ \E s \in Slots : \E i \in DOMAIN log[Base(t, s)] : SegmentFrom(t, s, i)
      PROVE  HeaderInv'
  BY <1>1, <1>5 DEF MoveConstruct, GenerateRecord, SegmentFrom
<1>6. CASE UNCHANGED vars
  BY <1>6 DEF vars, HeaderInv, HeaderInvOf, HashSeen, Uncounted, RecordWriting, Writing, LogVerification
<1>. QED
  BY <1>2, <1>3, <1>4, <1>5, <1>6, HeaderWriteRecord, HeaderFinishRecord, HeaderPushNext,
     HeaderFinishSegment, HeaderFailAllocation DEF Next, Step

(* The header counts no record that is not there and misses at most one    *)
(* for each write cut short; between writes it is exact as long as none    *)
(* was (log_transaction.cpp:44-59, 137-142).                               *)
THEOREM HeadersHonest ==
  ASSUME MoveValid, KeepLog
  PROVE  Spec => []HeaderHonest
<1>1. Init => LockInv /\ HeaderInv
  BY LockInit, HeaderInit
<1>2. TypeOK /\ LockInv /\ [Next]_vars => LockInv'
  BY LockStep
<1>3. TypeOK /\ TypeOK' /\ LockInv /\ HeaderInv /\ [Next]_vars => HeaderInv'
  BY HeaderStep
<1>4. TypeOK /\ HeaderInv => HeaderHonest
  <2> SUFFICES ASSUME TypeOK, HeaderInv, NEW l \in Logs
               PROVE  /\ Len(log[l]) - header[l].num >= 0
                      /\ Len(log[l]) - header[l].num <= faults + (IF Writing(l) THEN 1 ELSE 0)
                      /\ HashSeen(l)
                      /\ (faults = 0 /\ ~Writing(l)) =>
                           /\ Len(log[l]) - header[l].num = 0
                           /\ log[l] # <<>> => LogVerification(l)
    BY DEF HeaderHonest, HashSeen
  <2>1. header[l].num \in Nat /\ Len(log[l]) \in Nat /\ faults \in Nat
    BY BoundAssumption DEF TypeOK
  <2>2. RecordWriting(l) => Writing(l)
    BY DEF RecordWriting, Writing
  <2>. QED BY <2>1, <2>2 DEF HeaderInv, HeaderInvOf, Uncounted
<1>. QED BY <1>1, <1>2, <1>3, <1>4, TypeCorrect, PTL DEF Spec

--------------------------------------------------------------------------------
(* Records on the wire                                                     *)
(* The cells of a sequence of bytes                                        *)
Cell ==
  {[hash |-> r, msg_size |-> m] : r \in Record, m \in Nat}
    \cup {[num |-> m, hash |-> h] : m \in Nat, h \in Hash}
    \cup UNION {Range(Characters[c]) : c \in Contents}

LEMMA ContentType ==
  ASSUME NEW record \in Record
  PROVE  Characters[Last(record)] \in Seq(Cell) /\ Len(Characters[Last(record)]) \in Nat
<1>. PICK c : c = Last(record)
  OBVIOUS
<1>1. c \in Contents
  BY DEF Last, Record
<1>2. Characters[c] \in Seq(Range(Characters[c])) /\ Range(Characters[c]) \subseteq Cell
  BY <1>1, CharactersAssumption DEF Cell
<1>3. Characters[c] \in Seq(Cell)
  BY <1>2, SeqMonotonic
<1>. QED BY <1>3, LenProperties

(* The size in the header of a record is that of its content               *)
Honest(record) == MsgSize(record) = Len(Characters[Last(record)])
AllHonest(records) == \A i \in 1..Len(records) : Honest(records[i])

LEMMA SerialiseType ==
  ASSUME NEW record \in Record, Honest(record), NEW content, content = Characters[Last(record)]
  PROVE  /\ Serialise(record) \in Seq(Cell)
         /\ Behind(Serialise(record), <<[hash |-> record, msg_size |-> Len(content)]>>, content)
         /\ Len(Serialise(record)) = 1 + Len(content)
<1>. PICK head : head = [hash |-> record, msg_size |-> Len(content)]
  OBVIOUS
<1>1. content \in Seq(Cell) /\ Len(content) \in Nat
  BY ContentType
<1>2. head \in Cell
  BY <1>1 DEF Cell
<1>3. <<head>> \in Seq(Cell) /\ Len(<<head>>) = 1 /\ <<head>>[1] = head
  BY <1>2
<1>4. Serialise(record) = Joined(<<head>>, content)
  BY DEF Serialise, Honest, Joined
<1>5. Joined(<<head>>, content) \in Seq(Cell) /\ Behind(Joined(<<head>>, content), <<head>>, content)
  BY <1>1, <1>3, JoinedProperties
<1>. QED BY <1>3, <1>4, <1>5 DEF Behind

(* A record is read where it stands, whatever lies around it               *)
LEMMA ContentRead ==
  ASSUME NEW bytes, NEW p \in Nat, NEW content \in Seq(Cell), Stands(bytes, p, content)
  PROVE  SubSeq(bytes, p + 1, p + Len(content)) = content
BY StandsRange

LEMMA HeaderRead ==
  ASSUME NEW bytes, NEW p \in Nat, NEW record, NEW content \in Seq(Cell),
         bytes[p] = [hash |-> record, msg_size |-> Len(content)], Stands(bytes, p, content),
         p + Len(content) <= Len(bytes)
  PROVE  DeserialiseAt(bytes, p) = [hash |-> record, content |-> content]
<1>1. bytes[p].hash = record /\ bytes[p].msg_size = Len(content)
  OBVIOUS
<1>2. SubSeq(bytes, p + 1, p + Len(content)) = content
  BY ContentRead
<1>. QED BY <1>1, <1>2, Zenon DEF DeserialiseAt

LEMMA RecordRead ==
  ASSUME NEW bytes, NEW at \in Nat, NEW record \in Record, Honest(record),
         NEW content, content = Characters[Last(record)],
         Stands(bytes, at, Serialise(record)), at + 1 + Len(content) <= Len(bytes)
  PROVE  DeserialiseAt(bytes, at + 1) = [hash |-> record, content |-> content]
<1>. PICK head : head = [hash |-> record, msg_size |-> Len(content)]
  OBVIOUS
<1>1. content \in Seq(Cell) /\ Len(content) \in Nat /\ Behind(Serialise(record), <<head>>, content)
  BY ContentType, SerialiseType
<1>2. Len(<<head>>) = 1 /\ <<head>>[1] = head
  OBVIOUS
<1>3. Stands(bytes, at, <<head>>) /\ Stands(bytes, at + 1, content)
  BY <1>1, <1>2, StandsApart
<1>4. bytes[at + 1] = head
  BY <1>2, <1>3 DEF Stands
<1>5. at + 1 \in Nat /\ bytes[at + 1] = [hash |-> record, msg_size |-> Len(content)]
  BY <1>4
<1>. QED BY <1>1, <1>3, <1>5, HeaderRead, Zenon

(* The whole of a segment: its header, and its records one behind another  *)
RecordLaid(bytes, from, to, record) ==
  /\ to = from + 1 + Len(Characters[Last(record)]) /\ to <= Len(bytes)
  /\ Stands(bytes, from, Serialise(record))

Laid(bytes, records, n, end) ==
  /\ end \in [0..n -> Nat]
  /\ end[0] = 1
  /\ \A i \in 1..n : RecordLaid(bytes, end[i - 1], end[i], records[i])

LEMMA PieceLaid ==
  ASSUME NEW n, NEW pieces, NEW g, NEW i, Fits(g[n], g, pieces, n, i), NEW bytes, Stands(bytes, 1, g[n]),
         Len(bytes) = 1 + Len(g[n]),
         NEW record \in Record, Honest(record), pieces[i] = Serialise(record),
         NEW from, NEW to, from = 1 + Len(g[i - 1]), to = 1 + Len(g[i])
  PROVE  RecordLaid(bytes, from, to, record)
<1>0. PICK size : size = Len(Characters[Last(record)])
  OBVIOUS
<1>1. size \in Nat /\ Len(pieces[i]) = 1 + size
  BY <1>0, ContentType, SerialiseType
<1>2. Stands(bytes, from, Serialise(record))
  <2>1. Stands(bytes, 1 + Len(g[i - 1]), pieces[i])
    BY PieceStandsBehindOne, Zenon
  <2>. QED BY <2>1
<1>3. PICK x : x = Len(g[i - 1])
  OBVIOUS
<1>4. x \in Nat /\ from = 1 + x
  BY <1>3 DEF Fits
<1>5. to = 1 + (x + (1 + size))
  BY <1>1, <1>3 DEF Fits
<1>6. to = from + 1 + size
  BY <1>1, <1>4, <1>5
<1>7. to <= Len(bytes)
  <2>. PICK y, z : y = Len(g[i]) /\ z = Len(g[n])
    OBVIOUS
  <2>1. y <= z /\ z \in Nat /\ y = x + (1 + size)
    BY <1>1, <1>3 DEF Fits
  <2>2. to = 1 + y /\ Len(bytes) = 1 + z
    OBVIOUS
  <2>. QED BY <1>1, <1>4, <2>1, <2>2
<1>. QED BY <1>0, <1>2, <1>6, <1>7 DEF RecordLaid

LEMMA SegmentLaid ==
  ASSUME NEW records \in Seq(Record), NEW num \in Nat, NEW hash \in Hash, NEW n, n = Len(records),
         AllHonest(records)
  PROVE  /\ SegmentBytes(num, hash, records)[1] = [num |-> num, hash |-> hash]
         /\ \E end : Laid(SegmentBytes(num, hash, records), records, n, end)
<1> DEFINE pieces == [i \in DOMAIN records |-> Serialise(records[i])]
<1>1. n \in Nat /\ DOMAIN records = 1..n /\ \A i \in 1..n : records[i] \in Record /\ Honest(records[i])
  BY LenProperties, ElementOfSeq DEF AllHonest
<1>2. \A i \in 1..n : /\ pieces[i] = Serialise(records[i]) /\ pieces[i] \in Seq(Cell)
                      /\ Len(pieces[i]) = 1 + Len(Characters[Last(records[i])])
                      /\ Len(Characters[Last(records[i])]) \in Nat
  BY <1>1, SerialiseType, ContentType
<1>3. pieces \in Seq(Seq(Cell)) /\ Len(pieces) = n
  BY <1>1, <1>2
<1>4. SerialiseAll(records) = FlattenSeq(pieces)
  BY DEF SerialiseAll
<1> HIDE DEF pieces
<1>5. PICK g : Pieced(g, pieces, n, Cell) /\ SerialiseAll(records) = g[n]
  BY <1>3, <1>4, FlattenPieces
<1>6. g[0] = <<>> /\ \A i \in 0..n : g[i] \in Seq(Cell) /\ Len(g[i]) \in Nat
  BY <1>5, LenProperties DEF Pieced
<1>. PICK bytes, head, body : /\ head = [num |-> num, hash |-> hash] /\ body = g[n]
                              /\ bytes = SegmentBytes(num, hash, records)
  OBVIOUS
<1>7. bytes[1] = head /\ Stands(bytes, 1, body) /\ body \in Seq(Cell) /\ Len(bytes) = 1 + Len(body)
  <2>1. head \in Cell /\ body \in Seq(Cell)
    BY <1>1, <1>6 DEF Cell
  <2>2. <<head>> \in Seq(Cell) /\ Len(<<head>>) = 1 /\ <<head>>[1] = head
    BY <2>1
  <2>3. bytes = Joined(<<head>>, body)
    BY <1>5 DEF SegmentBytes, Joined
  <2>4. Behind(bytes, <<head>>, body)
    BY <2>1, <2>2, <2>3, JoinedProperties
  <2>. QED BY <2>1, <2>2, <2>4 DEF Behind, Stands
<1> DEFINE end == [i \in 0..n |-> 1 + Len(g[i])]
<1>8. end \in [0..n -> Nat] /\ end[0] = 1
  <2>1. Len(g[0]) = 0
    BY <1>6
  <2>. QED BY <1>1, <1>6, <2>1
<1>10. Stands(bytes, 1, g[n]) /\ Len(bytes) = 1 + Len(g[n])
  BY <1>7
<1>11. ASSUME NEW i \in 1..n PROVE RecordLaid(bytes, end[i - 1], end[i], records[i])
  <2>1. Fits(g[n], g, pieces, n, i)
    BY <1>1, <1>5, PieceStands
  <2>2. end[i] = 1 + Len(g[i]) /\ end[i - 1] = 1 + Len(g[i - 1])
    BY <1>1
  <2>3. records[i] \in Record /\ Honest(records[i]) /\ pieces[i] = Serialise(records[i])
    BY <1>1, <1>2
  <2> HIDE DEF end
  <2>. QED BY <1>10, <2>1, <2>2, <2>3, PieceLaid
<1> HIDE DEF end
<1>. QED BY <1>7, <1>8, <1>11 DEF Laid

(* Where log_segment::deserialise reads its records: two runs of its loop  *)
(* read at the same places                                                 *)
After(bytes, p) == p + 1 + Len(DeserialiseAt(bytes, p).content)

Places(bytes, n, f) == \A i \in 1..n : f[i] = IF i = 1 THEN 2 ELSE After(bytes, f[i - 1])

LEMMA SamePlaces ==
  ASSUME NEW bytes, NEW n \in Nat, NEW f, NEW h, Places(bytes, n, f), Places(bytes, n, h)
  PROVE  \A i \in 1..n : f[i] = h[i]
<1> DEFINE S == {i \in 0..n : i = 0 \/ f[i] = h[i]}
<1>1. 0 \in S
  OBVIOUS
<1>2. ASSUME NEW i \in 1..n, i - 1 \in S PROVE i \in S
  <2>1. CASE i = 1
    BY <2>1 DEF Places
  <2>2. CASE i # 1
    <3>1. f[i - 1] = h[i - 1]
      BY <1>2, <2>2
    <3>2. f[i] = After(bytes, f[i - 1]) /\ h[i] = After(bytes, h[i - 1])
      BY <2>2 DEF Places
    <3>. QED BY <3>1, <3>2
  <2>. QED BY <2>1, <2>2
<1> HIDE DEF S
<1>3. \A i \in 0..n : i \in S
  BY <1>1, <1>2, Induction
<1>. QED BY <1>3 DEF S

(* and where the records are laid is where it reads them                   *)
LEMMA LaidPlaces ==
  ASSUME NEW records \in Seq(Record), NEW n, n = Len(records), NEW bytes,
         AllHonest(records),
         NEW end, Laid(bytes, records, n, end), NEW f, \A i \in 1..n : f[i] = end[i - 1] + 1
  PROVE  /\ Places(bytes, n, f)
         /\ \A i \in 1..n : DeserialiseAt(bytes, f[i])
                              = [hash |-> records[i], content |-> Characters[Last(records[i])]]
<1>1. n \in Nat /\ \A i \in 1..n : records[i] \in Record
  BY LenProperties, ElementOfSeq
<1>2. ASSUME NEW i \in 1..n
      PROVE  DeserialiseAt(bytes, f[i]) = [hash |-> records[i], content |-> Characters[Last(records[i])]]
  <2>1. end[i - 1] \in Nat /\ RecordLaid(bytes, end[i - 1], end[i], records[i])
    BY SMTT(20), <1>1 DEF Laid
  <2>2. /\ Stands(bytes, end[i - 1], Serialise(records[i]))
        /\ end[i - 1] + 1 + Len(Characters[Last(records[i])]) <= Len(bytes)
    BY <2>1 DEF RecordLaid
  <2>3. records[i] \in Record /\ Honest(records[i]) /\ f[i] = end[i - 1] + 1
    BY <1>1 DEF AllHonest
  <2>. QED BY <2>1, <2>2, <2>3, RecordRead
<1>3. ASSUME NEW i \in 1..n, i # 1 PROVE f[i] = After(bytes, f[i - 1])
  <2>1. i - 1 \in 1..n
    BY <1>1, <1>3
  <2>2. PICK j : j = i - 1
    OBVIOUS
  <2>3. j \in 1..n /\ f[i] = end[j] + 1 /\ f[j] = end[j - 1] + 1
    BY <2>1, <2>2
  <2>4. DeserialiseAt(bytes, f[j]).content = Characters[Last(records[j])]
    <3>1. DeserialiseAt(bytes, f[j]) = [hash |-> records[j], content |-> Characters[Last(records[j])]]
      BY <1>2, <2>3, Zenon
    <3>. QED BY <3>1
  <2>5. end[j] = end[j - 1] + 1 + Len(Characters[Last(records[j])])
    BY <2>3 DEF Laid, RecordLaid
  <2>6. end[j - 1] \in Nat /\ Len(Characters[Last(records[j])]) \in Nat
    BY SMTT(20), <1>1, <2>3, ContentType DEF Laid
  <2>7. f[i] = f[j] + 1 + Len(Characters[Last(records[j])])
    BY <2>3, <2>5, <2>6
  <2>. QED BY <2>2, <2>4, <2>7 DEF After
<1>4. ASSUME NEW i \in 1..n, i = 1 PROVE f[i] = 2
  BY <1>4 DEF Laid
<1>. QED BY <1>2, <1>3, <1>4 DEF Places

LEMMA SegmentRead ==
  ASSUME NEW records \in Seq(Record), NEW hash \in Hash,
         AllHonest(records)
  PROVE  Deserialise(SegmentBytes(Len(records), hash, records))
           = [hash |-> hash,
              records |-> [i \in DOMAIN records |->
                            [hash |-> records[i], content |-> Characters[Last(records[i])]]]]
<1>1. PICK n : n = Len(records)
  OBVIOUS
<1>2. n \in Nat /\ DOMAIN records = 1..n
  BY <1>1, LenProperties
<1>3. PICK bytes : bytes = SegmentBytes(n, hash, records)
  OBVIOUS
<1>4. bytes[1] = [num |-> n, hash |-> hash]
  BY <1>1, <1>2, <1>3, SegmentLaid
<1>5. PICK end : Laid(bytes, records, n, end)
  BY <1>1, <1>2, <1>3, SegmentLaid
<1> DEFINE f == [i \in 1..n |-> end[i - 1] + 1]
<1>6. \A i \in 1..n : f[i] = end[i - 1] + 1
  OBVIOUS
<1>7. f = [i \in 1..n |-> f[i]]
  OBVIOUS
<1> HIDE DEF f
<1>8. /\ Places(bytes, n, f)
      /\ \A i \in 1..n : DeserialiseAt(bytes, f[i])
                           = [hash |-> records[i], content |-> Characters[Last(records[i])]]
  BY <1>1, <1>5, <1>6, LaidPlaces, SMTT(30)
<1> DEFINE Reads(g) == g = [i \in 1..n |-> IF i = 1 THEN 2
                                           ELSE g[i - 1] + 1 + Len(DeserialiseAt(bytes, g[i - 1]).content)]
           at == CHOOSE g : Reads(g)
<1>9. Reads(f)
  BY <1>7, <1>8 DEF Places, After
<1>10. Reads(at)
  BY <1>9
<1>11. Deserialise(bytes) = [hash |-> hash, records |-> [i \in 1..n |-> DeserialiseAt(bytes, at[i])]]
  BY <1>4 DEF Deserialise
<1> HIDE DEF at
<1>12. Places(bytes, n, at)
  BY <1>10 DEF Places, After
<1>13. \A i \in 1..n : at[i] = f[i]
  BY <1>2, <1>8, <1>12, SamePlaces
<1>14. [i \in 1..n |-> DeserialiseAt(bytes, at[i])]
         = [i \in 1..n |-> [hash |-> records[i], content |-> Characters[Last(records[i])]]]
  BY <1>8, <1>13
<1>. QED BY <1>1, <1>2, <1>3, <1>11, <1>14, Zenon

(* Only the first record of a chain may have another size in its header    *)
LEMMA LaterHonest ==
  ASSUME NEW record \in Record, Front(record) # <<>>
  PROVE  Honest(record)
BY DEF Honest, MsgSize

(* A segment of any log, sent and read again, has its records, each with   *)
(* its hash and its content, whatever the contents are and whatever size   *)
(* was left in the header of the first record of the log: a segment begins *)
(* behind that one, and only a record without a record before it keeps the *)
(* size (log_segment.cpp:22-40, 76-86, activity.cpp:7-32, 50-77).          *)
THEOREM WireKeepsSegments ==
  ASSUME MoveValid, KeepLog, Careful
  PROVE  Spec => []SegmentsSurviveTheWire
<1>1. ASSUME TypeOK, ChainIntact, NEW l \in Logs, NEW i \in DOMAIN log[l],
             NEW segment, segment = SubSeq(log[l], i + 1, Len(log[l]))
      PROVE  LET read == Deserialise(SegmentBytes(Len(segment), header[l].hash, segment))
             IN  /\ read.hash = header[l].hash
                 /\ read.records = [j \in DOMAIN segment |->
                                     [hash |-> segment[j], content |-> Characters[Last(segment[j])]]]
  <2>1. log[l] \in Seq(Record) /\ header[l].hash \in Hash
    BY <1>1 DEF TypeOK
  <2>2. PICK n : n = Len(log[l]) /\ n \in Nat /\ i \in 1..n /\ \A k \in 1..n : log[l][k] \in Record
    BY <2>1, LenProperties, ElementOfSeq
  <2>3. segment \in Seq(Record)
    BY <1>1, <2>1, SegmentType
  <2>4. \A j \in 1..Len(segment) : i + j \in 2..n /\ segment[j] = log[l][i + j]
    BY <1>1, <2>1, <2>2
  <2>5. ASSUME NEW j \in 1..Len(segment)
        PROVE  Honest(segment[j])
    <3>. PICK k : k = i + j
      OBVIOUS
    <3>1. k \in 2..n /\ k - 1 \in 1..n /\ segment[j] = log[l][k]
      BY <2>2, <2>4
    <3>2. Front(log[l][k]) = log[l][k - 1]
      <4>1. k \in DOMAIN log[l] /\ k # 1
        BY <2>1, <2>2, <3>1
      <4>. QED BY <1>1, <4>1, Zenon DEF ChainIntact
    <3>3. log[l][k - 1] \in Record /\ log[l][k] \in Record
      BY <2>2, <3>1
    <3>4. Front(log[l][k]) # <<>>
      BY <3>2, <3>3 DEF Record
    <3>. QED BY <3>1, <3>3, <3>4, LaterHonest
  <2>6. AllHonest(segment)
    BY <2>5 DEF AllHonest
  <2>7. PICK read : read = Deserialise(SegmentBytes(Len(segment), header[l].hash, segment))
    OBVIOUS
  <2>8. read = [hash |-> header[l].hash,
                records |-> [j \in DOMAIN segment |->
                              [hash |-> segment[j], content |-> Characters[Last(segment[j])]]]]
    BY <2>1, <2>3, <2>6, <2>7, SegmentRead, Zenon
  <2>9. read.hash = header[l].hash /\ read.records = [j \in DOMAIN segment |->
                              [hash |-> segment[j], content |-> Characters[Last(segment[j])]]]
    BY <2>8
  <2>. QED BY <2>7, <2>9, Zenon
<1>2. TypeOK /\ ChainIntact => SegmentsSurviveTheWire
  <2>. SUFFICES ASSUME TypeOK, ChainIntact, NEW l \in Logs, NEW i \in DOMAIN log[l]
                PROVE  LET segment == SubSeq(log[l], i + 1, Len(log[l]))
                           read == Deserialise(SegmentBytes(Len(segment), header[l].hash, segment))
                       IN  /\ read.hash = header[l].hash
                           /\ read.records = [j \in DOMAIN segment |->
                                 [hash |-> segment[j], content |-> Characters[Last(segment[j])]]]
    BY Zenon DEF SegmentsSurviveTheWire
  <2>. PICK segment : segment = SubSeq(log[l], i + 1, Len(log[l]))
    OBVIOUS
  <2>. QED BY <1>1, Zenon
<1>. QED BY <1>2, TypeCorrect, ChainUnbroken, PTL

================================================================================
