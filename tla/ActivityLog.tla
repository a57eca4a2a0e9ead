------------------------------ MODULE ActivityLog ------------------------------
(***************************************************************************)
(* Activity logs and the transactions threads open on them                 *)
(* (shared/activity/activity_log.cpp and log_transaction.cpp).             *)
(*                                                                         *)
(* A log_transaction locks the log's mutex when begin_transaction makes it *)
(* and unlocks it when it is destroyed; moving one leaves the old object   *)
(* invalid.  Everything that reads or writes records goes through a valid  *)
(* transaction; only activity_log::transacting() reads without the lock,   *)
(* so setting and clearing the flag are steps of their own here.           *)
(*                                                                         *)
(* Hashes are ideal: two are equal exactly when they were computed from    *)
(* the same data.  A record's hash is computed from its content and the    *)
(* hash of the record before it, so a record is modelled by its ancestry:  *)
(* the contents from the first record to itself.  Its hash is that too.    *)
(* The log's own hash is computed from all its records.                    *)
(***************************************************************************)
EXTENDS Integers, SequencesExt

CONSTANTS
  Threads,
  Nobody,       \* no thread
  Logs,         \* the logs the program has
  Slots,        \* the log_transaction variables of a thread
  Contents,     \* what a record says
  MoveValid,    \* callers move only transactions that are valid
  KeepLog,      \* callers assign a transaction only to one of the same log
  Careful,      \* callers verify the head of what they write
  MaxLen,       \* bound: the records of a log
  MaxFaults     \* bound: failed allocations

ASSUME NobodyAssumption == Nobody \notin Threads
ASSUME LogsAssumption == Logs # {}
ASSUME PolicyAssumption == {MoveValid, KeepLog, Careful} \subseteq BOOLEAN
ASSUME BoundAssumption == MaxLen \in Nat /\ MaxFaults \in Nat

Record == Seq(Contents) \ {<<>>}

(* hash512: hash{{0}} of a header that was never written, or the hash of   *)
(* the records it was computed from.                                       *)
ZeroHash == <<>>
LogHash(records) == <<records>>
Hash == Seq(Seq(Record))

Transaction == [state : {"none", "valid", "moved"}, base : Logs]

(* Where a thread may be: outside of every call, or in the middle of one *)
Idle == [at |-> "idle"]
Call == [at : {"locking", "locked", "unlocking", "record"}, slot : Slots, log : Logs]
SegmentCall == [at : {"segment"}, slot : Slots, log : Logs, todo : Seq(Record)]

VARIABLES
  mutex,        \* activity_log::m_mutex: its holder, or Nobody
  transacting,  \* activity_log::m_transacting
  log,          \* activity_log::m_log
  header,       \* activity_log::m_header
  trans,        \* the log_transaction objects of each thread
  draft,        \* the records each thread has generated or cut from a log
  pc,           \* where in a call each thread is
  faults        \* failed allocations so far

vars == <<mutex, transacting, log, header, trans, draft, pc, faults>>

NoTrans(l) == [state |-> "none", base |-> l]

Valid(t, s) == trans[t][s].state = "valid"
Base(t, s) == trans[t][s].base

Init ==
  /\ mutex = [l \in Logs |-> Nobody]
  /\ transacting = [l \in Logs |-> FALSE]
  /\ log = [l \in Logs |-> <<>>]
  /\ header = [l \in Logs |-> [num |-> 0, hash |-> ZeroHash]]
  /\ trans = [t \in Threads |-> [s \in Slots |-> NoTrans(CHOOSE l \in Logs : TRUE)]]
  /\ draft = [t \in Threads |-> <<>>]
  /\ pc = [t \in Threads |-> Idle]
  /\ faults = 0

--------------------------------------------------------------------------------
(* activity_log::begin_transaction and the constructor of log_transaction. *)
(* Nothing stops a caller that has a transaction from beginning another:   *)
(* threads that take two logs in either order may wait for each other, and *)
(* one that begins a second transaction on a log waits for itself, which   *)
(* is what std::mutex::lock comes to though its result is undefined.       *)
BeginTransaction(t, s, l) ==
  /\ pc[t] = Idle
  /\ trans[t][s].state = "none"
  /\ pc' = [pc EXCEPT ![t] = [at |-> "locking", slot |-> s, log |-> l]]
  /\ UNCHANGED <<mutex, transacting, log, header, trans, draft, faults>>

CanLockAlways(l) == TRUE   \* a mistake: begin_transaction does not lock
CanLock(l) == mutex[l] = Nobody

LockMutex(t) ==
  /\ pc[t].at = "locking"
  /\ CanLock(pc[t].log)
  /\ mutex' = [mutex EXCEPT ![pc[t].log] = t]
  /\ pc' = [pc EXCEPT ![t].at = "locked"]
  /\ UNCHANGED <<transacting, log, header, trans, draft, faults>>

SetTransacting(t) ==
  /\ pc[t].at = "locked"
  /\ transacting' = [transacting EXCEPT ![pc[t].log] = TRUE]
  /\ trans' = [trans EXCEPT ![t][pc[t].slot] = [state |-> "valid", base |-> pc[t].log]]
  /\ pc' = [pc EXCEPT ![t] = Idle]
  /\ UNCHANGED <<mutex, log, header, draft, faults>>

(* The destructor of log_transaction and activity_log::end_transaction *)
Destroy(t, s) ==
  /\ pc[t] = Idle
  /\ trans[t][s].state # "none"
  /\ trans' = [trans EXCEPT ![t][s] = NoTrans(Base(t, s))]
  /\ IF Valid(t, s)
       THEN /\ transacting' = [transacting EXCEPT ![Base(t, s)] = FALSE]
            /\ pc' = [pc EXCEPT ![t] = [at |-> "unlocking", slot |-> s, log |-> Base(t, s)]]
       ELSE UNCHANGED <<transacting, pc>>
  /\ UNCHANGED <<mutex, log, header, draft, faults>>

UnlockMutex(t) ==
  /\ pc[t].at = "unlocking"
  /\ mutex' = [mutex EXCEPT ![pc[t].log] = Nobody]
  /\ pc' = [pc EXCEPT ![t] = Idle]
  /\ UNCHANGED <<transacting, log, header, trans, draft, faults>>

MayMove(t, s) == Valid(t, s) \/ (~MoveValid /\ trans[t][s].state = "moved")

(* What a move makes of the object it is made from *)
Untouched(tr) == tr   \* a mistake: orig.m_valid is left set
Emptied(tr) == [state |-> "moved", base |-> tr.base]

(* The handles of a thread after a move: one is valid on log l, one is not *)
HandOver(handles, from, to, l) ==
  [handles EXCEPT ![to] = [state |-> "valid", base |-> l],
                  ![from] = Emptied(handles[from])]

(* The move constructor: what it makes is valid, whatever it was made from *)
MoveConstruct(t, from, to) ==
  /\ pc[t] = Idle
  /\ MayMove(t, from)
  /\ trans[t][to].state = "none"
  /\ trans' = [trans EXCEPT ![t] = HandOver(@, from, to, Base(t, from))]
  /\ UNCHANGED <<mutex, transacting, log, header, draft, pc, faults>>

(* The move assignment: its members are references, so it copies the other *)
(* transaction's log and header into its own log instead of changing over. *)
MoveAssign(t, from, to) ==
  /\ pc[t] = Idle
  /\ from # to
  /\ MayMove(t, from)
  /\ trans[t][to].state # "none"
  /\ KeepLog => Base(t, from) = Base(t, to)
  /\ log' = [log EXCEPT ![Base(t, to)] = log[Base(t, from)]]
  /\ header' = [header EXCEPT ![Base(t, to)] = header[Base(t, from)]]
  /\ trans' = [trans EXCEPT ![t] = HandOver(@, from, to, Base(t, to))]
  /\ UNCHANGED <<mutex, transacting, draft, pc, faults>>

--------------------------------------------------------------------------------
(* The hash a new record is salted with: none for the first *)
TipFront(records) == IF records = <<>> THEN <<>> ELSE Head(records)   \* a mistake: front()
Tip(records) == IF records = <<>> THEN <<>> ELSE Last(records)

(* head_verification; a caller cannot ask it about an empty log, and there *)
(* accepts a record that was hashed without a salt.                        *)
HeadUnverified(records, r) == TRUE   \* a mistake: any record will do
HeadVerification(records, r) == Front(r) = Tip(records)

(* activity::rehash over the content with the hash of the record before *)
SaltOnly(records, c) == Tip(records)   \* a mistake: the content is not hashed
Salted(records, c) == Append(Tip(records), c)

GenerateRecord(t, s, c) ==
  /\ pc[t] = Idle
  /\ Valid(t, s)
  /\ draft' = [draft EXCEPT ![t] = <<Salted(log[Base(t, s)], c)>>]
  /\ UNCHANGED <<mutex, transacting, log, header, trans, pc, faults>>

(* segment_from: what follows the first record with the hash of record i;  *)
(* without such a record it throws and changes nothing.                    *)
SegmentFrom(t, s, i) ==
  LET records == log[Base(t, s)]
  IN  /\ pc[t] = Idle
      /\ Valid(t, s)
      /\ \A j \in 1..(i - 1) : records[j] # records[i]
      /\ draft' = [draft EXCEPT ![t] = SubSeq(records, i + 1, Len(records))]
      /\ UNCHANGED <<mutex, transacting, log, header, trans, pc, faults>>

MayWrite(t, s) ==
  /\ pc[t] = Idle
  /\ Valid(t, s)
  /\ Len(log[Base(t, s)]) + Len(draft[t]) <= MaxLen
  /\ (Careful /\ draft[t] # <<>>) => HeadVerification(log[Base(t, s)], Head(draft[t]))

(* write_record: push, then rehash, then count; rehashing allocates *)
WriteRecord(t, s) ==
  /\ MayWrite(t, s)
  /\ Len(draft[t]) = 1
  /\ log' = [log EXCEPT ![Base(t, s)] = Append(@, Head(draft[t]))]
  /\ pc' = [pc EXCEPT ![t] = [at |-> "record", slot |-> s, log |-> Base(t, s)]]
  /\ UNCHANGED <<mutex, transacting, header, trans, draft, faults>>

(* A mistake: the record is not counted *)
FinishUncounted(t) ==
  LET l == pc[t].log
  IN  /\ pc[t].at = "record"
      /\ header' = [header EXCEPT ![l].hash = LogHash(log[l])]
      /\ pc' = [pc EXCEPT ![t] = Idle]
      /\ UNCHANGED <<mutex, transacting, log, trans, draft, faults>>

FinishRecord(t) ==
  LET l == pc[t].log
  IN  /\ pc[t].at = "record"
      /\ header' = [header EXCEPT ![l] = [num |-> header[l].num + 1, hash |-> LogHash(log[l])]]
      /\ pc' = [pc EXCEPT ![t] = Idle]
      /\ UNCHANGED <<mutex, transacting, log, trans, draft, faults>>

(* write_segment: push and count every record, then rehash *)
WriteSegment(t, s) ==
  /\ MayWrite(t, s)
  /\ pc' = [pc EXCEPT ![t] = [at |-> "segment", slot |-> s, log |-> Base(t, s), todo |-> draft[t]]]
  /\ UNCHANGED <<mutex, transacting, log, header, trans, draft, faults>>

PushNext(t) ==
  /\ pc[t].at = "segment"
  /\ pc[t].todo # <<>>
  /\ log' = [log EXCEPT ![pc[t].log] = Append(@, Head(pc[t].todo))]
  /\ header' = [header EXCEPT ![pc[t].log].num = @ + 1]
  /\ pc' = [pc EXCEPT ![t].todo = Tail(@)]
  /\ UNCHANGED <<mutex, transacting, trans, draft, faults>>

(* A mistake: rewrite_log_hash is not called *)
FinishUnhashed(t) ==
  /\ pc[t].at = "segment"
  /\ pc[t].todo = <<>>
  /\ pc' = [pc EXCEPT ![t] = Idle]
  /\ UNCHANGED <<mutex, transacting, log, header, trans, draft, faults>>

FinishSegment(t) ==
  /\ pc[t].at = "segment"
  /\ pc[t].todo = <<>>
  /\ header' = [header EXCEPT ![pc[t].log].hash = LogHash(log[pc[t].log])]
  /\ pc' = [pc EXCEPT ![t] = Idle]
  /\ UNCHANGED <<mutex, transacting, log, trans, draft, faults>>

(* An allocation fails in the middle of a write: the exception leaves the  *)
(* call, and what it had done so far stays done.                           *)
FailAllocation(t) ==
  /\ pc[t].at \in {"record", "segment"}
  /\ faults < MaxFaults
  /\ faults' = faults + 1
  /\ pc' = [pc EXCEPT ![t] = Idle]
  /\ UNCHANGED <<mutex, transacting, log, header, trans, draft>>

Step(t) ==
  \/ \E s \in Slots, l \in Logs : BeginTransaction(t, s, l)
  \/ LockMutex(t)
  \/ SetTransacting(t)
  \/ \E s \in Slots : Destroy(t, s)
  \/ UnlockMutex(t)
  \/ \E from, to \in Slots : MoveConstruct(t, from, to) \/ MoveAssign(t, from, to)
  \/ \E s \in Slots, c \in Contents : GenerateRecord(t, s, c)
  \/ \E s \in Slots : \E i \in DOMAIN log[Base(t, s)] : SegmentFrom(t, s, i)
  \/ \E s \in Slots : WriteRecord(t, s) \/ WriteSegment(t, s)
  \/ FinishRecord(t)
  \/ PushNext(t)
  \/ FinishSegment(t)
  \/ FailAllocation(t)

Next == \E t \in Threads : Step(t)

Spec == Init /\ [][Next]_vars

--------------------------------------------------------------------------------
(* Locks, handles, records and counters have their types. *)
TypeOK ==
  /\ mutex \in [Logs -> Threads \cup {Nobody}]
  /\ transacting \in [Logs -> BOOLEAN]
  /\ log \in [Logs -> Seq(Record)]
  /\ header \in [Logs -> [num : Nat, hash : Hash]]
  /\ trans \in [Threads -> [Slots -> Transaction]]
  /\ draft \in [Threads -> Seq(Record)]
  /\ pc \in [Threads -> {Idle} \cup Call \cup SegmentCall]
  /\ faults \in 0..MaxFaults

(* Thread t is between locking the mutex of l and having its handle, or    *)
(* between giving the handle up and unlocking.                             *)
Passing(t, l) == pc[t].at \in {"locked", "unlocking"} /\ pc[t].log = l

Live(t, s, l) == Valid(t, s) /\ Base(t, s) = l

(* A log has at most one valid transaction, in the thread that holds its   *)
(* mutex, and the mutex is held for nothing else: no move of a handle      *)
(* makes a second one or leaves a lock behind that no handle will release  *)
(* (activity_log.cpp:10-19, log_transaction.cpp:10-32).                    *)
OneTransaction ==
  \A l \in Logs :
    /\ \A t, u \in Threads, s, r \in Slots :
         Live(t, s, l) /\ Live(u, r, l) => t = u /\ s = r /\ mutex[l] = t
    /\ \A t \in Threads :
         mutex[l] = t <=> (Passing(t, l) \/ \E s \in Slots : Live(t, s, l))

(* "transacting() == true" while a transaction lives and "== false" when   *)
(* there is none (mod_activity_log.cpp:34-41), except for the moments in   *)
(* which begin_transaction and end_transaction are under way.              *)
TransactingMeansLive ==
  \A l \in Logs :
    (\A t \in Threads : ~Passing(t, l))
    => (transacting[l] <=> \E t \in Threads, s \in Slots : Live(t, s, l))

(* log_verification: the hash in the header is that of the records *)
LogVerification(l) == header[l].hash = LogHash(log[l])

(* A thread is writing records to l *)
Writing(l) == \E t \in Threads : pc[t].at \in {"record", "segment"} /\ pc[t].log = l

(* The header never claims what the log does not have: it counts no record *)
(* that is not there, misses at most one for each write that was cut short *)
(* and its hash is that of the log as it was at some time.  Between writes *)
(* it is exact as long as none was cut short, so log_verification succeeds *)
(* on every log that has a record (log_transaction.cpp:44-59, 137-142).    *)
HeaderHonest ==
  \A l \in Logs :
    LET records == log[l]
        missing == Len(records) - header[l].num
    IN  /\ missing >= 0
        /\ missing <= faults + (IF Writing(l) THEN 1 ELSE 0)
        /\ \/ header[l].hash = ZeroHash
           \/ \E n \in 0..Len(records) : header[l].hash = LogHash(SubSeq(records, 1, n))
        /\ (faults = 0 /\ ~Writing(l)) =>
             /\ missing = 0
             /\ records # <<>> => LogVerification(l)

(* Every record of a log is salted with the hash of the one before it and  *)
(* the first with none, whatever drafts and segments the threads held on   *)
(* to while others wrote (log_transaction.cpp:101-112, 144-149, 194-207).  *)
ChainIntact ==
  \A l \in Logs : \A i \in DOMAIN log[l] :
    Front(log[l][i]) = IF i = 1 THEN <<>> ELSE log[l][i - 1]

(* Each log is an append-only log under its lock: records are added at the *)
(* end, one at a time, only while somebody holds it, and none is ever      *)
(* changed or lost, by no move of a handle and no failed write either.     *)
Ledger(l) == INSTANCE AppendOnlyLog WITH
  entries <- log[l],
  holder <- mutex[l]

ImplementsLedger ==
  /\ \A l \in Logs : Ledger(l)!Init
  /\ [][\A l \in Logs : [Ledger(l)!Next]_(Ledger(l)!vars)]_vars

================================================================================
