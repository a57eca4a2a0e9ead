-------------------------------- MODULE LogWire --------------------------------
(***************************************************************************)
(* Records and segments as bytes: activity::serialise and deserialise      *)
(* (shared/activity/activity.cpp), those of log_segment (log_segment.cpp)  *)
(* and of log_transaction, whose bytes are also what a log is hashed over. *)
(*                                                                         *)
(* A header is one cell of the sequence of bytes, a character of a content *)
(* is another.  Nothing but msg_size says where a content ends.            *)
(***************************************************************************)
EXTENDS ActivityLog

CONSTANTS
  Characters,  \* the characters of a content
  HeaderOnly,  \* contents of records that are made from a header alone
  GivenSize    \* the msg_size in the header a record is made from

ASSUME CharactersAssumption ==
  /\ DOMAIN Characters = Contents
  /\ \A c \in Contents : Characters[c] \in Seq(Range(Characters[c]))
  /\ \A c \in HeaderOnly : Characters[c] = <<>>
ASSUME SizeAssumption == GivenSize \in [Contents -> Nat]

(* The constructors of a record set msg_size from the content, but one:    *)
(* without content and salt the size in the header given is kept.  That is *)
(* how generate_record makes the first record of a log from a header.      *)
SizeKept(record) ==   \* a mistake: it is kept with a salt too
  IF Last(record) \in HeaderOnly THEN GivenSize[Last(record)] ELSE Len(Characters[Last(record)])
MsgSize(record) ==
  IF Last(record) \in HeaderOnly /\ Front(record) = <<>>
    THEN GivenSize[Last(record)]
    ELSE Len(Characters[Last(record)])

Serialise(record) ==
  <<[hash |-> record, msg_size |-> MsgSize(record)]>> \o Characters[Last(record)]

SerialiseAll(records) == FlattenSeq([i \in DOMAIN records |-> Serialise(records[i])])

(* log_segment and its header, which has the hash of the whole log; the    *)
(* header of log_transaction::serialise is the log's own.                  *)
SegmentBytes(num, hash, records) == <<[num |-> num, hash |-> hash]>> \o SerialiseAll(records)

(* activity::deserialise: a record read from a position, and what it takes *)
(* as its content; past the end of the bytes that is what happens to lie   *)
(* there.                                                                  *)
WhatLiesThere == <<"?">>
DeserialiseAt(bytes, at) ==
  [ hash |-> bytes[at].hash,
    content |-> IF at + bytes[at].msg_size <= Len(bytes)
                  THEN SubSeq(bytes, at + 1, at + bytes[at].msg_size)
                  ELSE WhatLiesThere ]

(* log_segment::deserialise: as many records as the header counts, each    *)
(* from where the one before it ended.                                     *)
Deserialise(bytes) ==
  LET at[i \in 1..bytes[1].num] ==
        IF i = 1 THEN 2 ELSE at[i - 1] + 1 + Len(DeserialiseAt(bytes, at[i - 1]).content)
  IN  [hash |-> bytes[1].hash, records |-> [i \in 1..bytes[1].num |-> DeserialiseAt(bytes, at[i])]]

(* Whatever record a segment is cut after, sent and read again it has its  *)
(* records, each with its hash and its content, though contents are of any *)
(* length and nothing marks their ends (mod_activity_log.cpp:153-181).  A  *)
(* record whose msg_size is not that of its content would be read wrong    *)
(* with all that follow it.  There may be one in a log, made from a header *)
(* with a size left in it (activity.cpp:7-11, log_transaction.cpp:103),    *)
(* but it is the first, which no segment has, as long as nobody writes it  *)
(* further up: a stale draft is what ChainIntact is about.                 *)
SegmentsSurviveTheWire ==
  \A l \in Logs : \A i \in DOMAIN log[l] :
    LET segment == SubSeq(log[l], i + 1, Len(log[l]))
        read == Deserialise(SegmentBytes(Len(segment), header[l].hash, segment))
    IN  /\ read.hash = header[l].hash
        /\ read.records = [j \in DOMAIN segment |->
                            [hash |-> segment[j], content |-> Characters[Last(segment[j])]]]

================================================================================
