--------------------------- MODULE MetaspaceGsnProofs ---------------------------
(***************************************************************************)
(* Proofs about MetaspaceGsn, for any threads, queries and rows.  The type *)
(* invariant is inductive as it stands.                                    *)
(***************************************************************************)
EXTENDS MetaspaceGsn, TLAPS

Held(t) == pc[t] \in {"prepare", "step"}

(* The last conjunct of MetaTypeOK, thread by thread.                      *)
MutexHeld == /\ m_mutex \in Threads \cup {Nobody}
             /\ \A t \in Threads : Held(t) <=> m_mutex = t

LEMMA MutexIsHeld ==
  MutexHeld <=> {t \in Threads : pc[t] \in {"prepare", "step"}} = {m_mutex} \ {Nobody}
BY NobodyAssumption DEF MutexHeld, Held

(* The same of the next state                                              *)
LEMMA MutexIsHeldNext ==
  MutexHeld' <=> {t \in Threads : pc'[t] \in {"prepare", "step"}} = {m_mutex'} \ {Nobody}
BY NobodyAssumption DEF MutexHeld, Held

LEMMA CallStep ==
  ASSUME MetaTypeOK, NEW t \in Threads, NEW q \in Queries, Call(t, q)
  PROVE  MetaTypeOK'
<1>1. /\ pc' \in [Threads -> {"out", "lock", "prepare", "step"}]
      /\ asked' \in [Threads -> Queries]
      /\ answer' \in [Threads -> {NoAnswer, Empty} \cup {r.geosub : r \in Rows}]
  BY DEF Call, Goto, MetaTypeOK
<1>2. MutexHeld'
  BY MutexIsHeld DEF Call, Goto, MetaTypeOK, MutexHeld, Held
<1>. QED BY <1>1, <1>2, MutexIsHeldNext DEF Call, MetaTypeOK

LEMMA LockStep ==
  ASSUME MetaTypeOK, NEW t \in Threads, Lock(t) \/ Prepare(t)
  PROVE  MetaTypeOK'
<1>1. MutexHeld
  BY MutexIsHeld DEF MetaTypeOK
<1>2. UNCHANGED <<db, writing, asked, answer, pending>>
  BY DEF Lock, Prepare
<1>3. pc' \in [Threads -> {"out", "lock", "prepare", "step"}]
  BY DEF Lock, Prepare, Goto, MetaTypeOK
<1>4. MutexHeld'
  <2>1. CASE Lock(t)
    BY <1>1, <2>1, NobodyAssumption DEF Lock, Goto, MetaTypeOK, MutexHeld, Held
  <2>2. CASE Prepare(t)
    BY <1>1, <2>2, NobodyAssumption DEF Prepare, Goto, Unlocked, MetaTypeOK, MutexHeld, Held
  <2>. QED BY <2>1, <2>2
<1>. QED BY <1>2, <1>3, <1>4, MutexIsHeldNext DEF MetaTypeOK

LEMMA StepStep ==
  ASSUME MetaTypeOK, NEW t \in Threads, Step(t)
  PROVE  MetaTypeOK'
<1>1. MutexHeld
  BY MutexIsHeld DEF MetaTypeOK
<1>2. pc' \in [Threads -> {"out", "lock", "prepare", "step"}]
  BY DEF Step, Goto, MetaTypeOK
<1>3. MutexHeld'
  BY <1>1, NobodyAssumption DEF Step, Goto, Unlocked, MetaTypeOK, MutexHeld, Held
<1>4. UNCHANGED <<db, writing, asked>> /\ asked[t] \in Queries
  BY DEF Step, MetaTypeOK
<1>5. pending' \subseteq Queries
  BY <1>4 DEF Step, MetaTypeOK
<1>6. answer' \in [Threads -> {NoAnswer, Empty} \cup {r.geosub : r \in Rows}]
  <2>1. Found(asked[t]) \subseteq Rows
    BY DEF Found, MetaTypeOK
  <2>. QED BY <2>1 DEF Step, MetaTypeOK
<1>. QED BY <1>2, <1>3, <1>4, <1>5, <1>6, MutexIsHeldNext DEF MetaTypeOK

LEMMA RestartStep ==
  ASSUME MetaTypeOK, Restart
  PROVE  MetaTypeOK'
<1>1. MutexHeld'
  BY NobodyAssumption DEF Restart, MutexHeld, Held
<1>2. /\ pc' \in [Threads -> {"out", "lock", "prepare", "step"}]
      /\ answer' \in [Threads -> {NoAnswer, Empty} \cup {r.geosub : r \in Rows}]
  BY DEF Restart
<1>. QED BY <1>1, <1>2, MutexIsHeldNext DEF Restart, MetaTypeOK

LEMMA CommitStep ==
  ASSUME MetaTypeOK, BeginCommit \/ EndCommit
  PROVE  MetaTypeOK'
BY DEF BeginCommit, EndCommit, MetaTypeOK

(* The mutex of the database is held by exactly the call that is past it,  *)
(* whatever way a call ends (metaspace_gsn.cpp:37).                        *)
THEOREM TypeCorrect == Spec => []MetaTypeOK
<1>1. Init => MetaTypeOK
  BY NobodyAssumption DEF Init, MetaTypeOK
<1>2. MetaTypeOK /\ [Next]_metaVars => MetaTypeOK'
  <2>1. ASSUME MetaTypeOK, UNCHANGED metaVars
        PROVE  MetaTypeOK'
    BY <2>1 DEF metaVars, MetaTypeOK
  <2>. QED BY <2>1, CallStep, LockStep, StepStep, RestartStep, CommitStep DEF Next
<1>. QED BY <1>1, <1>2, PTL DEF Spec

================================================================================
