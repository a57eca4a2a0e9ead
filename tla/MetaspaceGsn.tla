------------------------------ MODULE MetaspaceGsn ------------------------------
(***************************************************************************)
(* The metaspace database: metaspace_gsn::resolve_gsn                      *)
(* (shared/infrastructure/metaspace_gsn.cpp) looks up the geosub of a      *)
(* postcode or of a county in gsn.db, under a mutex.                       *)
(*                                                                         *)
(* Others write to gsn.db while the process runs.  sqlite3 (external) lets *)
(* a writer commit only while no statement is in the middle of its rows; a *)
(* statement that is stepped while a writer commits fails.  A call that    *)
(* finds a row returns without resetting its statement, which stays in the *)
(* middle of its rows for as long as the process runs.                     *)
(***************************************************************************)
EXTENDS Integers, FiniteSets

CONSTANTS
  Threads,   \* callers of resolve_gsn
  Nobody,    \* no thread
  Queries,   \* geosub queries
  Empty,     \* the empty string
  NoAnswer,  \* what a call has that has not returned: it runs, or it threw
  Outcode,   \* the first four characters of a query that has the shape of a
             \* postcode (two letters or commas, two digits), otherwise Empty
  Lower,     \* tolower, of an outcode
  Rows       \* what geosub_meta may hold: [postcode, county, geosub]

ASSUME AnswersAssumption == \A r \in Rows : r.geosub \notin {Empty, NoAnswer}
ASSUME NobodyAssumption == Nobody \notin Threads

VARIABLES
  db,       \* the rows of geosub_meta
  writing,  \* a writer is committing
  m_mutex,  \* metaspace_gsn::m_mutex: who has it
  pc,       \* per thread: where it is in resolve_gsn
  asked,    \* per thread: its query
  answer,   \* per thread: what its last call returned
  pending   \* statements left in the middle of their rows, by the query

metaVars == <<db, writing, m_mutex, pc, asked, answer, pending>>

Init ==
  /\ db \in SUBSET Rows
  /\ writing = FALSE
  /\ m_mutex = Nobody
  /\ pc = [t \in Threads |-> "out"]
  /\ asked \in [Threads -> Queries]
  /\ answer = [t \in Threads |-> NoAnswer]
  /\ pending = {}

Goto(t, label) == pc' = [pc EXCEPT ![t] = label]

(* The guard of resolve_gsn: an empty query throws before the mutex is     *)
(* asked for.                                                              *)
Call(t, q) ==
  /\ pc[t] = "out"
  /\ asked' = [asked EXCEPT ![t] = q]
  /\ answer' = [answer EXCEPT ![t] = NoAnswer]
  /\ Goto(t, IF q = Empty THEN "out" ELSE "lock")
  /\ UNCHANGED <<db, writing, m_mutex, pending>>

Lock(t) ==
  /\ pc[t] = "lock" /\ m_mutex = Nobody
  /\ m_mutex' = t
  /\ Goto(t, "prepare")
  /\ UNCHANGED <<db, writing, asked, answer, pending>>

(* The lock_guard unlocks on every way out *)
Kept == UNCHANGED m_mutex   \* a mistake: unlock() after the last statement
Unlocked == m_mutex' = Nobody

(* sqlite3_prepare_v2 reads the schema: without it resolve_gsn throws *)
Prepare(t) ==
  /\ pc[t] = "prepare"
  /\ \/ ~writing /\ Goto(t, "step") /\ UNCHANGED m_mutex
     \/ Goto(t, "out") /\ Unlocked
  /\ UNCHANGED <<db, writing, asked, answer, pending>>

HasOutcode(q) == Outcode[q] # Empty

(* The rows that the statement of a query runs through *)
Found(q) ==
  IF HasOutcode(q) THEN {r \in db : r.postcode = Lower[Outcode[q]]} ELSE {r \in db : r.county = q}

(* from_outcode, from_county.  The statement of a row that was found is    *)
(* not reset, the others are.  A step that fails returns "" like a step    *)
(* that finds no row.                                                      *)
Step(t) ==
  /\ pc[t] = "step"
  /\ \/ /\ ~writing
        /\ \E r \in Found(asked[t]) : answer' = [answer EXCEPT ![t] = r.geosub]
        /\ pending' = pending \cup {asked[t]}
     \/ /\ writing \/ Found(asked[t]) = {}
        /\ answer' = [answer EXCEPT ![t] = Empty]
        /\ UNCHANGED pending
  /\ Unlocked
  /\ Goto(t, "out")
  /\ UNCHANGED <<db, writing, asked>>

(* The process is started again *)
Restart ==
  /\ pc' = [t \in Threads |-> "out"]
  /\ answer' = [t \in Threads |-> NoAnswer]
  /\ pending' = {}
  /\ m_mutex' = Nobody
  /\ UNCHANGED <<db, writing, asked>>

(* A writer gets the database for itself, and gives it back *)
BeginCommit ==
  /\ pending = {} /\ ~writing
  /\ writing' = TRUE
  /\ UNCHANGED <<db, m_mutex, pc, asked, answer, pending>>

EndCommit ==
  /\ writing
  /\ writing' = FALSE
  /\ db' \in SUBSET Rows
  /\ UNCHANGED <<m_mutex, pc, asked, answer, pending>>

Next ==
  \/ \E t \in Threads, q \in Queries : Call(t, q)
  \/ \E t \in Threads : Lock(t) \/ Prepare(t) \/ Step(t)
  \/ Restart
  \/ BeginCommit
  \/ EndCommit

(* A thread that waits for nobody goes on, and a free mutex goes to one of *)
(* those who wait.  Which one is not promised: std::mutex is not fair.     *)
Fairness ==
  /\ WF_metaVars(\E t \in Threads : Lock(t))
  /\ \A t \in Threads : WF_metaVars(Prepare(t) \/ Step(t))

Spec == Init /\ [][Next]_metaVars /\ Fairness

--------------------------------------------------------------------------------
(* Every component has its type, and the mutex is held for the one call    *)
(* that is past it.                                                        *)
MetaTypeOK ==
  /\ db \subseteq Rows /\ pending \subseteq Queries
  /\ writing \in BOOLEAN
  /\ asked \in [Threads -> Queries]
  /\ answer \in [Threads -> {NoAnswer, Empty} \cup {r.geosub : r \in Rows}]
  /\ pc \in [Threads -> {"out", "lock", "prepare", "step"}]
  /\ {t \in Threads : pc[t] \in {"prepare", "step"}} = {m_mutex} \ {Nobody}

(* The callers never stop one another for good: whoever has the mutex      *)
(* comes out, with an answer or with an exception and whatever others      *)
(* write meanwhile, and while calls wait one of them gets in               *)
(* (metaspace_gsn.cpp:37).  It is not said which: a call may be passed by  *)
(* for ever.                                                               *)
CallsGoOn ==
  /\ \A t \in Threads : (m_mutex = t) ~> (pc[t] = "out")
  /\ (\E t \in Threads : pc[t] = "lock") ~> (m_mutex # Nobody \/ \A t \in Threads : pc[t] # "lock")

================================================================================
