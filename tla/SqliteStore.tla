---------------------------- MODULE SqliteStore ----------------------------
(***************************************************************************)
(* SQLiteViolationStore (sentinel/stores/sqlite.py) under concurrent save, *)
(* get and close tasks of one event loop, down to the rows of the file.    *)
(*                                                                         *)
(* The store keeps ONE attribute, _conn, and reads it again after every    *)
(* await.  Outside the repository: aiosqlite gives each connection a       *)
(* thread that executes what is sent to it in order, and the event loop    *)
(* resumes tasks in the order their requests were executed.  SQLite lets   *)
(* one connection at a time hold uncommitted rows; an insert on another    *)
(* waits, and fails with "database is locked" after five seconds.          *)
(* A death of the process leaves exactly db: nothing more is modelled.     *)
(***************************************************************************)
EXTENDS Sequences, FiniteSets

CONSTANTS Saves,    \* save tasks; each inserts its own row
          Gets,     \* get tasks, of the run the rows belong to
          Closes,   \* close tasks
          NoConn    \* None

Users == Saves \cup Gets
Tasks == Users \cup Closes
Conns == Users      \* a task opens at most one connection: it bears its name

ASSUME StoreAssumption ==
  /\ Saves \cap Gets = {} /\ Users \cap Closes = {}
  /\ NoConn \notin Tasks

VARIABLES conn,      \* self._conn
          pc,        \* what each task awaits, or new, done, failed
          queue,     \* requests sent to each connection's thread: [task, op]
          ready,     \* tasks whose request was executed: [task, ok], in order
          open,      \* connections that are open
          tx,        \* rows inserted and not committed, per connection
          db,        \* rows committed to the file
          answer,    \* what each get read
          before,    \* history: saves that had ended when each get began
          raced      \* history: a task began to connect while another was
vars == <<conn, pc, queue, ready, open, tx, db, answer, before, raced>>

Op == {"connect", "ddl", "commitDdl", "insert", "select", "fetch", "commit", "close"}

TypeOK ==
  /\ conn \in Conns \cup {NoConn}
  /\ pc \in [Tasks -> Op \cup {"new", "done", "failed"}]
  /\ queue \in [Conns -> Seq([task : Tasks, op : Op])]
  /\ ready \in Seq([task : Tasks, ok : BOOLEAN])
  /\ open \subseteq Conns
  /\ tx \in [Conns -> SUBSET Saves] /\ db \subseteq Saves
  /\ answer \in [Gets -> SUBSET Saves] /\ before \in [Gets -> SUBSET Saves]
  /\ raced \in BOOLEAN

Init ==
  /\ conn = NoConn
  /\ pc = [t \in Tasks |-> "new"]
  /\ queue = [k \in Conns |-> <<>>] /\ ready = <<>>
  /\ open = {}
  /\ tx = [k \in Conns |-> {}] /\ db = {}
  /\ answer = [g \in Gets |-> {}] /\ before = [g \in Gets |-> {}]
  /\ raced = FALSE

-----------------------------------------------------------------------------
(* The tasks.                                                              *)

(* await <connection k>.<op>(...); None has no such method.                *)
Send(t, k, op) ==
  IF k = NoConn
  THEN pc' = [pc EXCEPT ![t] = "failed"] /\ UNCHANGED queue
  ELSE /\ pc' = [pc EXCEPT ![t] = op]
       /\ queue' = [queue EXCEPT ![k] = Append(@, [task |-> t, op |-> op])]

(* Seeded fault: the statements of save and get swapped.                   *)
StatementSwapped(t) == IF t \in Gets THEN "insert" ELSE "select"

(* What a task sends once connected.                                      *)
Statement(t) == IF t \in Saves THEN "insert" ELSE "select"

Connecting == {t \in Tasks : pc[t] = "connect"}

(* Seeded fault: every save and every get connects anew.                   *)
NeedsConnectionAlways == TRUE

(* The test of _connect().                                                 *)
NeedsConnection == conn = NoConn

(* save and get up to their first await.                                   *)
Start(t) ==
  /\ t \in Users /\ pc[t] = "new"
  /\ IF NeedsConnection
     THEN Send(t, t, "connect") /\ raced' = (raced \/ Connecting # {})
     ELSE Send(t, conn, Statement(t)) /\ UNCHANGED raced
  /\ IF t \in Gets THEN before' = [before EXCEPT ![t] = {s \in Saves : pc[s] = "done"}]
     ELSE UNCHANGED before
  /\ UNCHANGED <<conn, ready, open, tx, db, answer>>

(* close up to its await; without a connection it does nothing.            *)
StartClose(t) ==
  /\ t \in Closes /\ pc[t] = "new"
  /\ IF conn = NoConn THEN pc' = [pc EXCEPT ![t] = "done"] /\ UNCHANGED queue
     ELSE Send(t, conn, "close")
  /\ UNCHANGED <<conn, ready, open, tx, db, answer, before, raced>>

(* Seeded fault: save does not commit its row.                             *)
NextOpUncommitted(t) ==
  CASE pc[t] = "connect"   -> "ddl"
    [] pc[t] = "ddl"       -> "commitDdl"
    [] pc[t] = "commitDdl" -> Statement(t)
    [] pc[t] = "select"    -> "fetch"
    [] OTHER               -> "done"

(* What a task asks for once what it awaited is there; done when nothing.  *)
NextOp(t) ==
  CASE pc[t] = "connect"   -> "ddl"
    [] pc[t] = "ddl"       -> "commitDdl"
    [] pc[t] = "commitDdl" -> Statement(t)
    [] pc[t] = "insert"    -> "commit"
    [] pc[t] = "select"    -> "fetch"
    [] OTHER               -> "done"

(* Seeded fault: close leaves the closed connection in place.              *)
ConnAfterKept(t) == IF pc[t] = "connect" THEN t ELSE conn

(* self._conn when the task goes on: the connection it opened, None after  *)
(* it closed one, and otherwise whatever the other tasks made of it.       *)
ConnAfter(t) ==
  CASE pc[t] = "connect" -> t
    [] pc[t] = "close"   -> NoConn
    [] OTHER             -> conn

Resume ==
  /\ ready # <<>>
  /\ ready' = Tail(ready)
  /\ LET t == Head(ready).task IN
     /\ Head(ready).ok
     /\ conn' = ConnAfter(t)
     /\ IF NextOp(t) = "done" THEN pc' = [pc EXCEPT ![t] = "done"] /\ UNCHANGED queue
        ELSE Send(t, conn', NextOp(t))
  /\ UNCHANGED <<open, tx, db, answer, before, raced>>

(* The request failed: its exception leaves save, get or close.            *)
ResumeFails ==
  /\ ready # <<>> /\ ~Head(ready).ok
  /\ ready' = Tail(ready)
  /\ pc' = [pc EXCEPT ![Head(ready).task] = "failed"]
  /\ UNCHANGED <<conn, queue, open, tx, db, answer, before, raced>>

-----------------------------------------------------------------------------
(* The connections' threads and the file (external).                       *)
Requested(k, ops) == queue[k] # <<>> /\ Head(queue[k]).op \in ops
Executed(k, ok) ==
  /\ queue' = [queue EXCEPT ![k] = Tail(@)]
  /\ ready' = Append(ready, [task |-> Head(queue[k]).task, ok |-> ok])
  /\ UNCHANGED <<conn, pc, before, raced>>

Opens(k) ==
  /\ Requested(k, {"connect"}) /\ Executed(k, TRUE)
  /\ open' = open \cup {k}
  /\ UNCHANGED <<tx, db, answer>>

OpenFails(k) ==
  /\ Requested(k, {"connect"}) /\ Executed(k, FALSE)
  /\ UNCHANGED <<open, tx, db, answer>>

(* executescript commits what is pending before it creates the table.      *)
Commits(k) ==
  /\ k \in open /\ Requested(k, {"ddl", "commitDdl", "commit"}) /\ Executed(k, TRUE)
  /\ db' = db \cup tx[k]
  /\ tx' = [tx EXCEPT ![k] = {}]
  /\ UNCHANGED <<open, answer>>

Locked(k) == \E other \in Conns \ {k} : tx[other] # {}

Inserts(k) ==
  /\ k \in open /\ Requested(k, {"insert"}) /\ ~Locked(k) /\ Executed(k, TRUE)
  /\ tx' = [tx EXCEPT ![k] = @ \cup {Head(queue[k]).task}]
  /\ UNCHANGED <<open, db, answer>>

DatabaseIsLocked(k) ==
  /\ k \in open /\ Requested(k, {"insert"}) /\ Locked(k) /\ Executed(k, FALSE)
  /\ UNCHANGED <<open, tx, db, answer>>

Selects(k) ==
  /\ k \in open /\ Requested(k, {"select", "fetch"}) /\ Executed(k, TRUE)
  /\ answer' = IF Head(queue[k]).op = "select"
               THEN [answer EXCEPT ![Head(queue[k]).task] = db \cup tx[k]] ELSE answer
  /\ UNCHANGED <<open, tx, db>>

(* What was not committed is rolled back.                                  *)
CloseConnection(k) ==
  /\ k \in open /\ Requested(k, {"close"}) /\ Executed(k, TRUE)
  /\ open' = open \ {k}
  /\ tx' = [tx EXCEPT ![k] = {}]
  /\ UNCHANGED <<db, answer>>

ConnectionClosed(k) ==
  /\ k \notin open /\ Requested(k, Op \ {"connect"}) /\ Executed(k, FALSE)
  /\ UNCHANGED <<open, tx, db, answer>>

ThreadStep(k) ==
  \/ Opens(k) \/ OpenFails(k) \/ Commits(k) \/ Inserts(k) \/ DatabaseIsLocked(k)
  \/ Selects(k) \/ CloseConnection(k) \/ ConnectionClosed(k)

Next ==
  \/ \E t \in Users : Start(t)
  \/ \E t \in Closes : StartClose(t)
  \/ Resume \/ ResumeFails
  \/ \E k \in Conns : ThreadStep(k)

Spec == Init /\ [][Next]_vars

-----------------------------------------------------------------------------
(* PROPERTIES *)

(* "Survives restarts" (README.md:281): the row of a save that ended is in *)
(* the file.                                                               *)
SurvivesRestarts == \A s \in Saves : pc[s] = "done" => s \in db

(* While no two tasks connect at once, the row of a save that ended is in  *)
(* the file, whatever other saves, gets and closes run between its insert  *)
(* and its commit.                                                         *)
DoneIsDurable == ~raced => SurvivesRestarts

(* While no two tasks connect at once, get_violations misses no save that  *)
(* had ended when it was called, even on a connection opened after a close.*)
ReadsSeeDone ==
  ~raced => \A g \in Gets : pc[g] = "done" => before[g] \subseteq answer[g]

(* While no two tasks connect at once, tasks that are over leave no        *)
(* uncommitted row, which would keep the file locked for ever, and the one *)
(* open connection is _conn: none leaked, and _conn is not a closed one.   *)
NothingLeftBehind ==
  (~raced /\ \A t \in Tasks : pc[t] \in {"new", "done", "failed"})
     => /\ open = {conn} \ {NoConn}
        /\ \A k \in Conns : tx[k] = {}
=============================================================================
