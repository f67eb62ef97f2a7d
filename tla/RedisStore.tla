------------------------------ MODULE RedisStore ------------------------------
(***************************************************************************)
(* RedisViolationStore (sentinel/stores/redis_store.py): the stores of     *)
(* several processes keep the violations of one run in one Redis list,     *)
(* which expires as a whole.  save is two requests, RPUSH and EXPIRE, and  *)
(* the store reads self._client again before each.                         *)
(*                                                                         *)
(* Outside the repository: requests of different tasks travel on different *)
(* connections of a pool, so the server executes them in any order; one    *)
(* may fail unexecuted, or be executed and its reply be lost, and then the *)
(* client may send it again.  A process may die at any await.  The server  *)
(* keeps its data for as long as the model runs.                           *)
(***************************************************************************)
EXTENDS Integers

CONSTANTS Procs,      \* processes, each with one store object
          Saves,      \* save tasks, all of one run_id; each pushes its own row
          Gets,       \* get tasks of that run_id
          Closes,     \* close tasks
          ProcOf,     \* [Tasks -> Procs]
          TTL,        \* ttl, in ticks of the server's clock
          MaxTime,    \* bound: the clock
          MaxResends  \* bound: lost replies

Users == Saves \cup Gets
Tasks == Users \cup Closes

ASSUME RedisAssumption ==
  /\ Saves \cap Gets = {} /\ Users \cap Closes = {}
  /\ ProcOf \in [Tasks -> Procs]
  /\ TTL \in Nat \ {0} /\ MaxTime \in Nat /\ MaxResends \in Nat

VARIABLES client,     \* per process: self._client is not None
          pc,         \* the request each task awaits, or new, done, failed, dead
          reply,      \* what came back for it
          resends,    \* replies that were lost
          now,        \* the server's clock
          rows,       \* the members of the list sentinel:violations:{run_id}
          deadline,   \* when it expires; 0: it has no TTL
          keptUntil,  \* history: the deadline a save's EXPIRE asked for
          dropped     \* history: rows that expired before their save's EXPIRE

taskVars == <<client, pc, reply, resends>>
serverVars == <<now, rows, deadline>>
vars == <<taskVars, serverVars, keptUntil, dropped>>

Op == {"connect", "rpush", "expire", "lrange", "aclose"}
Over == {"done", "failed", "dead"}

TypeOK ==
  /\ client \in [Procs -> BOOLEAN]
  /\ pc \in [Tasks -> Op \cup Over \cup {"new"}]
  /\ reply \in [Tasks -> {"none", "ok", "error"}]
  /\ resends \in 0..MaxResends
  /\ now \in Nat /\ deadline \in Nat
  /\ rows \subseteq Saves
  /\ keptUntil \in [Saves -> Nat] /\ dropped \subseteq Saves
  /\ rows = {} => deadline = 0
  /\ deadline # 0 => now < deadline

Init ==
  /\ client = [p \in Procs |-> FALSE]
  /\ pc = [t \in Tasks |-> "new"]
  /\ reply = [t \in Tasks |-> "none"] /\ resends = 0
  /\ now = 0 /\ rows = {} /\ deadline = 0
  /\ keptUntil = [s \in Saves |-> 0] /\ dropped = {}

-----------------------------------------------------------------------------
(* The tasks.                                                              *)

(* await self._client.<op>(...); None has no such method.                  *)
Send(t, op, connected) ==
  /\ pc' = [pc EXCEPT ![t] = IF connected THEN op ELSE "failed"]
  /\ reply' = [reply EXCEPT ![t] = "none"]

(* Seeded fault: the requests of save and get swapped.                     *)
FirstOpSwapped(t) ==
  CASE t \in Saves  -> "lrange"
    [] t \in Gets   -> "rpush"
    [] t \in Closes -> "aclose"

(* What a task asks for once connected.                                    *)
FirstOp(t) ==
  CASE t \in Saves  -> "rpush"
    [] t \in Gets   -> "lrange"
    [] t \in Closes -> "aclose"

(* save and get up to their first await: _connect tests self._client.      *)
Start(t) ==
  /\ t \in Users /\ pc[t] = "new"
  /\ IF client[ProcOf[t]] THEN Send(t, FirstOp(t), TRUE) ELSE Send(t, "connect", TRUE)
  /\ UNCHANGED <<client, resends, serverVars, keptUntil, dropped>>

(* close up to its await; without a client it does nothing.                *)
StartClose(t) ==
  /\ t \in Closes /\ pc[t] = "new"
  /\ IF client[ProcOf[t]] THEN Send(t, FirstOp(t), TRUE)
     ELSE pc' = [pc EXCEPT ![t] = "done"] /\ UNCHANGED reply
  /\ UNCHANGED <<client, resends, serverVars, keptUntil, dropped>>

(* Seeded fault: the list gets its TTL before the row is there.             *)
NextOpExpireFirst(t) ==
  CASE pc[t] = "connect" -> IF t \in Saves THEN "expire" ELSE FirstOp(t)
    [] pc[t] = "expire"  -> "rpush"
    [] OTHER             -> "done"

(* What a task asks for next; done when nothing.                           *)
NextOp(t) ==
  CASE pc[t] = "connect" -> FirstOp(t)
    [] pc[t] = "rpush"   -> "expire"
    [] OTHER             -> "done"

ClientAfter(t) ==
  CASE pc[t] = "connect" -> TRUE
    [] pc[t] = "aclose"  -> FALSE
    [] OTHER             -> client[ProcOf[t]]

Resume(t) ==
  /\ pc[t] \in Op /\ reply[t] = "ok"
  /\ client' = [client EXCEPT ![ProcOf[t]] = ClientAfter(t)]
  /\ Send(t, NextOp(t), NextOp(t) = "done" \/ ClientAfter(t))
  /\ UNCHANGED <<resends, serverVars, keptUntil, dropped>>

(* The exception leaves save, get or close.                                *)
ResumeFails(t) ==
  /\ pc[t] \in Op /\ reply[t] = "error"
  /\ pc' = [pc EXCEPT ![t] = "failed"]
  /\ reply' = [reply EXCEPT ![t] = "none"]
  /\ UNCHANGED <<client, resends, serverVars, keptUntil, dropped>>

(* The process dies: its tasks stop where they are.                        *)
Crash(p) ==
  /\ \E t \in Tasks : ProcOf[t] = p /\ pc[t] \in Op
  /\ pc' = [t \in Tasks |-> IF ProcOf[t] = p /\ pc[t] \notin Over THEN "dead" ELSE pc[t]]
  /\ reply' = [t \in Tasks |-> IF ProcOf[t] = p THEN "none" ELSE reply[t]]
  /\ UNCHANGED <<client, resends, serverVars, keptUntil, dropped>>

(* Seeded fault: an EXPIRE that leaves a TTL the list already has.         *)
DeadlineNx(t) == IF deadline = 0 THEN now + TTL ELSE deadline

(* What a save's expire(key, self._ttl) asks for, from now on.             *)
Deadline(t) == now + TTL

-----------------------------------------------------------------------------
(* The server and the connections to it (external).                        *)

(* What a request does.  EXPIRE of a key that does not exist does nothing; *)
(* LRANGE answers with rows, connect and aclose change nothing.            *)
Effect(t) ==
  /\ rows' = IF pc[t] = "rpush" THEN rows \cup {t} ELSE rows
  /\ deadline' = IF pc[t] = "expire" /\ rows # {} THEN Deadline(t) ELSE deadline
  /\ keptUntil' = IF pc[t] = "expire" THEN [keptUntil EXCEPT ![t] = now + TTL] ELSE keptUntil
  /\ UNCHANGED <<client, pc, now, dropped>>

Awaited(t) == pc[t] \in Op /\ reply[t] = "none"

Executes(t) ==
  /\ Awaited(t) /\ Effect(t)
  /\ reply' = [reply EXCEPT ![t] = "ok"]
  /\ UNCHANGED resends

(* The reply is lost: the request is sent again, or fails (Fails).         *)
ReplyLost(t) ==
  /\ Awaited(t) /\ pc[t] # "connect" /\ resends < MaxResends
  /\ Effect(t)
  /\ resends' = resends + 1
  /\ UNCHANGED reply

Fails(t) ==
  /\ Awaited(t)
  /\ reply' = [reply EXCEPT ![t] = "error"]
  /\ UNCHANGED <<client, pc, resends, serverVars, keptUntil, dropped>>

(* The EXPIRE of a save was executed for the last time.                    *)
Answered(s) == pc[s] = "done" \/ (pc[s] = "expire" /\ reply[s] = "ok")

(* The clock; at its deadline the list goes, with every row in it.         *)
Tick ==
  /\ now < MaxTime /\ now' = now + 1
  /\ IF deadline = now + 1
     THEN /\ rows' = {} /\ deadline' = 0
          /\ dropped' = dropped \cup {s \in rows : ~Answered(s)}
     ELSE UNCHANGED <<rows, deadline, dropped>>
  /\ UNCHANGED <<taskVars, keptUntil>>

Next ==
  \/ \E t \in Users : Start(t)
  \/ \E t \in Closes : StartClose(t)
  \/ \E t \in Tasks : Resume(t) \/ ResumeFails(t) \/ Executes(t) \/ ReplyLost(t) \/ Fails(t)
  \/ \E p \in Procs : Crash(p)
  \/ Tick

Spec == Init /\ [][Next]_vars

-----------------------------------------------------------------------------
(* PROPERTIES *)

(* "configurable TTL" (README.md:45): a list that holds the row of a save  *)
(* that ended is going to expire, whatever other saves were cut off        *)
(* between their RPUSH and their EXPIRE.                                   *)
EndedExpires == \A s \in Saves : pc[s] = "done" /\ s \in rows => deadline # 0

(* The row of a save that ended stays for the whole TTL its EXPIRE asked   *)
(* for: no other save shortens the life of the list.  The exception is a   *)
(* list that expired, with the row in it, before that EXPIRE arrived.      *)
EndedIsKept ==
  \A s \in Saves :
    pc[s] = "done" /\ now < keptUntil[s] /\ s \notin dropped => s \in rows

=============================================================================
