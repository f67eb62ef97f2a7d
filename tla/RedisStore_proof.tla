--------------------------- MODULE RedisStore_proof ---------------------------
(***************************************************************************)
(* Theorems about RedisStore, for any processes, tasks and TTL, and any    *)
(* number of lost replies and crashes.                                     *)
(***************************************************************************)
EXTENDS RedisStore, TLAPS

(* RPUSH and EXPIRE are the requests of saves, and of nobody else.          *)
SaveRequests ==
  \A t \in Tasks :
    /\ t \in Saves => pc[t] \notin {"lrange", "aclose"}
    /\ t \notin Saves => pc[t] \notin {"rpush", "expire"}

(* Between its RPUSH and the answer to its EXPIRE, the row of a save is in *)
(* the list, or went with it.                                              *)
PushedHeld ==
  \A s \in Saves :
    \/ pc[s] = "rpush" /\ reply[s] = "ok"
    \/ pc[s] = "expire" /\ reply[s] # "ok"
    => s \in rows \cup dropped

(* No deadline is further away than one TTL.                               *)
DeadlineNear == deadline <= now + TTL

AnsweredExpires == \A s \in Saves : Answered(s) /\ s \in rows => deadline # 0

(* The list outlives what every EXPIRE that was answered asked for.        *)
AnsweredIsKept ==
  \A s \in Saves :
    Answered(s) /\ now < keptUntil[s] /\ s \notin dropped
      => s \in rows /\ keptUntil[s] <= deadline

RedisInv == TypeOK /\ SaveRequests /\ PushedHeld /\ DeadlineNear
            /\ AnsweredExpires /\ AnsweredIsKept

-----------------------------------------------------------------------------
LEMMA InitInv == Init => RedisInv
<1> SUFFICES ASSUME Init PROVE RedisInv
  OBVIOUS
<1> USE RedisAssumption DEF Init
<1>1. TypeOK
  BY DEF TypeOK
<1>2. SaveRequests /\ PushedHeld /\ AnsweredExpires /\ AnsweredIsKept
  BY DEF SaveRequests, PushedHeld, AnsweredExpires, AnsweredIsKept, Answered, Tasks, Users
<1>3. DeadlineNear
  BY DEF DeadlineNear
<1> QED
  BY <1>1, <1>2, <1>3 DEF RedisInv

LEMMA StutterKeeps == RedisInv /\ UNCHANGED vars => RedisInv'
  BY DEF RedisInv, TypeOK, SaveRequests, PushedHeld, DeadlineNear, AnsweredExpires,
     AnsweredIsKept, Answered, vars, taskVars, serverVars

(* A step of tasks that leaves the server alone keeps the invariant if no  *)
(* save counts as answered, or as pushed, that did not before.             *)
LEMMA LocalKeeps ==
  ASSUME RedisInv, UNCHANGED <<serverVars, keptUntil, dropped>>,
         TypeOK',
         SaveRequests',
         \A s \in Saves : Answered(s)' => Answered(s),
         \A s \in Saves :
           \/ pc'[s] = "rpush" /\ reply'[s] = "ok"
           \/ pc'[s] = "expire" /\ reply'[s] # "ok"
           => \/ pc[s] = "rpush" /\ reply[s] = "ok"
              \/ pc[s] = "expire" /\ reply[s] # "ok"
  PROVE  RedisInv'
<1> USE DEF RedisInv, serverVars
<1>1. PushedHeld'
  BY DEF PushedHeld
<1>2. DeadlineNear'
  BY DEF DeadlineNear
<1>3. AnsweredExpires'
  BY DEF AnsweredExpires
<1>4. AnsweredIsKept'
  BY DEF AnsweredIsKept
<1> QED
  BY <1>1, <1>2, <1>3, <1>4

LEMMA StartKeeps ==
  ASSUME RedisInv, NEW t \in Tasks, Start(t) \/ StartClose(t)
  PROVE  RedisInv'
<1>1. \/ t \in Saves /\ t \notin Closes /\ FirstOp(t) = "rpush"
      \/ t \notin Saves /\ FirstOp(t) \in {"lrange", "aclose"}
  BY RedisAssumption DEF FirstOp, Tasks, Users
<1>2. PICK op \in Op \cup {"done"} :
        /\ pc[t] = "new" /\ pc' = [pc EXCEPT ![t] = op]
        /\ reply' = reply \/ reply' = [reply EXCEPT ![t] = "none"]
        /\ t \in Saves => op \in {"connect", "rpush"}
        /\ t \notin Saves => op \notin {"rpush", "expire"}
        /\ t \in Saves => reply' = [reply EXCEPT ![t] = "none"]
  BY <1>1, RedisAssumption DEF Start, StartClose, Send, Op
<1>3. UNCHANGED <<client, resends, serverVars, keptUntil, dropped>>
  BY DEF Start, StartClose
<1>4. pc \in [Tasks -> Op \cup Over \cup {"new"}] /\ reply \in [Tasks -> {"none", "ok", "error"}]
  BY DEF RedisInv, TypeOK
<1>5. Saves \subseteq Tasks
  BY DEF Tasks, Users
<1>6. TypeOK'
  BY <1>2, <1>3, <1>4 DEF RedisInv, TypeOK, serverVars, Over
<1>7. SaveRequests'
  BY <1>2, <1>4 DEF RedisInv, SaveRequests
<1>8. \A s \in Saves : Answered(s)' => Answered(s)
  BY <1>2, <1>4, <1>5 DEF Answered
<1>9. \A s \in Saves : s # t => pc'[s] = pc[s] /\ reply'[s] = reply[s]
  BY <1>2, <1>4, <1>5
<1>10. t \in Saves => pc'[t] \in {"connect", "rpush"} /\ reply'[t] = "none"
  BY <1>2, <1>4
<1> QED
  BY <1>3, <1>6, <1>7, <1>8, <1>9, <1>10, LocalKeeps

LEMMA ResumeKeeps ==
  ASSUME RedisInv, NEW t \in Tasks, Resume(t)
  PROVE  RedisInv'
<1> DEFINE op == IF NextOp(t) = "done" \/ ClientAfter(t) THEN NextOp(t) ELSE "failed"
<1>1. /\ pc[t] \in Op /\ reply[t] = "ok"
      /\ pc' = [pc EXCEPT ![t] = op] /\ reply' = [reply EXCEPT ![t] = "none"]
      /\ client' = [client EXCEPT ![ProcOf[t]] = ClientAfter(t)]
      /\ UNCHANGED <<resends, serverVars, keptUntil, dropped>>
  BY DEF Resume, Send
<1>2. \/ t \in Saves /\ FirstOp(t) = "rpush"
      \/ t \notin Saves /\ FirstOp(t) \in {"lrange", "aclose"}
  BY RedisAssumption DEF FirstOp, Tasks, Users
<1>3. NextOp(t) \in Op \cup {"done"}
  BY <1>1, <1>2 DEF NextOp, Op
<1>4. t \in Saves =>
        /\ NextOp(t) \in {"rpush", "expire", "done"}
        /\ NextOp(t) = "expire" => pc[t] = "rpush"
        /\ NextOp(t) = "done" => pc[t] = "expire"
  BY <1>1, <1>2 DEF NextOp, Op, RedisInv, SaveRequests
<1>a. t \notin Saves => NextOp(t) \notin {"rpush", "expire"}
  BY <1>1, <1>2 DEF NextOp, Op, RedisInv, SaveRequests
<1>5. client \in [Procs -> BOOLEAN] /\ pc \in [Tasks -> Op \cup Over \cup {"new"}]
      /\ reply \in [Tasks -> {"none", "ok", "error"}]
  BY DEF RedisInv, TypeOK
<1>6. Saves \subseteq Tasks /\ ProcOf[t] \in Procs
  BY RedisAssumption DEF Tasks, Users
<1>7. ClientAfter(t) \in BOOLEAN
  BY <1>5, <1>6 DEF ClientAfter
<1>8. op \in Op \cup {"done", "failed"}
  BY <1>3
<1>9. t \in Saves =>
        /\ op \in {"rpush", "expire", "done", "failed"}
        /\ op = "expire" => pc[t] = "rpush"
        /\ op = "done" => pc[t] = "expire"
  BY <1>4
<1>b. t \notin Saves => op \notin {"rpush", "expire"}
  BY <1>a
<1> HIDE DEF op
<1>10. TypeOK'
  BY <1>1, <1>5, <1>7, <1>8 DEF RedisInv, TypeOK, serverVars, Over
<1>11. SaveRequests'
  BY <1>1, <1>5, <1>9, <1>b DEF RedisInv, SaveRequests
<1>12. \A s \in Saves : s # t => pc'[s] = pc[s] /\ reply'[s] = reply[s]
  BY <1>1, <1>5, <1>6
<1>13. pc'[t] = op /\ reply'[t] = "none"
  BY <1>1, <1>5
<1>14. \A s \in Saves : Answered(s)' => Answered(s)
  BY <1>1, <1>9, <1>12, <1>13 DEF Answered
<1> QED
  BY <1>1, <1>9, <1>10, <1>11, <1>12, <1>13, <1>14, LocalKeeps

LEMMA FailureKeeps ==
  ASSUME RedisInv, NEW t \in Tasks, ResumeFails(t) \/ Fails(t)
  PROVE  RedisInv'
<1>1. PICK op \in {pc[t], "failed"}, r \in {"none", "error"} :
        /\ pc' = [pc EXCEPT ![t] = op] /\ reply' = [reply EXCEPT ![t] = r]
        /\ pc[t] \in Op /\ (op = pc[t] => reply[t] = "none" /\ r = "error")
        /\ UNCHANGED <<client, resends, serverVars, keptUntil, dropped>>
  <2>1. CASE ResumeFails(t)
    BY <2>1 DEF ResumeFails, Op
  <2>2. CASE Fails(t)
    <3>1. pc' = [pc EXCEPT ![t] = pc[t]]
      BY <2>2 DEF Fails, RedisInv, TypeOK
    <3> QED
      BY <2>2, <3>1 DEF Fails, Awaited
  <2> QED
    BY <2>1, <2>2
<1>2. pc \in [Tasks -> Op \cup Over \cup {"new"}] /\ reply \in [Tasks -> {"none", "ok", "error"}]
  BY DEF RedisInv, TypeOK
<1>3. Saves \subseteq Tasks
  BY DEF Tasks, Users
<1>4. TypeOK'
  BY <1>1, <1>2 DEF RedisInv, TypeOK, serverVars, Over
<1>5. \A s \in Saves : s # t => pc'[s] = pc[s] /\ reply'[s] = reply[s]
  BY <1>1, <1>2, <1>3
<1>6. pc'[t] = op /\ reply'[t] = r
  BY <1>1, <1>2
<1>7. SaveRequests'
  BY <1>1, <1>2 DEF RedisInv, SaveRequests
<1>8. \A s \in Saves : Answered(s)' => Answered(s)
  BY <1>1, <1>5, <1>6 DEF Answered, Op
<1> QED
  BY <1>1, <1>4, <1>5, <1>6, <1>7, <1>8, LocalKeeps

LEMMA CrashKeeps ==
  ASSUME RedisInv, NEW p \in Procs, Crash(p)
  PROVE  RedisInv'
<1>1. pc \in [Tasks -> Op \cup Over \cup {"new"}] /\ reply \in [Tasks -> {"none", "ok", "error"}]
  BY DEF RedisInv, TypeOK
<1>2. Saves \subseteq Tasks
  BY DEF Tasks, Users
<1>3. /\ pc' = [t \in Tasks |-> IF ProcOf[t] = p /\ pc[t] \notin Over THEN "dead" ELSE pc[t]]
      /\ reply' = [t \in Tasks |-> IF ProcOf[t] = p THEN "none" ELSE reply[t]]
      /\ UNCHANGED <<client, resends, serverVars, keptUntil, dropped>>
  BY DEF Crash
<1>4. TypeOK'
  BY <1>1, <1>3 DEF RedisInv, TypeOK, serverVars, Over
<1>5. SaveRequests'
  BY <1>3 DEF RedisInv, SaveRequests
<1>6. \A s \in Saves :
        \/ pc'[s] \in {"dead", "done", "failed"} /\ (pc'[s] = "done" => pc[s] = "done")
        \/ pc'[s] = pc[s] /\ reply'[s] = reply[s]
  <2> TAKE s \in Saves
  <2>1. CASE ProcOf[s] = p
    <3>1. pc'[s] = "dead" \/ (pc'[s] = pc[s] /\ pc[s] \in Over)
      BY <1>2, <1>3, <2>1
    <3> QED
      BY <3>1 DEF Over
  <2>2. CASE ProcOf[s] # p
    BY <1>2, <1>3, <2>2
  <2> QED
    BY <2>1, <2>2
<1>7. \A s \in Saves : Answered(s)' => Answered(s)
  BY <1>6 DEF Answered
<1> QED
  BY <1>3, <1>4, <1>5, <1>6, <1>7, LocalKeeps

-----------------------------------------------------------------------------
(* A request is executed, whether its reply arrives or not.                *)
LEMMA ExecutionKeeps ==
  ASSUME RedisInv, NEW t \in Tasks, Executes(t) \/ ReplyLost(t)
  PROVE  RedisInv'
<1>1. /\ pc[t] \in Op /\ reply[t] = "none" /\ UNCHANGED <<client, pc, now, dropped>>
      /\ rows' = IF pc[t] = "rpush" THEN rows \cup {t} ELSE rows
      /\ deadline' = IF pc[t] = "expire" /\ rows # {} THEN now + TTL ELSE deadline
      /\ keptUntil' = IF pc[t] = "expire" THEN [keptUntil EXCEPT ![t] = now + TTL] ELSE keptUntil
  BY DEF Executes, ReplyLost, Awaited, Effect, Deadline
<1>2. reply' = reply \/ reply' = [reply EXCEPT ![t] = "ok"]
  BY DEF Executes, ReplyLost
<1>3. resends' \in 0..MaxResends
  BY RedisAssumption DEF Executes, ReplyLost, RedisInv, TypeOK
<1>4. /\ client \in [Procs -> BOOLEAN]
      /\ pc \in [Tasks -> Op \cup Over \cup {"new"}] /\ reply \in [Tasks -> {"none", "ok", "error"}]
      /\ now \in Nat /\ deadline \in Nat /\ rows \subseteq Saves /\ dropped \subseteq Saves
      /\ keptUntil \in [Saves -> Nat] /\ (rows = {} => deadline = 0)
      /\ (deadline # 0 => now < deadline)
  BY DEF RedisInv, TypeOK
<1>5. Saves \subseteq Tasks /\ TTL \in Nat \ {0}
  BY RedisAssumption DEF Tasks, Users
<1>6. pc[t] \in {"rpush", "expire"} => t \in Saves
  BY DEF RedisInv, SaveRequests
<1>7. Op \cap Over = {} /\ (pc[t] = "expire" => pc[t] # "rpush")
  BY DEF Op, Over
<1>8. TypeOK'
  <2>1. rows' \subseteq Saves /\ (rows' = {} => rows = {})
    BY <1>1, <1>4, <1>6
  <2>2. deadline' \in Nat /\ (rows' = {} => deadline' = 0) /\ (deadline' # 0 => now < deadline')
    BY <1>1, <1>4, <1>5, <2>1
  <2>3. keptUntil' \in [Saves -> Nat]
    BY <1>1, <1>4, <1>5, <1>6
  <2>4. reply' \in [Tasks -> {"none", "ok", "error"}]
    BY <1>2, <1>4
  <2> QED
    BY <1>1, <1>3, <1>4, <2>1, <2>2, <2>3, <2>4 DEF TypeOK
<1>9. SaveRequests'
  BY <1>1 DEF RedisInv, SaveRequests
<1>10. \A s \in Saves : s # t => reply'[s] = reply[s] /\ keptUntil'[s] = keptUntil[s]
  BY <1>1, <1>2, <1>4, <1>5
<1>11. reply'[t] \in {"none", "ok"}
  BY <1>1, <1>2, <1>4
<1>12. \A s \in Saves : s \in rows => s \in rows'
  BY <1>1
<1>13. pc[t] = "rpush" => t \in rows'
  BY <1>1
<1>14. PushedHeld'
  BY <1>1, <1>10, <1>11, <1>12, <1>13 DEF RedisInv, PushedHeld
<1>15. DeadlineNear'
  BY <1>1, <1>4, <1>5 DEF RedisInv, DeadlineNear
<1>16. deadline <= deadline' /\ (pc[t] = "expire" /\ rows # {} => deadline' = now + TTL)
  BY <1>1, <1>4, <1>5 DEF RedisInv, DeadlineNear
<1>17. \A s \in Saves : Answered(s)' => Answered(s) \/ (s = t /\ pc[t] = "expire")
  BY <1>1, <1>10 DEF Answered
<1>18. \A s \in Saves : s # t \/ pc[t] # "expire" => keptUntil'[s] = keptUntil[s]
  BY <1>1, <1>10
<1>19. ~Answered(t) /\ (Answered(t)' => pc[t] = "expire")
  BY <1>1 DEF Answered, Op
<1>20. pc[t] = "expire" => t \in rows \cup dropped
  BY <1>1, <1>6 DEF RedisInv, PushedHeld
<1>21. AnsweredExpires'
  <2> SUFFICES ASSUME NEW s \in Saves, Answered(s)', s \in rows'
               PROVE  deadline' # 0
    BY DEF AnsweredExpires
  <2>1. CASE s = t
    <3>1. pc[t] = "expire" /\ rows # {}
      BY <1>1, <1>19, <2>1
    <3> QED
      BY <1>4, <1>5, <1>16, <3>1
  <2>2. CASE s # t
    <3>1. Answered(s) /\ s \in rows
      BY <1>1, <1>17, <2>2
    <3> QED
      BY <1>4, <1>8, <1>16, <3>1 DEF RedisInv, AnsweredExpires, TypeOK
  <2> QED
    BY <2>1, <2>2
<1>22. AnsweredIsKept'
  <2> SUFFICES ASSUME NEW s \in Saves, Answered(s)', now < keptUntil'[s], s \notin dropped
               PROVE  s \in rows' /\ keptUntil'[s] <= deadline'
    BY <1>1 DEF AnsweredIsKept
  <2>1. CASE s = t
    <3>1. pc[t] = "expire" /\ t \in rows
      BY <1>19, <1>20, <2>1
    <3>2. keptUntil'[t] = now + TTL /\ deadline' = now + TTL
      BY <1>1, <1>4, <1>6, <1>16, <3>1
    <3> QED
      BY <1>4, <1>5, <1>12, <2>1, <3>1, <3>2
  <2>2. CASE s # t
    <3>1. Answered(s) /\ keptUntil'[s] = keptUntil[s]
      BY <1>17, <1>18, <2>2
    <3>2. s \in rows /\ keptUntil[s] <= deadline
      BY <3>1 DEF RedisInv, AnsweredIsKept
    <3>3. keptUntil[s] \in Nat /\ deadline' \in Nat
      BY <1>4, <1>8 DEF TypeOK
    <3> QED
      BY <1>4, <1>12, <1>16, <3>1, <3>2, <3>3
  <2> QED
    BY <2>1, <2>2
<1> QED
  BY <1>8, <1>9, <1>14, <1>15, <1>21, <1>22 DEF RedisInv

LEMMA TickKeeps ==
  ASSUME RedisInv, Tick
  PROVE  RedisInv'
<1>1. now' = now + 1 /\ UNCHANGED <<client, pc, reply, resends, keptUntil>>
  BY DEF Tick, taskVars
<1>2. \/ /\ deadline = now + 1 /\ rows' = {} /\ deadline' = 0
         /\ dropped' = dropped \cup {s \in rows : ~Answered(s)}
      \/ deadline # now + 1 /\ UNCHANGED <<rows, deadline, dropped>>
  BY DEF Tick
<1>3. /\ now \in Nat /\ deadline \in Nat /\ rows \subseteq Saves /\ dropped \subseteq Saves
      /\ (deadline # 0 => now < deadline) /\ keptUntil \in [Saves -> Nat] /\ TTL \in Nat
  BY RedisAssumption DEF RedisInv, TypeOK
<1>4. \A s \in Saves : Answered(s)' <=> Answered(s)
  BY <1>1 DEF Answered
<1>5. TypeOK'
  BY <1>1, <1>2, <1>3 DEF RedisInv, TypeOK
<1>6. SaveRequests'
  BY <1>1 DEF RedisInv, SaveRequests
<1>7. PushedHeld'
  <2>1. \A s \in Saves :
          \/ pc[s] = "rpush" /\ reply[s] = "ok"
          \/ pc[s] = "expire" /\ reply[s] # "ok"
          => ~Answered(s) /\ s \in rows \cup dropped
    BY DEF RedisInv, PushedHeld, Answered
  <2> QED
    BY <1>1, <1>2, <2>1 DEF PushedHeld
<1>8. DeadlineNear'
  BY <1>1, <1>2, <1>3 DEF RedisInv, DeadlineNear
<1>9. AnsweredExpires'
  BY <1>2, <1>4 DEF RedisInv, AnsweredExpires
<1>10. AnsweredIsKept'
  <2> SUFFICES ASSUME NEW s \in Saves, Answered(s), now + 1 < keptUntil[s], s \notin dropped'
               PROVE  s \in rows' /\ keptUntil[s] <= deadline'
    BY <1>1, <1>4 DEF AnsweredIsKept
  <2>1. now < keptUntil[s] /\ s \notin dropped
    BY <1>2, <1>3
  <2>2. s \in rows /\ keptUntil[s] <= deadline
    BY <2>1 DEF RedisInv, AnsweredIsKept
  <2>3. deadline # now + 1
    BY <1>3, <2>2
  <2> QED
    BY <1>2, <2>2, <2>3
<1> QED
  BY <1>5, <1>6, <1>7, <1>8, <1>9, <1>10 DEF RedisInv

LEMMA StepKeeps == RedisInv /\ [Next]_vars => RedisInv'
<1> SUFFICES ASSUME RedisInv, [Next]_vars PROVE RedisInv'
  OBVIOUS
<1>1. ASSUME NEW t \in Tasks, Start(t) \/ StartClose(t) PROVE RedisInv'
  BY <1>1, StartKeeps
<1>2. ASSUME NEW t \in Tasks, Resume(t) PROVE RedisInv'
  BY <1>2, ResumeKeeps
<1>3. ASSUME NEW t \in Tasks, ResumeFails(t) \/ Fails(t) PROVE RedisInv'
  BY <1>3, FailureKeeps
<1>4. ASSUME NEW t \in Tasks, Executes(t) \/ ReplyLost(t) PROVE RedisInv'
  BY <1>4, ExecutionKeeps
<1>5. ASSUME NEW p \in Procs, Crash(p) PROVE RedisInv'
  BY <1>5, CrashKeeps
<1>6. CASE Tick
  BY <1>6, TickKeeps
<1>7. CASE UNCHANGED vars
  BY <1>7, StutterKeeps
<1>8. Users \subseteq Tasks /\ Closes \subseteq Tasks
  BY DEF Tasks
<1> QED
  BY <1>1, <1>2, <1>3, <1>4, <1>5, <1>6, <1>7, <1>8 DEF Next

LEMMA Invariant == Spec => []RedisInv
  BY InitInv, StepKeeps, PTL DEF Spec

-----------------------------------------------------------------------------
(* Every variable keeps its type, and an empty list has no deadline.        *)
THEOREM RedisTypes == Spec => []TypeOK
  BY Invariant, PTL DEF RedisInv

(* A list with the row of a save that ended expires, for any number of     *)
(* processes, saves, crashes and resent requests (redis_store.py:53).      *)
THEOREM EndedSavesExpire == Spec => []EndedExpires
<1>1. RedisInv => EndedExpires
  BY DEF RedisInv, AnsweredExpires, EndedExpires, Answered
<1> QED
  BY <1>1, Invariant, PTL

(* And not before the TTL its EXPIRE asked for, whatever others do to the  *)
(* list they share.                                                        *)
THEOREM EndedSavesKept == Spec => []EndedIsKept
<1>1. RedisInv => EndedIsKept
  BY DEF RedisInv, AnsweredIsKept, EndedIsKept, Answered
<1> QED
  BY <1>1, Invariant, PTL

=============================================================================
