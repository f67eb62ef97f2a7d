-------------------------- MODULE SqliteStore_proof --------------------------
(***************************************************************************)
(* Theorems about SqliteStore, for any saves, gets and closes of one store.*)
(***************************************************************************)
EXTENDS SqliteStore, Integers, TLAPS

(* Where the request of task t is: with the thread of connection k, or     *)
(* executed; Granted(t) when it succeeded.                                 *)
Queued(t, k) == \E i \in 1..Len(queue[k]) : queue[k][i].task = t
Answered(t) == \E i \in 1..Len(ready) : ready[i].task = t
Granted(t) == \E i \in 1..Len(ready) : ready[i].task = t /\ ready[i].ok

-----------------------------------------------------------------------------
(* What holds whatever races.                                              *)

(* A task awaits one request.                                              *)
OneRequest ==
  /\ \A k \in Conns : \A i, j \in 1..Len(queue[k]) :
       queue[k][i].task = queue[k][j].task => i = j
  /\ \A i, j \in 1..Len(ready) : ready[i].task = ready[j].task => i = j
  /\ \A t \in Tasks, k, l \in Conns : Queued(t, k) /\ Queued(t, l) => k = l
  /\ \A t \in Tasks, k \in Conns : Queued(t, k) => ~Answered(t)

(* It is the one its pc names.                                             *)
RequestOfPc ==
  /\ \A k \in Conns : \A i \in 1..Len(queue[k]) : queue[k][i].op = pc[queue[k][i].task]
  /\ \A t \in Tasks : Answered(t) => pc[t] \in Op

RequestsOfKind ==
  /\ \A s \in Saves : pc[s] \notin {"select", "fetch", "close"}
  /\ \A g \in Gets : pc[g] \notin {"insert", "commit", "close"}
  /\ \A c \in Closes : pc[c] \in {"new", "close", "done", "failed"}

(* Until its task goes on, a connection is used for nothing else.          *)
Fresh ==
  /\ \A k \in Conns : pc[k] \in {"new", "connect"} =>
       /\ \A t \in Tasks : Queued(t, k) => t = k
       /\ conn # k /\ tx[k] = {}
       /\ k \in open <=> Granted(k)
  /\ \A t \in Users, k \in Conns : pc[t] = "connect" /\ Queued(t, k) => k = t

StructureInv == TypeOK /\ OneRequest /\ RequestOfPc /\ RequestsOfKind /\ Fresh

-----------------------------------------------------------------------------
(* What holds while no two tasks connect at once.                          *)

OneConnects ==
  /\ \A t, u \in Connecting : t = u
  /\ Connecting # {} => conn = NoConn
  /\ open \subseteq {conn} \cup Connecting
  /\ conn \in Conns \ open => \E c \in Tasks : pc[c] = "close" /\ Granted(c)

(* A connection that was closed stays _conn until its close goes on, and   *)
(* nothing succeeds in the meantime.                                       *)
CloseIsLast ==
  \A j \in 1..Len(ready) : ready[j].ok /\ pc[ready[j].task] = "close" =>
    /\ conn \in Conns \ open
    /\ \A i \in (j+1)..Len(ready) : ~ready[i].ok

(* The row of a save on its way to the file.                               *)
RowHeld ==
  \A s \in Saves :
    /\ pc[s] = "done" => s \in db
    /\ pc[s] = "commit" /\ Granted(s) => s \in db
    /\ \A k \in Conns : pc[s] = "commit" /\ Queued(s, k)
         => s \in db \/ s \in tx[k] \/ k \notin open
    /\ pc[s] = "insert" /\ Granted(s)
         => s \in db \/ (conn \in Conns /\ (s \in tx[conn] \/ conn \notin open))

(* An uncommitted row waits for its own save, on an open connection.       *)
PendingRows ==
  \A k \in Conns : \A s \in tx[k] :
    /\ k \in open
    /\ \/ pc[s] = "insert" /\ Granted(s)
       \/ pc[s] = "commit" /\ Queued(s, k)

Seen ==
  \A g \in Gets :
    /\ before[g] \subseteq db
    /\ pc[g] \in {"fetch", "done"} \/ (pc[g] = "select" /\ Granted(g))
         => before[g] \subseteq answer[g]

RaceFree == OneConnects /\ CloseIsLast /\ RowHeld /\ PendingRows /\ Seen

SqliteInv == StructureInv /\ (~raced => RaceFree)

-----------------------------------------------------------------------------
(* What a step does to the requests.                                       *)

LEMMA TailFacts ==
  ASSUME NEW S, NEW s \in Seq(S), s # <<>>
  PROVE  /\ Len(s) \in Nat /\ 1 \in 1..Len(s)
         /\ Head(s) = s[1] /\ s[1] \in S
         /\ Tail(s) \in Seq(S) /\ Len(Tail(s)) = Len(s) - 1
         /\ \A i \in 1..(Len(s) - 1) : Tail(s)[i] = s[i+1]
  OBVIOUS

LEMMA AppendFacts ==
  ASSUME NEW S, NEW s \in Seq(S), NEW e \in S
  PROVE  /\ Len(s) \in Nat
         /\ Append(s, e) \in Seq(S) /\ Len(Append(s, e)) = Len(s) + 1
         /\ \A i \in 1..Len(s) : Append(s, e)[i] = s[i]
         /\ Append(s, e)[Len(s) + 1] = e
  OBVIOUS

LEMMA ElementTyped ==
  ASSUME NEW S, NEW s \in Seq(S), NEW i \in 1..Len(s)
  PROVE  s[i] \in S
  OBVIOUS

LEMMA UpdateTyped ==
  ASSUME NEW D, NEW R, NEW f \in [D -> R], NEW d \in D, NEW r \in R
  PROVE  [f EXCEPT ![d] = r] \in [D -> R]
  OBVIOUS

LEMMA QueueTyped ==
  ASSUME TypeOK
  PROVE  /\ \A l \in Conns : queue[l] \in Seq([task : Tasks, op : Op])
         /\ \A l \in Conns : \A i \in 1..Len(queue[l]) :
              queue[l][i].task \in Tasks /\ queue[l][i].op \in Op
<1>1. \A l \in Conns : queue[l] \in Seq([task : Tasks, op : Op])
  BY DEF TypeOK
<1>2. ASSUME NEW l \in Conns, NEW i \in 1..Len(queue[l])
      PROVE  queue[l][i].task \in Tasks /\ queue[l][i].op \in Op
  <2>1. queue[l][i] \in [task : Tasks, op : Op]
    BY <1>1, ElementTyped
  <2> QED
    BY ONLY <2>1
<1> QED
  BY <1>1, <1>2

(* A task that goes on: its answer, if it awaited one, is taken, and it    *)
(* asks for p on connection k, or is over.                                 *)
GoesOn(t, p, k) ==
  /\ pc' = [pc EXCEPT ![t] = p]
  /\ IF p \in Op THEN queue' = [queue EXCEPT ![k] = Append(@, [task |-> t, op |-> p])]
     ELSE queue' = queue
  /\ \/ ready' = ready /\ pc[t] = "new"
     \/ ready # <<>> /\ Head(ready).task = t /\ ready' = Tail(ready)

LEMMA GoesOnEffect ==
  ASSUME TypeOK, OneRequest, RequestOfPc,
         NEW t \in Tasks, NEW p \in Op \cup {"done", "failed"},
         NEW k, p \in Op => k \in Conns, GoesOn(t, p, k)
  PROVE  /\ pc' \in [Tasks -> Op \cup {"new", "done", "failed"}]
         /\ pc'[t] = p /\ \A u \in Tasks \ {t} : pc'[u] = pc[u]
         /\ queue' \in [Conns -> Seq([task : Tasks, op : Op])]
         /\ ready' \in Seq([task : Tasks, ok : BOOLEAN])
         /\ \A u \in Tasks, l \in Conns :
              Queued(u, l)' <=> Queued(u, l) \/ (p \in Op /\ u = t /\ l = k)
         /\ \A u \in Tasks : Answered(u)' <=> Answered(u) /\ u # t
         /\ \A u \in Tasks : Granted(u)' <=> Granted(u) /\ u # t
         /\ \A l \in Conns : ~Queued(t, l)
         /\ OneRequest' /\ RequestOfPc'
<1>a. /\ pc \in [Tasks -> Op \cup {"new", "done", "failed"}]
      /\ queue \in [Conns -> Seq([task : Tasks, op : Op])]
      /\ ready \in Seq([task : Tasks, ok : BOOLEAN])
  BY DEF TypeOK
<1>b. "new" \notin Op /\ "done" \notin Op /\ "failed" \notin Op
  BY DEF Op
<1>1. pc' \in [Tasks -> Op \cup {"new", "done", "failed"}]
      /\ pc'[t] = p /\ \A u \in Tasks \ {t} : pc'[u] = pc[u]
  BY <1>a DEF GoesOn
<1>2. \A l \in Conns : ~Queued(t, l)
  <2>1. CASE ready' = ready /\ pc[t] = "new"
    BY QueueTyped, <1>b, <2>1 DEF Queued, RequestOfPc
  <2>2. CASE ready # <<>> /\ Head(ready).task = t
    <3>1. Answered(t)
      BY <1>a, <2>2, TailFacts DEF Answered
    <3> QED
      BY <3>1 DEF OneRequest
  <2> QED
    BY <2>1, <2>2 DEF GoesOn
<1>3. /\ ready' \in Seq([task : Tasks, ok : BOOLEAN])
      /\ \A i, j \in 1..Len(ready') : ready'[i].task = ready'[j].task => i = j
      /\ \A u \in Tasks : Answered(u)' <=> Answered(u) /\ u # t
      /\ \A u \in Tasks : Granted(u)' <=> Granted(u) /\ u # t
  <2>1. CASE ready' = ready /\ pc[t] = "new"
    <3>1. ~Answered(t) /\ ~Granted(t)
      BY <1>b, <2>1 DEF RequestOfPc, Answered, Granted
    <3> QED
      BY <1>a, <2>1, <3>1 DEF Answered, Granted, OneRequest
  <2>2. CASE ready # <<>> /\ Head(ready).task = t /\ ready' = Tail(ready)
    <3>1. /\ Len(ready) \in Nat /\ 1 \in 1..Len(ready) /\ ready[1].task = t
          /\ ready' \in Seq([task : Tasks, ok : BOOLEAN]) /\ Len(ready') = Len(ready) - 1
          /\ \A i \in 1..(Len(ready) - 1) : ready'[i] = ready[i+1]
      BY <1>a, <2>2, TailFacts
    <3>2. \A i, j \in 1..Len(ready) : ready[i].task = ready[j].task => i = j
      BY DEF OneRequest
    <3>3. \A i, j \in 1..Len(ready') : ready'[i].task = ready'[j].task => i = j
      <4> TAKE i, j \in 1..Len(ready')
      <4>1. i + 1 \in 1..Len(ready) /\ j + 1 \in 1..Len(ready)
        BY <3>1
      <4>2. ready'[i] = ready[i+1] /\ ready'[j] = ready[j+1]
        BY <3>1
      <4>3. i + 1 = j + 1 => i = j
        BY <3>1
      <4> QED
        BY <3>2, <4>1, <4>2, <4>3
    <3>4. \A u \in Tasks, i \in 1..Len(ready) : ready[i].task = u /\ u # t =>
            i - 1 \in 1..Len(ready') /\ ready'[i-1] = ready[i]
      BY <3>1
    <3>5. \A i \in 1..Len(ready') :
            i + 1 \in 1..Len(ready) /\ ready'[i] = ready[i+1] /\ ready[i+1].task # t
      BY <3>1, <3>2
    <3>6. ASSUME NEW u \in Tasks
          PROVE  (Answered(u)' <=> Answered(u) /\ u # t) /\ (Granted(u)' <=> Granted(u) /\ u # t)
      <4>1. Answered(u) /\ u # t => Answered(u)'
        BY <3>4 DEF Answered
      <4>2. Granted(u) /\ u # t => Granted(u)'
        BY <3>4 DEF Granted
      <4>3. Answered(u)' => Answered(u) /\ u # t
        BY <3>5 DEF Answered
      <4>4. Granted(u)' => Granted(u) /\ u # t
        BY <3>5 DEF Granted
      <4> QED
        BY <4>1, <4>2, <4>3, <4>4
    <3> QED
      BY <3>1, <3>3, <3>6
  <2> QED
    BY <2>1, <2>2 DEF GoesOn
<1>4. /\ queue' \in [Conns -> Seq([task : Tasks, op : Op])]
      /\ \A u \in Tasks, l \in Conns :
           Queued(u, l)' <=> Queued(u, l) \/ (p \in Op /\ u = t /\ l = k)
      /\ \A l \in Conns : \A i, j \in 1..Len(queue'[l]) :
           queue'[l][i].task = queue'[l][j].task => i = j
      /\ \A l \in Conns : \A i \in 1..Len(queue'[l]) :
           queue'[l][i].op = pc'[queue'[l][i].task]
  <2>1. CASE p \notin Op
    <3>1. queue' = queue
      BY <2>1 DEF GoesOn
    <3>2. \A l \in Conns : \A i \in 1..Len(queue[l]) :
            queue[l][i].task \in Tasks \ {t} /\ queue[l][i].op = pc[queue[l][i].task]
      BY QueueTyped, <1>2 DEF Queued, RequestOfPc
    <3>3. \A u \in Tasks, l \in Conns : Queued(u, l)' <=> Queued(u, l)
      BY <3>1 DEF Queued
    <3>4. \A l \in Conns : \A i \in 1..Len(queue'[l]) :
            queue'[l][i].op = pc'[queue'[l][i].task]
      BY <1>1, <3>1, <3>2
    <3> QED
      BY <1>a, <2>1, <3>1, <3>3, <3>4 DEF OneRequest
  <2>2. CASE p \in Op
    <3>0. k \in Conns
      BY <2>2
    <3> USE <3>0
    <3> DEFINE e == [task |-> t, op |-> p]
    <3>1. e \in [task : Tasks, op : Op] /\ e.task = t /\ e.op = p
      BY <2>2
    <3>a. queue' = [queue EXCEPT ![k] = Append(queue[k], e)]
      BY <2>2 DEF GoesOn
    <3>2. /\ queue[k] \in Seq([task : Tasks, op : Op])
          /\ queue'[k] = Append(queue[k], e) /\ \A l \in Conns \ {k} : queue'[l] = queue[l]
      BY <1>a, <3>a
    <3> HIDE DEF e
    <3>3. /\ Len(queue[k]) \in Nat
          /\ queue'[k] \in Seq([task : Tasks, op : Op]) /\ Len(queue'[k]) = Len(queue[k]) + 1
          /\ \A i \in 1..Len(queue[k]) : queue'[k][i] = queue[k][i]
          /\ queue'[k][Len(queue[k]) + 1] = e
      BY <3>1, <3>2, AppendFacts
    <3>4. queue' \in [Conns -> Seq([task : Tasks, op : Op])]
      <4>1. Append(queue[k], e) \in Seq([task : Tasks, op : Op])
        BY <3>2, <3>3
      <4> QED
        BY <1>a, <3>a, <4>1, UpdateTyped
    <3>5. \A l \in Conns : \A i \in 1..Len(queue[l]) :
            queue[l][i].task \in Tasks \ {t} /\ queue[l][i].op = pc[queue[l][i].task]
      BY QueueTyped, <1>2 DEF Queued, RequestOfPc
    <3>6. \A i \in 1..Len(queue'[k]) :
            i \in 1..Len(queue[k]) \/ (i = Len(queue[k]) + 1 /\ queue'[k][i] = e)
      BY <3>3
    <3>7. \A i \in 1..Len(queue[k]) : i \in 1..Len(queue'[k])
      BY <3>3
    <3>8. Len(queue[k]) + 1 \in 1..Len(queue'[k])
      BY <3>3
    <3>9. ASSUME NEW u \in Tasks, NEW l \in Conns
          PROVE  Queued(u, l)' <=> Queued(u, l) \/ (u = t /\ l = k)
      <4>1. CASE l # k
        BY <3>2, <4>1 DEF Queued
      <4>2. CASE l = k
        <5>1. Queued(u, k) => Queued(u, k)'
          BY <3>3, <3>7 DEF Queued
        <5>2. u = t => Queued(u, k)'
          BY <3>1, <3>3, <3>8 DEF Queued
        <5>3. Queued(u, k)' => Queued(u, k) \/ u = t
          BY <3>1, <3>3, <3>6 DEF Queued
        <5> QED
          BY <4>2, <5>1, <5>2, <5>3
      <4> QED
        BY <4>1, <4>2
    <3>10. ASSUME NEW l \in Conns, NEW i \in 1..Len(queue'[l]), NEW j \in 1..Len(queue'[l])
           PROVE  /\ queue'[l][i].task = queue'[l][j].task => i = j
                  /\ queue'[l][i].op = pc'[queue'[l][i].task]
      <4>1. CASE l # k
        BY <1>1, <3>2, <3>5, <4>1 DEF OneRequest
      <4>2. CASE l = k
        <5>1. \A m \in 1..Len(queue[k]) : queue'[k][m].task # t
          BY <3>3, <3>5
        <5>2. CASE i \in 1..Len(queue[k]) /\ j \in 1..Len(queue[k])
          <6>1. queue'[k][i] = queue[k][i] /\ queue'[k][j] = queue[k][j]
            BY <3>3, <5>2
          <6>2. queue[k][i].task = queue[k][j].task => i = j
            BY <5>2 DEF OneRequest
          <6>3. queue[k][i].task \in Tasks \ {t} /\ queue[k][i].op = pc[queue[k][i].task]
            BY <3>5, <5>2
          <6> QED
            BY <1>1, <4>2, <6>1, <6>2, <6>3
        <5>3. CASE i = Len(queue[k]) + 1 /\ j \in 1..Len(queue[k])
          BY <1>1, <3>1, <3>3, <4>2, <5>1, <5>3
        <5>4. CASE i \in 1..Len(queue[k]) /\ j = Len(queue[k]) + 1
          <6>1. queue'[k][i] = queue[k][i] /\ queue'[k][j] = e
            BY <3>3, <5>4
          <6>2. queue[k][i].task \in Tasks \ {t} /\ queue[k][i].op = pc[queue[k][i].task]
            BY <3>5, <5>4
          <6> QED
            BY <1>1, <3>1, <4>2, <6>1, <6>2
        <5>5. CASE i = Len(queue[k]) + 1 /\ j = Len(queue[k]) + 1
          BY <1>1, <3>1, <3>3, <4>2, <5>5
        <5> QED
          BY <3>6, <4>2, <5>2, <5>3, <5>4, <5>5
      <4> QED
        BY <4>1, <4>2
    <3> QED
      BY <2>2, <3>4, <3>9, <3>10
  <2> QED
    BY <2>1, <2>2
<1>5. OneRequest'
  <2>1. \A u \in Tasks, l, m \in Conns : Queued(u, l)' /\ Queued(u, m)' => l = m
    BY <1>2, <1>4 DEF OneRequest
  <2>2. \A u \in Tasks, l \in Conns : Queued(u, l)' => ~Answered(u)'
    BY <1>3, <1>4 DEF OneRequest
  <2> QED
    BY <1>3, <1>4, <2>1, <2>2 DEF OneRequest
<1>6. RequestOfPc'
  BY <1>1, <1>3, <1>4 DEF RequestOfPc
<1> QED
  BY <1>1, <1>2, <1>3, <1>4, <1>5, <1>6

LEMMA ExecutedEffect ==
  ASSUME TypeOK, OneRequest, RequestOfPc,
         NEW k \in Conns, queue[k] # <<>>, NEW ok \in BOOLEAN, Executed(k, ok)
  PROVE  /\ Head(queue[k]).task \in Tasks /\ Head(queue[k]).op = pc[Head(queue[k]).task]
         /\ Queued(Head(queue[k]).task, k) /\ ~Answered(Head(queue[k]).task)
         /\ queue' \in [Conns -> Seq([task : Tasks, op : Op])]
         /\ ready' \in Seq([task : Tasks, ok : BOOLEAN])
         /\ \A u \in Tasks, l \in Conns :
              Queued(u, l)' <=> Queued(u, l) /\ u # Head(queue[k]).task
         /\ \A u \in Tasks : Answered(u)' <=> Answered(u) \/ u = Head(queue[k]).task
         /\ \A u \in Tasks : Granted(u)' <=> Granted(u) \/ (ok /\ u = Head(queue[k]).task)
         /\ Len(ready) \in Nat /\ Len(ready') = Len(ready) + 1
         /\ \A i \in 1..Len(ready) : ready'[i] = ready[i]
         /\ ready'[Len(ready) + 1].task = Head(queue[k]).task
         /\ ready'[Len(ready) + 1].ok = ok
         /\ OneRequest' /\ RequestOfPc'
<1> DEFINE h == Head(queue[k]).task
           e == [task |-> h, ok |-> ok]
<1>a. /\ pc \in [Tasks -> Op \cup {"new", "done", "failed"}]
      /\ queue \in [Conns -> Seq([task : Tasks, op : Op])]
      /\ ready \in Seq([task : Tasks, ok : BOOLEAN])
  BY DEF TypeOK
<1>1. /\ queue' = [queue EXCEPT ![k] = Tail(@)] /\ ready' = Append(ready, e)
      /\ pc' = pc
  BY DEF Executed
<1>2. /\ Len(queue[k]) \in Nat /\ 1 \in 1..Len(queue[k])
      /\ Head(queue[k]) = queue[k][1] /\ queue[k][1] \in [task : Tasks, op : Op]
      /\ Tail(queue[k]) \in Seq([task : Tasks, op : Op])
      /\ Len(Tail(queue[k])) = Len(queue[k]) - 1
      /\ \A i \in 1..(Len(queue[k]) - 1) : Tail(queue[k])[i] = queue[k][i+1]
  <2>1. queue[k] \in Seq([task : Tasks, op : Op])
    BY <1>a
  <2> QED
    BY ONLY <2>1, queue[k] # <<>>, TailFacts
<1>3. h \in Tasks /\ h = queue[k][1].task /\ Head(queue[k]).op = pc[h] /\ pc[h] \in Op
      /\ Queued(h, k)
  BY <1>2 DEF RequestOfPc, Queued
<1>4. e \in [task : Tasks, ok : BOOLEAN] /\ e.task = h /\ e.ok = ok
  BY <1>3
<1> HIDE DEF h, e
<1>5. ~Answered(h) /\ ~Granted(h)
  BY <1>3 DEF OneRequest, Answered, Granted
<1>6. /\ Len(ready) \in Nat /\ ready' \in Seq([task : Tasks, ok : BOOLEAN])
      /\ Len(ready') = Len(ready) + 1
      /\ \A i \in 1..Len(ready) : ready'[i] = ready[i]
      /\ ready'[Len(ready) + 1] = e
  BY <1>a, <1>1, <1>4, AppendFacts
<1>7. \A i \in 1..Len(ready') :
        i \in 1..Len(ready) \/ (i = Len(ready) + 1 /\ ready'[i] = e)
  BY <1>6
<1>8. \A i \in 1..Len(ready) : i \in 1..Len(ready') /\ ready[i].task # h
  BY <1>5, <1>6 DEF Answered
<1>9. Len(ready) + 1 \in 1..Len(ready')
  BY <1>6
<1>10. ASSUME NEW u \in Tasks
       PROVE  /\ Answered(u)' <=> Answered(u) \/ u = h
              /\ Granted(u)' <=> Granted(u) \/ (ok /\ u = h)
  <2>1. Answered(u)' => Answered(u) \/ u = h
    BY <1>4, <1>6, <1>7 DEF Answered
  <2>2. Granted(u)' => Granted(u) \/ (ok /\ u = h)
    BY <1>4, <1>6, <1>7 DEF Granted
  <2>3. Answered(u) => Answered(u)'
    BY <1>6, <1>8 DEF Answered
  <2>4. Granted(u) => Granted(u)'
    BY <1>6, <1>8 DEF Granted
  <2>5. u = h => Answered(u)'
    BY <1>4, <1>6, <1>9 DEF Answered
  <2>6. ok /\ u = h => Granted(u)'
    BY <1>4, <1>6, <1>9 DEF Granted
  <2> QED
    BY <2>1, <2>2, <2>3, <2>4, <2>5, <2>6
<1>11. \A i, j \in 1..Len(ready') : ready'[i].task = ready'[j].task => i = j
  BY <1>4, <1>6, <1>7, <1>8 DEF OneRequest
<1>12. /\ queue' \in [Conns -> Seq([task : Tasks, op : Op])]
       /\ queue'[k] = Tail(queue[k]) /\ \A l \in Conns \ {k} : queue'[l] = queue[l]
  BY <1>a, <1>1, <1>2
<1>13. \A l \in Conns : \A i, j \in 1..Len(queue[l]) :
         queue[l][i].task = queue[l][j].task => i = j
  BY DEF OneRequest
<1>14. \A i \in 1..Len(queue'[k]) :
         i + 1 \in 1..Len(queue[k]) /\ queue'[k][i] = queue[k][i+1] /\ queue[k][i+1].task # h
  BY <1>2, <1>3, <1>12, <1>13
<1>15. \A i \in 1..Len(queue[k]) : queue[k][i].task # h =>
         i - 1 \in 1..Len(queue'[k]) /\ queue'[k][i-1] = queue[k][i]
  BY <1>2, <1>3, <1>12
<1>16. ASSUME NEW u \in Tasks, NEW l \in Conns
       PROVE  Queued(u, l)' <=> Queued(u, l) /\ u # h
  <2>1. CASE l # k
    <3>1. ~Queued(h, l)
      BY <1>3, <2>1 DEF OneRequest
    <3> QED
      BY <1>12, <2>1, <3>1 DEF Queued
  <2>2. CASE l = k
    <3>1. Queued(u, k)' => Queued(u, k) /\ u # h
      BY <1>14 DEF Queued
    <3>2. Queued(u, k) /\ u # h => Queued(u, k)'
      BY <1>15 DEF Queued
    <3> QED
      BY <2>2, <3>1, <3>2
  <2> QED
    BY <2>1, <2>2
<1>17. ASSUME NEW l \in Conns, NEW i \in 1..Len(queue'[l])
       PROVE  /\ queue'[l][i].op = pc'[queue'[l][i].task]
              /\ \A j \in 1..Len(queue'[l]) : queue'[l][i].task = queue'[l][j].task => i = j
  <2>1. CASE l # k
    BY <1>1, <1>12, <1>13, <2>1 DEF RequestOfPc
  <2>2. CASE l = k
    <3>1. i + 1 \in 1..Len(queue[k]) /\ queue'[k][i] = queue[k][i+1]
      BY <1>14, <2>2
    <3>2. queue[k][i+1].op = pc[queue[k][i+1].task]
      BY <3>1 DEF RequestOfPc
    <3>3. ASSUME NEW j \in 1..Len(queue'[k]), queue'[k][i].task = queue'[k][j].task
          PROVE  i = j
      <4>1. j + 1 \in 1..Len(queue[k]) /\ queue'[k][j] = queue[k][j+1]
        BY <1>14
      <4>2. i + 1 = j + 1
        BY <1>13, <3>1, <3>3, <4>1
      <4> QED
        BY <1>2, <1>12, <2>2, <4>2
    <3> QED
      BY <1>1, <2>2, <3>1, <3>2, <3>3
  <2> QED
    BY <2>1, <2>2
<1>18. OneRequest'
  <2>1. \A u \in Tasks, l, m \in Conns : Queued(u, l)' /\ Queued(u, m)' => l = m
    BY <1>16 DEF OneRequest
  <2>2. \A u \in Tasks, l \in Conns : Queued(u, l)' => ~Answered(u)'
    BY <1>10, <1>16 DEF OneRequest
  <2> QED
    BY <1>11, <1>17, <2>1, <2>2 DEF OneRequest
<1>19. RequestOfPc'
  BY <1>1, <1>3, <1>10, <1>17 DEF RequestOfPc
<1> QED
  BY <1>3, <1>4, <1>5, <1>6, <1>10, <1>12, <1>16, <1>18, <1>19 DEF h

-----------------------------------------------------------------------------
(* The steps of tasks.                                                     *)

(* What a task does when it goes on, with p on connection k or over.       *)
Moves(t, p, k) ==
  /\ GoesOn(t, p, k) /\ UNCHANGED <<open, tx, db, answer>>
  /\ t \in Saves => p \notin {"select", "fetch", "close"}
  /\ t \in Gets => p \notin {"insert", "commit", "close"}
  /\ t \in Closes => p \in {"close", "done", "failed"}
  /\ p = "connect" => /\ pc[t] = "new" /\ k = t /\ conn = NoConn
                      /\ raced' \/ Connecting = {}
  /\ p \in Op \ {"connect"} => k = conn'
  /\ \/ conn' = conn /\ (pc[t] \in {"connect", "close"} => ~Granted(t))
     \/ conn' = t /\ pc[t] = "connect" /\ Granted(t)
     \/ conn' = NoConn /\ pc[t] = "close" /\ Granted(t)
  /\ raced' \in BOOLEAN /\ (raced => raced')
  /\ p = "commit" => pc[t] = "insert" /\ Granted(t)
  /\ pc[t] = "insert" /\ Granted(t) /\ conn \in Conns => p = "commit"
  /\ p = "fetch" => pc[t] = "select" /\ Granted(t)
  /\ p = "done" /\ t \in Saves => pc[t] = "commit" /\ Granted(t)
  /\ p = "done" /\ t \in Gets => pc[t] = "fetch"
  /\ \/ before' = before
     \/ t \in Gets /\ pc[t] = "new"
        /\ before' = [before EXCEPT ![t] = {s \in Saves : pc[s] = "done"}]

LEMMA MovesStructure ==
  ASSUME StructureInv, NEW t \in Tasks, NEW p \in Op \cup {"done", "failed"},
         NEW k, p \in Op => k \in Conns, Moves(t, p, k)
  PROVE  StructureInv'
<1>a. TypeOK /\ OneRequest /\ RequestOfPc
  BY DEF StructureInv
<1>b. GoesOn(t, p, k)
  BY DEF Moves
<1> USE DEF StructureInv
<1>1. /\ pc' \in [Tasks -> Op \cup {"new", "done", "failed"}]
      /\ pc'[t] = p /\ \A u \in Tasks \ {t} : pc'[u] = pc[u]
      /\ queue' \in [Conns -> Seq([task : Tasks, op : Op])]
      /\ ready' \in Seq([task : Tasks, ok : BOOLEAN])
      /\ \A u \in Tasks, l \in Conns :
           Queued(u, l)' <=> Queued(u, l) \/ (p \in Op /\ u = t /\ l = k)
      /\ \A u \in Tasks : Granted(u)' <=> Granted(u) /\ u # t
      /\ \A l \in Conns : ~Queued(t, l)
      /\ OneRequest' /\ RequestOfPc'
  <2> HIDE DEF StructureInv
  <2> QED
    BY <1>a, <1>b, GoesOnEffect
<1>2. UNCHANGED <<open, tx, db, answer>> /\ raced' \in BOOLEAN
  BY DEF Moves
<1>3. conn' \in {conn, NoConn} \/ (conn' = t /\ pc[t] = "connect")
  BY DEF Moves
<1>4. Conns \subseteq Tasks /\ "new" \notin Op /\ p # "new"
  BY DEF Conns, Tasks, Op
<1>5. pc[t] = "connect" => t \in Conns
  BY DEF RequestsOfKind, Conns, Users, Tasks
<1>6. conn' \in Conns \cup {NoConn}
  BY <1>3, <1>5 DEF TypeOK
<1>7. before' \in [Gets -> SUBSET Saves]
  <2>1. {s \in Saves : pc[s] = "done"} \in SUBSET Saves /\ before \in [Gets -> SUBSET Saves]
    BY DEF TypeOK
  <2> QED
    BY <2>1, UpdateTyped DEF Moves
<1>8. TypeOK'
  BY <1>1, <1>2, <1>6, <1>7 DEF TypeOK
<1>9. RequestsOfKind'
  <2>1. Saves \subseteq Tasks /\ Gets \subseteq Tasks /\ Closes \subseteq Tasks
    BY DEF Tasks, Users
  <2>2. ASSUME NEW s \in Saves PROVE pc'[s] \notin {"select", "fetch", "close"}
    BY <1>1, <2>1 DEF RequestsOfKind, Moves
  <2>3. ASSUME NEW g \in Gets PROVE pc'[g] \notin {"insert", "commit", "close"}
    BY <1>1, <2>1 DEF RequestsOfKind, Moves
  <2>4. ASSUME NEW c \in Closes PROVE pc'[c] \in {"new", "close", "done", "failed"}
    BY <1>1, <2>1 DEF RequestsOfKind, Moves
  <2> QED
    BY <2>2, <2>3, <2>4 DEF RequestsOfKind
<1>10. p = "connect" => pc[t] = "new" /\ k = t /\ conn' = conn
  BY DEF Moves
<1>11. p \in Op /\ p # "connect" => k = conn'
  BY DEF Moves
<1>12. Fresh'
  <2>1. ASSUME NEW l \in Conns, pc'[l] \in {"new", "connect"}
        PROVE  /\ \A u \in Tasks : Queued(u, l)' => u = l
               /\ conn' # l /\ tx'[l] = {}
               /\ l \in open' <=> Granted(l)'
    <3>1. CASE l # t
      <4>1. pc[l] \in {"new", "connect"}
        BY <1>1, <1>4, <2>1, <3>1
      <4>2. /\ \A u \in Tasks : Queued(u, l) => u = l
            /\ conn # l /\ tx[l] = {}
            /\ l \in open <=> Granted(l)
        BY <4>1 DEF Fresh
      <4>3. conn' # l
        BY <1>3, <3>1, <4>2, StoreAssumption DEF Conns, Tasks
      <4>4. ~(p \in Op /\ k = l)
        BY <1>10, <1>11, <3>1, <4>3
      <4> QED
        BY <1>1, <1>2, <1>4, <3>1, <4>2, <4>3, <4>4
    <3>2. CASE l = t
      <4>1. p = "connect"
        BY <1>1, <1>4, <2>1, <3>2
      <4>2. pc[l] = "new" /\ k = l /\ conn' = conn
        BY <1>10, <3>2, <4>1
      <4>3. /\ \A u \in Tasks : Queued(u, l) => u = l
            /\ conn # l /\ tx[l] = {}
            /\ l \in open <=> Granted(l)
        BY <4>2 DEF Fresh
      <4>4. Granted(l) => Answered(l)
        BY DEF Granted, Answered
      <4>5. ~Granted(l)
        BY <1>4, <4>2, <4>4 DEF RequestOfPc
      <4> QED
        BY <1>1, <1>2, <1>4, <3>2, <4>2, <4>3, <4>5
    <3> QED
      BY <3>1, <3>2
  <2>2. ASSUME NEW u \in Users, NEW l \in Conns, pc'[u] = "connect", Queued(u, l)'
        PROVE  l = u
    <3>1. Users \subseteq Tasks
      BY DEF Tasks
    <3>2. CASE u = t
      BY <1>1, <1>10, <2>2, <3>2
    <3>3. CASE u # t
      BY <1>1, <2>2, <3>1, <3>3 DEF Fresh
    <3> QED
      BY <3>2, <3>3
  <2> QED
    BY <2>1, <2>2 DEF Fresh
<1> QED
  BY <1>1, <1>8, <1>9, <1>12

LEMMA MovesRaceFree ==
  ASSUME StructureInv, RaceFree, NEW t \in Tasks, NEW p \in Op \cup {"done", "failed"},
         NEW k, p \in Op => k \in Conns, Moves(t, p, k), ~raced'
  PROVE  RaceFree'
<1> USE DEF StructureInv, RaceFree
<1>1. /\ pc' \in [Tasks -> Op \cup {"new", "done", "failed"}]
      /\ pc'[t] = p /\ \A u \in Tasks \ {t} : pc'[u] = pc[u]
      /\ \A u \in Tasks, l \in Conns :
           Queued(u, l)' <=> Queued(u, l) \/ (p \in Op /\ u = t /\ l = k)
      /\ \A u \in Tasks : Answered(u)' <=> Answered(u) /\ u # t
      /\ \A u \in Tasks : Granted(u)' <=> Granted(u) /\ u # t
      /\ \A l \in Conns : ~Queued(t, l)
  BY GoesOnEffect DEF Moves
<1>2. UNCHANGED <<open, tx, db, answer>>
  BY DEF Moves
<1>3. Conns \subseteq Tasks /\ NoConn \notin Conns /\ Saves \subseteq Tasks
      /\ Gets \subseteq Tasks /\ open \subseteq Conns
  BY StoreAssumption DEF Conns, Tasks, Users, TypeOK
<1>4. /\ \A u, v \in Connecting : u = v
      /\ Connecting # {} => conn = NoConn
      /\ open \subseteq {conn} \cup Connecting
      /\ conn \in Conns \ open => \E c \in Tasks : pc[c] = "close" /\ Granted(c)
  BY DEF OneConnects
<1>5. \/ p = "connect" /\ pc[t] = "new" /\ conn = NoConn /\ Connecting = {}
         /\ Connecting' = {t}
      \/ p # "connect" /\ Connecting' = Connecting \ {t}
  <2>1. p = "connect" => pc[t] = "new" /\ conn = NoConn /\ Connecting = {}
    BY DEF Moves
  <2> QED
    BY <1>1, <2>1 DEF Connecting
<1>a. t \in Connecting <=> pc[t] = "connect"
  BY DEF Connecting
<1>b. \/ conn' = conn /\ (pc[t] \in {"connect", "close"} => ~Granted(t))
      \/ conn' = t /\ pc[t] = "connect" /\ Granted(t)
      \/ conn' = NoConn /\ pc[t] = "close" /\ Granted(t)
  BY DEF Moves
(* A granted close is the head of ready when its task goes on.             *)
<1>6. ASSUME pc[t] = "close", Granted(t)
      PROVE  conn \in Conns \ open /\ \A u \in Tasks \ {t} : ~Granted(u)
  <2>1. ready # <<>> /\ Head(ready).task = t
    <3>1. Answered(t)
      BY <1>6 DEF Answered, Granted
    <3> QED
      BY <1>6 DEF Moves, GoesOn
  <2>2. Len(ready) \in Nat /\ 1 \in 1..Len(ready) /\ ready[1].task = t
    BY <2>1, TailFacts DEF TypeOK
  <2>3. ready[1].ok
    BY <1>6, <2>2 DEF Granted, OneRequest
  <2>4. conn \in Conns \ open /\ \A i \in 2..Len(ready) : ~ready[i].ok
    BY <1>6, <2>2, <2>3 DEF CloseIsLast
  <2>5. \A u \in Tasks \ {t} : ~Granted(u)
    BY <2>2, <2>4 DEF Granted
  <2> QED
    BY <2>4, <2>5
<1>7. t \in Conns /\ pc[t] = "connect" => (t \in open <=> Granted(t))
  BY DEF Fresh
<1>8. OneConnects'
  <2>1. \A u, v \in Connecting' : u = v
    BY <1>4, <1>5
  <2>2. Connecting' # {} => conn' = NoConn
    BY <1>4, <1>5, <1>a, <1>b
  <2>3. open' \subseteq {conn'} \cup Connecting'
    <3> SUFFICES ASSUME NEW x \in open PROVE x = conn' \/ x \in Connecting'
      BY <1>2
    <3>1. CASE x = conn
      BY <1>3, <1>4, <1>6, <1>a, <1>b, <3>1
    <3>2. CASE x \in Connecting
      BY <1>3, <1>5, <1>7, <1>a, <1>b, <3>2
    <3> QED
      BY <1>4, <3>1, <3>2
  <2>4. ASSUME conn' \in Conns \ open' PROVE \E c \in Tasks : pc'[c] = "close" /\ Granted(c)'
    <3>1. conn' # NoConn /\ (conn' = t => ~(pc[t] = "connect" /\ Granted(t)))
      BY <1>2, <1>3, <1>7, <2>4
    <3>2. conn' = conn /\ (pc[t] \in {"connect", "close"} => ~Granted(t))
      BY <1>b, <3>1
    <3>3. PICK c \in Tasks : pc[c] = "close" /\ Granted(c)
      BY <1>2, <1>4, <2>4, <3>2
    <3> QED
      BY <1>1, <3>2, <3>3
  <2> QED
    BY <2>1, <2>2, <2>3, <2>4 DEF OneConnects
<1>9. CloseIsLast'
  <2> SUFFICES ASSUME NEW j \in 1..Len(ready'), ready'[j].ok, pc'[ready'[j].task] = "close"
               PROVE  /\ conn' \in Conns \ open'
                      /\ \A i \in (j+1)..Len(ready') : ~ready'[i].ok
    BY DEF CloseIsLast
  <2>0. ready' \in Seq([task : Tasks, ok : BOOLEAN])
    BY GoesOnEffect DEF Moves
  <2>1. ready'[j].task \in Tasks \ {t}
    <3>1. ready'[j] \in [task : Tasks, ok : BOOLEAN]
      BY <2>0, ElementTyped
    <3>2. \A u \in Tasks : u = ready'[j].task => Answered(u)'
      BY DEF Answered
    <3>3. ready'[j].task \in Tasks
      BY ONLY <3>1
    <3> QED
      BY <1>1, <3>2, <3>3
  <2>2. pc[ready'[j].task] = "close"
    BY <1>1, <2>1
  <2>3. PICK m \in Nat : /\ m + j \in 1..Len(ready) /\ Len(ready') = Len(ready) - m
                         /\ \A i \in 1..Len(ready') : ready'[i] = ready[m+i]
                         /\ Len(ready) \in Nat
    <3>1. CASE ready' = ready
      <4>1. Len(ready) \in Nat
        BY DEF TypeOK
      <4>2. 0 + j \in 1..Len(ready) /\ Len(ready') = Len(ready) - 0
            /\ \A i \in 1..Len(ready') : ready'[i] = ready[0+i]
        BY <3>1, <4>1
      <4> QED
        BY <4>1, <4>2
    <3>2. CASE ready # <<>> /\ ready' = Tail(ready)
      <4>1. Len(ready) \in Nat /\ Len(ready') = Len(ready) - 1
            /\ \A i \in 1..(Len(ready) - 1) : ready'[i] = ready[i+1]
        BY <3>2, TailFacts DEF TypeOK
      <4>2. 1 + j \in 1..Len(ready) /\ Len(ready') = Len(ready) - 1
            /\ \A i \in 1..Len(ready') : ready'[i] = ready[1+i]
        BY <4>1
      <4> QED
        BY <4>1, <4>2
    <3> QED
      BY <3>1, <3>2 DEF Moves, GoesOn
  <2>4. ready[m+j].ok /\ pc[ready[m+j].task] = "close" /\ ready[m+j].task = ready'[j].task
    BY <2>2, <2>3
  <2>5. conn \in Conns \ open /\ \A i \in (m+j+1)..Len(ready) : ~ready[i].ok
    BY <2>3, <2>4 DEF CloseIsLast
  <2>6. \A i \in (j+1)..Len(ready') : ~ready'[i].ok
    BY <2>3, <2>5
  <2>7. Granted(ready'[j].task)
    BY <2>3, <2>4 DEF Granted
  <2>8. ~(pc[t] = "close" /\ Granted(t))
    BY <1>6, <2>1, <2>7
  <2>9. ~(pc[t] = "connect")
    BY <1>3, <1>4, <1>a, <2>5
  <2>10. conn' = conn
    BY <1>b, <2>8, <2>9
  <2> QED
    BY <1>2, <2>5, <2>6, <2>10
<1>10. RowHeld'
  <2> SUFFICES ASSUME NEW s \in Saves
        PROVE  /\ pc'[s] = "done" => s \in db'
               /\ pc'[s] = "commit" /\ Granted(s)' => s \in db'
               /\ \A l \in Conns : pc'[s] = "commit" /\ Queued(s, l)'
                    => s \in db' \/ s \in tx'[l] \/ l \notin open'
               /\ pc'[s] = "insert" /\ Granted(s)'
                    => s \in db' \/ (conn' \in Conns /\ (s \in tx'[conn'] \/ conn' \notin open'))
    BY DEF RowHeld
  <2>0. /\ pc[s] = "done" => s \in db
        /\ pc[s] = "commit" /\ Granted(s) => s \in db
        /\ \A l \in Conns : pc[s] = "commit" /\ Queued(s, l)
             => s \in db \/ s \in tx[l] \/ l \notin open
        /\ pc[s] = "insert" /\ Granted(s)
             => s \in db \/ (conn \in Conns /\ (s \in tx[conn] \/ conn \notin open))
    BY DEF RowHeld
  <2>1. CASE s # t
    <3>1. pc'[s] = pc[s] /\ (Granted(s)' <=> Granted(s))
          /\ \A l \in Conns : Queued(s, l)' <=> Queued(s, l)
      BY <1>1, <1>3, <2>1
    <3>2. Granted(s) /\ conn \in Conns => conn' = conn
      BY <1>3, <1>4, <1>6, <1>a, <1>b, <2>1
    <3> QED
      BY <1>2, <2>0, <3>1, <3>2
  <2>2. CASE s = t
    <3>1. pc'[s] = p /\ ~Granted(s)' /\ \A l \in Conns : Queued(s, l)' => l = k /\ p \in Op
      BY <1>1, <1>3, <2>2
    <3>2. p = "done" => pc[s] = "commit" /\ Granted(s)
      BY <2>2 DEF Moves
    <3>3. p = "commit" => pc[s] = "insert" /\ Granted(s) /\ k = conn'
      BY <2>2 DEF Moves, Op
    <3>4. p = "commit" => conn' = conn
      BY <1>b, <2>2, <3>3
    <3> QED
      BY <1>2, <2>0, <3>1, <3>2, <3>3, <3>4
  <2> QED
    BY <2>1, <2>2
<1>11. PendingRows'
  <2> SUFFICES ASSUME NEW l \in Conns, NEW s \in tx[l]
        PROVE  /\ l \in open
               /\ \/ pc'[s] = "insert" /\ Granted(s)'
                  \/ pc'[s] = "commit" /\ Queued(s, l)'
    BY <1>2 DEF PendingRows
  <2>1. /\ l \in open
        /\ \/ pc[s] = "insert" /\ Granted(s)
           \/ pc[s] = "commit" /\ Queued(s, l)
    BY DEF PendingRows
  <2>2. s \in Tasks
    BY <1>3 DEF TypeOK
  <2>3. CASE s # t
    BY <1>1, <2>1, <2>2, <2>3
  <2>4. CASE s = t
    <3>1. pc[t] = "insert" /\ Granted(t)
      BY <1>1, <2>1, <2>4
    <3>2. l \notin Connecting
      BY DEF Fresh, Connecting
    <3>3. conn = l
      BY <1>4, <2>1, <3>2
    <3>4. p = "commit" /\ conn' = conn
      BY <1>b, <3>1, <3>3 DEF Moves
    <3>5. k = l
      BY <3>3, <3>4 DEF Moves, Op
    <3> QED
      BY <1>1, <2>1, <2>4, <3>4, <3>5 DEF Op
  <2> QED
    BY <2>3, <2>4
<1>12. Seen'
  <2> SUFFICES ASSUME NEW g \in Gets
        PROVE  /\ before'[g] \subseteq db'
               /\ pc'[g] \in {"fetch", "done"} \/ (pc'[g] = "select" /\ Granted(g)')
                    => before'[g] \subseteq answer'[g]
    BY DEF Seen
  <2>0. /\ before[g] \subseteq db
        /\ pc[g] \in {"fetch", "done"} \/ (pc[g] = "select" /\ Granted(g))
             => before[g] \subseteq answer[g]
    BY DEF Seen
  <2>1. before'[g] = before[g]
        \/ (g = t /\ pc[t] = "new" /\ before'[g] = {s \in Saves : pc[s] = "done"})
    BY DEF Moves, TypeOK
  <2>2. {s \in Saves : pc[s] = "done"} \subseteq db
    BY DEF RowHeld
  <2>3. CASE g # t
    BY <1>1, <1>2, <1>3, <2>0, <2>1, <2>3
  <2>4. CASE g = t
    <3>1. pc'[g] = p /\ ~Granted(g)'
      BY <1>1, <2>4
    <3>2. p \in {"fetch", "done"} => pc[g] = "fetch" \/ (pc[g] = "select" /\ Granted(g))
      BY <2>4 DEF Moves
    <3> QED
      BY <1>2, <2>0, <2>1, <2>2, <2>4, <3>1, <3>2
  <2> QED
    BY <2>3, <2>4
<1> QED
  BY <1>8, <1>9, <1>10, <1>11, <1>12

LEMMA MovesKeep ==
  ASSUME SqliteInv, NEW t \in Tasks, NEW p \in Op \cup {"done", "failed"},
         NEW k, p \in Op => k \in Conns, Moves(t, p, k)
  PROVE  SqliteInv'
BY MovesStructure, MovesRaceFree DEF SqliteInv, Moves

LEMMA StartKeeps ==
  ASSUME SqliteInv, NEW t \in Users, Start(t)
  PROVE  SqliteInv'
<1>1. t \in Tasks /\ t \in Conns /\ NoConn \notin Conns /\ pc[t] = "new"
  BY StoreAssumption DEF Start, Tasks, Conns
<1>2. /\ t \in Saves => t \notin Gets /\ Statement(t) = "insert"
      /\ t \in Gets => t \notin Saves /\ Statement(t) = "select"
      /\ t \notin Closes /\ Statement(t) \in {"insert", "select"}
  BY StoreAssumption DEF Statement, Users
<1>3. UNCHANGED <<conn, ready, open, tx, db, answer>>
  BY DEF Start
<1>4. conn \in Conns \cup {NoConn} /\ raced \in BOOLEAN
  BY DEF SqliteInv, StructureInv, TypeOK
<1>5. \/ before' = before
      \/ t \in Gets /\ before' = [before EXCEPT ![t] = {s \in Saves : pc[s] = "done"}]
  BY DEF Start
<1>6. CASE conn = NoConn
  <2>1. pc' = [pc EXCEPT ![t] = "connect"] /\ raced' = (raced \/ Connecting # {})
        /\ queue' = [queue EXCEPT ![t] = Append(@, [task |-> t, op |-> "connect"])]
    BY <1>1, <1>6 DEF Start, NeedsConnection, Send
  <2>2. GoesOn(t, "connect", t)
    BY <1>1, <1>3, <2>1 DEF GoesOn, Op
  <2>3. raced' \in BOOLEAN /\ (raced => raced') /\ (raced' \/ Connecting = {})
    BY <1>4, <2>1
  <2>4. Moves(t, "connect", t)
    BY <1>1, <1>2, <1>3, <1>5, <1>6, <2>2, <2>3 DEF Moves
  <2> QED
    BY <1>1, <2>4, MovesKeep DEF Op
<1>7. CASE conn # NoConn
  <2>1. pc' = [pc EXCEPT ![t] = Statement(t)] /\ UNCHANGED raced
        /\ queue' = [queue EXCEPT ![conn] = Append(@, [task |-> t, op |-> Statement(t)])]
    BY <1>7 DEF Start, NeedsConnection, Send
  <2>2. Statement(t) \in Op /\ conn \in Conns
    BY <1>2, <1>4, <1>7 DEF Op
  <2>3. GoesOn(t, Statement(t), conn)
    BY <1>1, <1>3, <2>1, <2>2 DEF GoesOn
  <2>4. Moves(t, Statement(t), conn)
    BY <1>1, <1>2, <1>3, <1>4, <1>5, <2>1, <2>3 DEF Moves
  <2> QED
    BY <1>1, <2>2, <2>4, MovesKeep
<1> QED
  BY <1>6, <1>7

LEMMA StartCloseKeeps ==
  ASSUME SqliteInv, NEW t \in Closes, StartClose(t)
  PROVE  SqliteInv'
<1>1. t \in Tasks /\ t \notin Saves /\ t \notin Gets /\ pc[t] = "new"
  BY StoreAssumption DEF StartClose, Tasks, Users
<1>2. UNCHANGED <<conn, ready, open, tx, db, answer, before, raced>>
  BY DEF StartClose
<1>3. conn \in Conns \cup {NoConn} /\ raced \in BOOLEAN
  BY DEF SqliteInv, StructureInv, TypeOK
<1>4. PICK p \in {"done", "close"} :
        GoesOn(t, p, conn) /\ (p = "close" => conn # NoConn)
  <2>1. CASE conn = NoConn
    <3>1. GoesOn(t, "done", conn)
      BY <1>1, <1>2, <2>1 DEF GoesOn, StartClose, Op
    <3> QED
      BY <3>1
  <2>2. CASE conn # NoConn
    <3>1. GoesOn(t, "close", conn)
      BY <1>1, <1>2, <2>2 DEF GoesOn, StartClose, Op, Send
    <3> QED
      BY <2>2, <3>1
  <2> QED
    BY <2>1, <2>2
<1>5. Moves(t, p, conn)
  BY <1>1, <1>2, <1>3, <1>4 DEF Moves
<1>6. p \in Op \cup {"done", "failed"} /\ (p \in Op => conn \in Conns)
  BY <1>3, <1>4 DEF Op
<1> QED
  BY <1>1, <1>5, <1>6, MovesKeep

LEMMA HeadOfReady ==
  ASSUME StructureInv, ready # <<>>
  PROVE  /\ Head(ready).task \in Tasks /\ Head(ready).ok \in BOOLEAN
         /\ Answered(Head(ready).task) /\ pc[Head(ready).task] \in Op
         /\ Granted(Head(ready).task) <=> Head(ready).ok
<1>1. /\ Len(ready) \in Nat /\ 1 \in 1..Len(ready)
      /\ Head(ready) = ready[1] /\ ready[1] \in [task : Tasks, ok : BOOLEAN]
  BY TailFacts DEF StructureInv, TypeOK
<1>2. Head(ready).task \in Tasks /\ Head(ready).ok \in BOOLEAN
  BY ONLY <1>1
<1>3. Answered(Head(ready).task)
  BY <1>1 DEF Answered
<1>4. pc[Head(ready).task] \in Op
  BY <1>2, <1>3 DEF StructureInv, RequestOfPc
<1>5. Granted(Head(ready).task) <=> Head(ready).ok
  <2>1. \A i \in 1..Len(ready) : ready[i].task = ready[1].task => i = 1
    BY <1>1 DEF StructureInv, OneRequest
  <2> QED
    BY <1>1, <2>1 DEF Granted
<1> QED
  BY <1>2, <1>3, <1>4, <1>5

LEMMA ResumeKeeps ==
  ASSUME SqliteInv, Resume
  PROVE  SqliteInv'
<1> DEFINE t == Head(ready).task
<1>1. /\ ready # <<>> /\ ready' = Tail(ready) /\ conn' = ConnAfter(t)
      /\ UNCHANGED <<open, tx, db, answer, before, raced>>
      /\ IF NextOp(t) = "done" THEN pc' = [pc EXCEPT ![t] = "done"] /\ UNCHANGED queue
         ELSE Send(t, conn', NextOp(t))
  BY DEF Resume
<1>2. t \in Tasks /\ Granted(t) /\ pc[t] \in Op
  BY <1>1, HeadOfReady DEF SqliteInv, Resume
<1> HIDE DEF t
<1>3. conn \in Conns \cup {NoConn} /\ raced \in BOOLEAN /\ NoConn \notin Conns
  BY StoreAssumption DEF SqliteInv, StructureInv, TypeOK, Conns, Tasks
<1>4. /\ t \in Saves => t \notin Gets /\ pc[t] \notin {"select", "fetch", "close"}
                        /\ Statement(t) = "insert"
      /\ t \in Gets => t \notin Saves /\ pc[t] \notin {"insert", "commit", "close"}
                       /\ Statement(t) = "select"
      /\ t \in Closes => t \notin Users /\ pc[t] = "close"
      /\ t \in Users \/ t \in Closes
  BY <1>2, StoreAssumption
     DEF SqliteInv, StructureInv, RequestsOfKind, Statement, Users, Tasks, Op
<1>5. /\ pc[t] = "connect" => NextOp(t) = "ddl"
      /\ pc[t] = "ddl" => NextOp(t) = "commitDdl"
      /\ pc[t] = "commitDdl" => NextOp(t) = Statement(t)
      /\ pc[t] = "insert" => NextOp(t) = "commit"
      /\ pc[t] = "select" => NextOp(t) = "fetch"
      /\ pc[t] \in {"fetch", "commit", "close"} => NextOp(t) = "done"
  BY DEF NextOp
<1>6. /\ pc[t] = "connect" => conn' = t
      /\ pc[t] = "close" => conn' = NoConn
      /\ pc[t] \notin {"connect", "close"} => conn' = conn
  BY <1>1 DEF ConnAfter
<1>7. /\ NextOp(t) \in Op \cup {"done"} /\ NextOp(t) # "connect"
      /\ t \in Saves => NextOp(t) \notin {"select", "fetch", "close"}
      /\ t \in Gets => NextOp(t) \notin {"insert", "commit", "close"}
      /\ t \in Closes => NextOp(t) = "done"
      /\ NextOp(t) = "commit" => pc[t] = "insert"
      /\ NextOp(t) = "fetch" => pc[t] = "select"
      /\ NextOp(t) = "done" /\ t \in Saves => pc[t] = "commit"
      /\ NextOp(t) = "done" /\ t \in Gets => pc[t] = "fetch"
  BY <1>2, <1>4, <1>5 DEF Op, Users, Statement
<1>8. conn' \in Conns \cup {NoConn}
  BY <1>2, <1>3, <1>4, <1>6 DEF Conns
<1>9. PICK p \in {NextOp(t), "failed"} :
        /\ GoesOn(t, p, conn')
        /\ p \in Op => conn' \in Conns
        /\ pc[t] = "insert" /\ conn \in Conns => p = NextOp(t)
  <2>1. CASE NextOp(t) = "done"
    <3>1. GoesOn(t, "done", conn')
      BY <1>1, <2>1 DEF GoesOn, Op, t
    <3> QED
      BY <2>1, <3>1 DEF Op
  <2>2. CASE NextOp(t) # "done" /\ conn' = NoConn
    <3>1. GoesOn(t, "failed", conn')
      BY <1>1, <2>2 DEF GoesOn, Op, t, Send
    <3> QED
      BY <1>3, <1>6, <2>2, <3>1 DEF Op
  <2>3. CASE NextOp(t) # "done" /\ conn' # NoConn
    <3>1. GoesOn(t, NextOp(t), conn')
      BY <1>1, <1>7, <2>3 DEF GoesOn, t, Send
    <3> QED
      BY <1>8, <2>3, <3>1
  <2> QED
    BY <2>1, <2>2, <2>3
<1>10. p \in Op \cup {"done", "failed"} /\ p # "connect"
  BY <1>7, <1>9
<1>11. \/ conn' = conn /\ pc[t] \notin {"connect", "close"}
       \/ conn' = t /\ pc[t] = "connect"
       \/ conn' = NoConn /\ pc[t] = "close"
  BY <1>6
<1>12. /\ t \in Saves => p \notin {"select", "fetch", "close"}
       /\ t \in Gets => p \notin {"insert", "commit", "close"}
       /\ t \in Closes => p \in {"close", "done", "failed"}
       /\ p = "commit" => pc[t] = "insert"
       /\ pc[t] = "insert" /\ conn \in Conns => p = "commit"
       /\ p = "fetch" => pc[t] = "select"
       /\ p = "done" /\ t \in Saves => pc[t] = "commit"
       /\ p = "done" /\ t \in Gets => pc[t] = "fetch"
  BY <1>5, <1>7, <1>9
<1>13. Moves(t, p, conn')
  BY <1>1, <1>2, <1>3, <1>9, <1>10, <1>11, <1>12 DEF Moves
<1> QED
  BY <1>2, <1>9, <1>10, <1>13, MovesKeep

LEMMA ResumeFailsKeeps ==
  ASSUME SqliteInv, ResumeFails
  PROVE  SqliteInv'
<1> DEFINE t == Head(ready).task
<1>1. t \in Tasks /\ ~Granted(t)
  BY HeadOfReady DEF SqliteInv, ResumeFails
<1>2. GoesOn(t, "failed", conn)
  BY DEF ResumeFails, GoesOn, Op
<1>3. UNCHANGED <<conn, open, tx, db, answer, before, raced>>
  BY DEF ResumeFails
<1>4. raced \in BOOLEAN /\ "failed" \notin Op
  BY DEF SqliteInv, StructureInv, TypeOK, Op
<1> HIDE DEF t
<1>5. Moves(t, "failed", conn)
  BY <1>1, <1>2, <1>3, <1>4 DEF Moves
<1> QED
  BY <1>1, <1>4, <1>5, MovesKeep

-----------------------------------------------------------------------------
(* The steps of the connections' threads.                                  *)

(* The thread of k executes the request of task h.                         *)
Serves(k, h, ok) ==
  /\ queue[k] # <<>> /\ h = Head(queue[k]).task
  /\ Executed(k, ok)

LEMMA ServesEffect ==
  ASSUME StructureInv, NEW k \in Conns, NEW h, NEW ok \in BOOLEAN, Serves(k, h, ok)
  PROVE  /\ h \in Tasks /\ Head(queue[k]).op = pc[h] /\ pc[h] \in Op
         /\ Queued(h, k) /\ ~Answered(h) /\ ~Granted(h)
         /\ \A u \in Tasks, l \in Conns : Queued(u, l)' <=> Queued(u, l) /\ u # h
         /\ \A u \in Tasks : Answered(u)' <=> Answered(u) \/ u = h
         /\ \A u \in Tasks : Granted(u)' <=> Granted(u) \/ (ok /\ u = h)
         /\ pc' = pc /\ conn' = conn /\ before' = before /\ raced' = raced
         /\ Connecting' = Connecting
         /\ Conns \subseteq Tasks
         /\ h # k => pc[k] \notin {"new", "connect"}
         /\ pc[h] = "connect" <=> pc[k] \in {"new", "connect"}
<1> USE DEF StructureInv
<1>1. /\ h \in Tasks /\ Head(queue[k]).op = pc[h] /\ Queued(h, k) /\ ~Answered(h)
      /\ \A u \in Tasks, l \in Conns : Queued(u, l)' <=> Queued(u, l) /\ u # h
      /\ \A u \in Tasks : Answered(u)' <=> Answered(u) \/ u = h
      /\ \A u \in Tasks : Granted(u)' <=> Granted(u) \/ (ok /\ u = h)
  BY ExecutedEffect DEF Serves
<1>2. pc' = pc /\ conn' = conn /\ before' = before /\ raced' = raced
  BY DEF Serves, Executed
<1>3. Connecting' = Connecting
  BY <1>2 DEF Connecting
<1>4. pc[h] \in Op
  <2>1. 1 \in 1..Len(queue[k]) /\ Head(queue[k]) = queue[k][1]
    BY QueueTyped, TailFacts DEF Serves
  <2> QED
    BY <1>1, <2>1, QueueTyped
<1>5. ~Granted(h)
  BY <1>1 DEF Granted, Answered
<1>6. h # k => pc[k] \notin {"new", "connect"}
  BY <1>1 DEF Fresh
<1>7. pc[h] = "connect" => h = k
  <2>1. pc[h] = "connect" => h \in Users
    BY <1>1 DEF RequestsOfKind, Tasks
  <2> QED
    BY <1>1, <2>1 DEF Fresh
<1>8. pc[h] # "new"
  BY <1>4 DEF Op
<1> QED
  BY <1>1, <1>2, <1>3, <1>4, <1>5, <1>6, <1>7, <1>8 DEF Conns, Tasks

LEMMA ServesStructure ==
  ASSUME StructureInv, NEW k \in Conns, NEW h, NEW ok \in BOOLEAN, Serves(k, h, ok),
         open' \subseteq Conns, tx' \in [Conns -> SUBSET Saves], db' \subseteq Saves,
         answer' \in [Gets -> SUBSET Saves],
         \A l \in Conns \ {k} : (l \in open' <=> l \in open) /\ tx'[l] = tx[l],
         pc[h] = "connect" => tx'[k] = tx[k] /\ (k \in open' <=> ok)
  PROVE  StructureInv'
<1> USE DEF StructureInv
<1>1. /\ h \in Tasks /\ pc[h] \in Op /\ Queued(h, k) /\ ~Answered(h) /\ ~Granted(h)
      /\ \A u \in Tasks, l \in Conns : Queued(u, l)' <=> Queued(u, l) /\ u # h
      /\ \A u \in Tasks : Granted(u)' <=> Granted(u) \/ (ok /\ u = h)
      /\ pc' = pc /\ conn' = conn /\ before' = before /\ raced' = raced
      /\ Conns \subseteq Tasks
      /\ h # k => pc[k] \notin {"new", "connect"}
      /\ pc[h] = "connect" <=> pc[k] \in {"new", "connect"}
  BY ServesEffect
<1>2. OneRequest' /\ RequestOfPc'
      /\ queue' \in [Conns -> Seq([task : Tasks, op : Op])]
      /\ ready' \in Seq([task : Tasks, ok : BOOLEAN])
  BY ExecutedEffect DEF Serves
<1>3. TypeOK'
  BY <1>1, <1>2 DEF TypeOK
<1>4. RequestsOfKind'
  BY <1>1 DEF RequestsOfKind
<1>5. Fresh'
  <2>1. ASSUME NEW l \in Conns, pc[l] \in {"new", "connect"}
        PROVE  /\ \A u \in Tasks : Queued(u, l)' => u = l
               /\ conn # l /\ tx'[l] = {}
               /\ l \in open' <=> Granted(l)'
    <3>1. /\ \A u \in Tasks : Queued(u, l) => u = l
          /\ conn # l /\ tx[l] = {}
          /\ l \in open <=> Granted(l)
      BY <2>1 DEF Fresh
    <3>2. CASE l # k
      <4>1. l # h
        BY <1>1, <2>1, <3>2 DEF Op
      <4> QED
        BY <1>1, <3>1, <3>2, <4>1
    <3>3. CASE l = k
      BY <1>1, <2>1, <3>1, <3>3
    <3> QED
      BY <3>2, <3>3
  <2>2. ASSUME NEW u \in Users, NEW l \in Conns, pc[u] = "connect", Queued(u, l)'
        PROVE  l = u
    BY <1>1, <2>2 DEF Fresh, Tasks
  <2> QED
    BY <1>1, <2>1, <2>2 DEF Fresh
<1> QED
  BY <1>2, <1>3, <1>4, <1>5

(* While a granted close waits to go on, no request succeeds.              *)
LEMMA ServesCloseIsLast ==
  ASSUME StructureInv, CloseIsLast, NEW k \in Conns, NEW h, NEW ok \in BOOLEAN,
         Serves(k, h, ok),
         conn \in Conns \ open => ~ok /\ open' = open,
         ok /\ pc[h] = "close" => conn \in Conns \ open'
  PROVE  CloseIsLast'
<1>1. /\ Len(ready) \in Nat /\ Len(ready') = Len(ready) + 1
      /\ \A i \in 1..Len(ready) : ready'[i] = ready[i]
      /\ ready'[Len(ready) + 1].task = h
      /\ ready'[Len(ready) + 1].ok = ok
      /\ pc' = pc /\ conn' = conn
  BY ExecutedEffect, ServesEffect DEF Serves, StructureInv
<1> SUFFICES ASSUME NEW j \in 1..Len(ready'), ready'[j].ok, pc[ready'[j].task] = "close"
             PROVE  /\ conn \in Conns \ open'
                    /\ \A i \in (j+1)..Len(ready') : ~ready'[i].ok
  BY <1>1 DEF CloseIsLast
<1>2. CASE j \in 1..Len(ready)
  <2>1. conn \in Conns \ open /\ \A i \in (j+1)..Len(ready) : ~ready[i].ok
    BY <1>1, <1>2 DEF CloseIsLast
  <2> QED
    BY <1>1, <2>1
<1>3. CASE j = Len(ready) + 1
  BY <1>1, <1>3
<1> QED
  BY <1>1, <1>2, <1>3

(* What succeeds runs on _conn, or is the connect of a task.               *)
LEMMA ServedOnConn ==
  ASSUME StructureInv, RaceFree, NEW k \in Conns, NEW h, NEW ok \in BOOLEAN,
         Serves(k, h, ok), k \in open
  PROVE  conn = k /\ Connecting = {} /\ pc[h] # "connect" /\ pc[k] \notin {"new", "connect"}
<1>0. ~Granted(h) /\ (h # k => pc[k] \notin {"new", "connect"})
      /\ (pc[h] = "connect" <=> pc[k] \in {"new", "connect"})
  BY ServesEffect
<1>1. k \notin Connecting
  <2> SUFFICES ASSUME pc[k] = "connect" PROVE FALSE
    BY DEF Connecting
  <2>1. Granted(k)
    BY DEF Fresh, StructureInv
  <2> QED
    BY <1>0, <2>1
<1>2. conn = k
  BY <1>1 DEF RaceFree, OneConnects
<1>3. Connecting = {}
  BY <1>2, StoreAssumption DEF RaceFree, OneConnects, Conns, Tasks
<1>4. pc[k] \notin {"new", "connect"}
  BY <1>2 DEF Fresh, StructureInv
<1> QED
  BY <1>0, <1>2, <1>3, <1>4

(* A request that fails changes nothing but who awaits.                    *)
LEMMA FailureKeeps ==
  ASSUME SqliteInv, NEW k \in Conns, OpenFails(k) \/ DatabaseIsLocked(k) \/ ConnectionClosed(k)
  PROVE  SqliteInv'
<1> USE DEF SqliteInv
<1> DEFINE h == Head(queue[k]).task
<1>1. Serves(k, h, FALSE) /\ UNCHANGED <<open, tx, db, answer>>
  BY DEF OpenFails, DatabaseIsLocked, ConnectionClosed, Requested, Serves
<1> HIDE DEF h
<1>2. Head(queue[k]).op = "connect" => k \notin open
  <2>1. StructureInv /\ Head(queue[k]).op = pc[h]
    BY <1>1, ServesEffect
  <2>2. /\ ~Granted(h) /\ (h # k => pc[k] \notin {"new", "connect"})
        /\ pc[h] = "connect" <=> pc[k] \in {"new", "connect"}
    BY <1>1, ServesEffect
  <2>3. pc[h] = "connect" => h = k
    BY <2>2
  <2> QED
    BY <2>1, <2>2, <2>3 DEF Fresh, StructureInv
<1>3. /\ h \in Tasks /\ Head(queue[k]).op = pc[h] /\ Queued(h, k) /\ ~Granted(h)
      /\ \A u \in Tasks, l \in Conns : Queued(u, l)' <=> Queued(u, l) /\ u # h
      /\ \A u \in Tasks : Granted(u)' <=> Granted(u)
      /\ pc' = pc /\ conn' = conn /\ before' = before /\ raced' = raced
      /\ Connecting' = Connecting /\ Conns \subseteq Tasks
  BY <1>1, ServesEffect
<1>4. StructureInv'
  BY <1>1, <1>2, <1>3, ServesStructure DEF StructureInv, TypeOK
<1> SUFFICES ASSUME ~raced PROVE RaceFree'
  BY <1>3, <1>4
<1>5. OneConnects'
  BY <1>1, <1>3 DEF RaceFree, OneConnects
<1>6. CloseIsLast'
  BY <1>1, ServesCloseIsLast DEF RaceFree
<1>a. Saves \subseteq Tasks /\ Gets \subseteq Tasks
  BY DEF Tasks, Users
<1>7. RowHeld'
  BY <1>1, <1>3, <1>a DEF RaceFree, RowHeld
<1>8. PendingRows'
  <2> SUFFICES ASSUME NEW l \in Conns, NEW s \in tx[l]
        PROVE  /\ l \in open
               /\ \/ pc[s] = "insert" /\ Granted(s)'
                  \/ pc[s] = "commit" /\ Queued(s, l)'
    BY <1>1, <1>3 DEF PendingRows
  <2>1. s \in Tasks
    BY <1>a DEF StructureInv, TypeOK
  <2>2. l \in open /\ (\/ pc[s] = "insert" /\ Granted(s)
                       \/ pc[s] = "commit" /\ Queued(s, l))
    BY DEF RaceFree, PendingRows
  <2>3. ~(s = h /\ pc[s] = "commit")
    <3> SUFFICES ASSUME s = h, pc[h] = "commit" PROVE FALSE
      OBVIOUS
    <3>1. l = k
      BY <1>3, <2>1, <2>2 DEF StructureInv, OneRequest
    <3>2. ConnectionClosed(k)
      BY <1>3 DEF OpenFails, DatabaseIsLocked, Requested
    <3> QED
      BY <2>2, <3>1, <3>2 DEF ConnectionClosed
  <2> QED
    BY <1>3, <2>1, <2>2, <2>3
<1>9. Seen'
  BY <1>1, <1>3, <1>a DEF RaceFree, Seen
<1> QED
  BY <1>5, <1>6, <1>7, <1>8, <1>9 DEF RaceFree

LEMMA OpensKeeps ==
  ASSUME SqliteInv, NEW k \in Conns, Opens(k)
  PROVE  SqliteInv'
<1> USE DEF SqliteInv
<1> DEFINE h == Head(queue[k]).task
<1>1. Serves(k, h, TRUE) /\ UNCHANGED <<tx, db, answer>> /\ open' = open \cup {k}
  BY DEF Opens, Requested, Serves
<1>2. Head(queue[k]).op = "connect"
  BY DEF Opens, Requested
<1> HIDE DEF h
<1>3. /\ h \in Tasks /\ pc[h] = "connect" /\ Queued(h, k) /\ ~Granted(h)
      /\ \A u \in Tasks, l \in Conns : Queued(u, l)' <=> Queued(u, l) /\ u # h
      /\ \A u \in Tasks : Granted(u)' <=> Granted(u) \/ u = h
      /\ pc' = pc /\ conn' = conn /\ before' = before /\ raced' = raced
      /\ Connecting' = Connecting /\ Conns \subseteq Tasks
      /\ pc[k] \in {"new", "connect"} /\ h = k
  BY <1>1, <1>2, ServesEffect
<1>4. StructureInv'
  <2>1. /\ open' \subseteq Conns /\ tx' \in [Conns -> SUBSET Saves] /\ db' \subseteq Saves
        /\ answer' \in [Gets -> SUBSET Saves] /\ tx'[k] = tx[k] /\ k \in open'
        /\ \A l \in Conns \ {k} : (l \in open' <=> l \in open) /\ tx'[l] = tx[l]
    BY <1>1 DEF StructureInv, TypeOK
  <2> QED
    BY <1>1, <2>1, ServesStructure
<1> SUFFICES ASSUME ~raced PROVE RaceFree'
  BY <1>3, <1>4
<1>a. Saves \subseteq Tasks /\ Gets \subseteq Tasks
  BY DEF Tasks, Users
<1>b. h \in Connecting /\ conn = NoConn /\ NoConn \notin Conns
  BY <1>3, StoreAssumption DEF Connecting, RaceFree, OneConnects, Conns, Tasks
<1>5. OneConnects'
  BY <1>1, <1>3, <1>b DEF RaceFree, OneConnects
<1>6. CloseIsLast'
  BY <1>1, <1>3, <1>b, ServesCloseIsLast DEF RaceFree
<1>7. RowHeld'
  <2>1. ASSUME NEW s \in Saves, pc[s] = "commit", Queued(s, k) PROVE FALSE
    <3>1. s = k
      BY <1>3, <1>a, <2>1 DEF StructureInv, Fresh
    <3> QED
      BY <1>3, <2>1, <3>1
  <2>2. \A s \in Saves : pc[s] = "commit" \/ pc[s] = "insert" => s # h
    BY <1>3
  <2> QED
    BY <1>1, <1>3, <1>a, <1>b, <2>1, <2>2 DEF RaceFree, RowHeld
<1>8. PendingRows'
  <2> SUFFICES ASSUME NEW l \in Conns, NEW s \in tx[l]
        PROVE  /\ l \in open
               /\ \/ pc[s] = "insert" /\ Granted(s)'
                  \/ pc[s] = "commit" /\ Queued(s, l)'
    BY <1>1, <1>3 DEF PendingRows
  <2>1. s \in Tasks
    BY <1>a DEF StructureInv, TypeOK
  <2> QED
    BY <1>3, <2>1 DEF RaceFree, PendingRows
<1>9. Seen'
  BY <1>1, <1>3, <1>a DEF RaceFree, Seen
<1> QED
  BY <1>5, <1>6, <1>7, <1>8, <1>9 DEF RaceFree

(* executescript or commit: what was pending on k is in the file.          *)
LEMMA CommitsKeeps ==
  ASSUME SqliteInv, NEW k \in Conns, Commits(k)
  PROVE  SqliteInv'
<1> USE DEF SqliteInv
<1> DEFINE h == Head(queue[k]).task
<1>1. Serves(k, h, TRUE) /\ UNCHANGED <<open, answer>> /\ k \in open
      /\ db' = db \cup tx[k] /\ tx' = [tx EXCEPT ![k] = {}]
  BY DEF Commits, Requested, Serves
<1>2. Head(queue[k]).op \in {"ddl", "commitDdl", "commit"}
  BY DEF Commits, Requested
<1> HIDE DEF h
<1>3. /\ h \in Tasks /\ pc[h] \in {"ddl", "commitDdl", "commit"} /\ Queued(h, k) /\ ~Granted(h)
      /\ \A u \in Tasks, l \in Conns : Queued(u, l)' <=> Queued(u, l) /\ u # h
      /\ \A u \in Tasks : Granted(u)' <=> Granted(u) \/ u = h
      /\ pc' = pc /\ conn' = conn /\ before' = before /\ raced' = raced
      /\ Connecting' = Connecting /\ Conns \subseteq Tasks
  BY <1>1, <1>2, ServesEffect
<1>a. Saves \subseteq Tasks /\ Gets \subseteq Tasks
  BY DEF Tasks, Users
<1>b. tx \in [Conns -> SUBSET Saves] /\ db \subseteq Saves /\ open \subseteq Conns
      /\ answer \in [Gets -> SUBSET Saves]
  BY DEF StructureInv, TypeOK
<1>c. tx'[k] = {} /\ \A l \in Conns \ {k} : tx'[l] = tx[l]
  BY <1>1, <1>b
<1>4. StructureInv'
  <2>1. tx' \in [Conns -> SUBSET Saves] /\ db' \subseteq Saves
    BY <1>1, <1>b
  <2> QED
    BY <1>1, <1>3, <1>b, <1>c, <2>1, ServesStructure
<1> SUFFICES ASSUME ~raced PROVE RaceFree'
  BY <1>3, <1>4
<1>d. conn = k
  BY <1>1, ServedOnConn
<1>5. OneConnects'
  BY <1>1, <1>3 DEF RaceFree, OneConnects
<1>6. CloseIsLast'
  BY <1>1, <1>3, <1>d, ServesCloseIsLast DEF RaceFree
<1>7. RowHeld'
  <2> SUFFICES ASSUME NEW s \in Saves
        PROVE  /\ pc[s] = "done" => s \in db'
               /\ pc[s] = "commit" /\ Granted(s)' => s \in db'
               /\ \A l \in Conns : pc[s] = "commit" /\ Queued(s, l)'
                    => s \in db' \/ s \in tx'[l] \/ l \notin open'
               /\ pc[s] = "insert" /\ Granted(s)'
                    => s \in db' \/ (conn \in Conns /\ (s \in tx'[conn] \/ conn \notin open'))
    BY <1>3 DEF RowHeld
  <2>0. /\ pc[s] = "done" => s \in db
        /\ pc[s] = "commit" /\ Granted(s) => s \in db
        /\ \A l \in Conns : pc[s] = "commit" /\ Queued(s, l)
             => s \in db \/ s \in tx[l] \/ l \notin open
        /\ pc[s] = "insert" /\ Granted(s)
             => s \in db \/ (conn \in Conns /\ (s \in tx[conn] \/ conn \notin open))
    BY DEF RaceFree, RowHeld
  <2>1. pc[s] = "commit" /\ Granted(s)' => s \in db'
    BY <1>1, <1>3, <1>a, <2>0
  <2>2. pc[s] = "insert" /\ Granted(s)' => s \in db'
    BY <1>1, <1>3, <1>a, <1>d, <2>0
  <2>3. ASSUME NEW l \in Conns, pc[s] = "commit", Queued(s, l)'
        PROVE  s \in db' \/ s \in tx'[l] \/ l \notin open'
    BY <1>1, <1>3, <1>a, <1>c, <2>0, <2>3
  <2> QED
    BY <1>1, <2>0, <2>1, <2>2, <2>3
<1>8. PendingRows'
  <2> SUFFICES ASSUME NEW l \in Conns, NEW s \in tx'[l]
        PROVE  /\ l \in open'
               /\ \/ pc[s] = "insert" /\ Granted(s)'
                  \/ pc[s] = "commit" /\ Queued(s, l)'
    BY <1>3 DEF PendingRows
  <2>1. l # k /\ s \in tx[l] /\ s \in Tasks
    BY <1>a, <1>b, <1>c
  <2>2. l \in open /\ (\/ pc[s] = "insert" /\ Granted(s)
                       \/ pc[s] = "commit" /\ Queued(s, l))
    BY <2>1 DEF RaceFree, PendingRows
  <2>3. l \in Connecting
    BY <1>d, <2>1, <2>2 DEF RaceFree, OneConnects
  <2> QED
    BY <1>1, <2>3, ServedOnConn
<1>9. Seen'
  <2>1. \A g \in Gets : pc[g] = "select" => g # h
    BY <1>3
  <2> QED
    BY <1>1, <1>3, <1>a, <2>1 DEF RaceFree, Seen
<1> QED
  BY <1>5, <1>6, <1>7, <1>8, <1>9 DEF RaceFree

LEMMA InsertsKeeps ==
  ASSUME SqliteInv, NEW k \in Conns, Inserts(k)
  PROVE  SqliteInv'
<1> USE DEF SqliteInv
<1> DEFINE h == Head(queue[k]).task
<1>1. Serves(k, h, TRUE) /\ UNCHANGED <<open, db, answer>> /\ k \in open
      /\ tx' = [tx EXCEPT ![k] = tx[k] \cup {h}]
  BY DEF Inserts, Requested, Serves
<1>2. Head(queue[k]).op = "insert"
  BY DEF Inserts, Requested
<1> HIDE DEF h
<1>3. /\ h \in Tasks /\ pc[h] = "insert" /\ Queued(h, k) /\ ~Granted(h)
      /\ \A u \in Tasks, l \in Conns : Queued(u, l)' <=> Queued(u, l) /\ u # h
      /\ \A u \in Tasks : Granted(u)' <=> Granted(u) \/ u = h
      /\ pc' = pc /\ conn' = conn /\ before' = before /\ raced' = raced
      /\ Connecting' = Connecting /\ Conns \subseteq Tasks
  BY <1>1, <1>2, ServesEffect
<1>a. Saves \subseteq Tasks /\ Gets \subseteq Tasks
  BY DEF Tasks, Users
<1>b. tx \in [Conns -> SUBSET Saves] /\ db \subseteq Saves /\ open \subseteq Conns
      /\ answer \in [Gets -> SUBSET Saves]
  BY DEF StructureInv, TypeOK
<1>c. tx'[k] = tx[k] \cup {h} /\ \A l \in Conns \ {k} : tx'[l] = tx[l]
  BY <1>1, <1>b
<1>d. h \in Saves
  BY <1>3 DEF StructureInv, RequestsOfKind, Tasks, Users
<1>4. StructureInv'
  <2>1. tx' \in [Conns -> SUBSET Saves]
    BY <1>1, <1>b, <1>d
  <2> QED
    BY <1>1, <1>3, <1>b, <1>c, <2>1, ServesStructure
<1> SUFFICES ASSUME ~raced PROVE RaceFree'
  BY <1>3, <1>4
<1>e. conn = k
  BY <1>1, ServedOnConn
<1>5. OneConnects'
  BY <1>1, <1>3 DEF RaceFree, OneConnects
<1>6. CloseIsLast'
  BY <1>1, <1>3, <1>e, ServesCloseIsLast DEF RaceFree
<1>7. RowHeld'
  <2> SUFFICES ASSUME NEW s \in Saves
        PROVE  /\ pc[s] = "done" => s \in db
               /\ pc[s] = "commit" /\ Granted(s)' => s \in db
               /\ \A l \in Conns : pc[s] = "commit" /\ Queued(s, l)'
                    => s \in db \/ s \in tx'[l] \/ l \notin open
               /\ pc[s] = "insert" /\ Granted(s)'
                    => s \in db \/ (conn \in Conns /\ (s \in tx'[conn] \/ conn \notin open))
    BY <1>1, <1>3 DEF RowHeld
  <2>0. /\ pc[s] = "done" => s \in db
        /\ pc[s] = "commit" /\ Granted(s) => s \in db
        /\ \A l \in Conns : pc[s] = "commit" /\ Queued(s, l)
             => s \in db \/ s \in tx[l] \/ l \notin open
        /\ pc[s] = "insert" /\ Granted(s)
             => s \in db \/ (conn \in Conns /\ (s \in tx[conn] \/ conn \notin open))
    BY DEF RaceFree, RowHeld
  <2>1. \A l \in Conns : tx[l] \subseteq tx'[l]
    BY <1>c
  <2>2. CASE s = h
    BY <1>3, <1>c, <1>e, <2>2
  <2>3. CASE s # h
    BY <1>3, <1>a, <2>0, <2>1, <2>3
  <2> QED
    BY <2>2, <2>3
<1>8. PendingRows'
  <2> SUFFICES ASSUME NEW l \in Conns, NEW s \in tx'[l]
        PROVE  /\ l \in open
               /\ \/ pc[s] = "insert" /\ Granted(s)'
                  \/ pc[s] = "commit" /\ Queued(s, l)'
    BY <1>1, <1>3 DEF PendingRows
  <2>1. CASE s = h
    <3>1. l = k
      <4> SUFFICES ASSUME l # k PROVE FALSE
        OBVIOUS
      <4>1. s \in tx[l]
        BY <1>c
      <4> QED
        BY <1>3, <2>1, <4>1 DEF RaceFree, PendingRows
    <3> QED
      BY <1>1, <1>3, <2>1, <3>1
  <2>2. CASE s # h
    <3>1. s \in tx[l]
      BY <1>c, <2>2
    <3>2. s \in Tasks
      BY <1>a, <1>b, <3>1
    <3> QED
      BY <1>3, <2>2, <3>1, <3>2 DEF RaceFree, PendingRows
  <2> QED
    BY <2>1, <2>2
<1>9. Seen'
  <2>1. \A g \in Gets : pc[g] = "select" => g # h
    BY <1>3
  <2> QED
    BY <1>1, <1>3, <1>a, <2>1 DEF RaceFree, Seen
<1> QED
  BY <1>5, <1>6, <1>7, <1>8, <1>9 DEF RaceFree

(* A SELECT reads everything that is committed.                            *)
LEMMA SelectsKeeps ==
  ASSUME SqliteInv, NEW k \in Conns, Selects(k)
  PROVE  SqliteInv'
<1> USE DEF SqliteInv
<1> DEFINE h == Head(queue[k]).task
<1>1. Serves(k, h, TRUE) /\ UNCHANGED <<open, tx, db>> /\ k \in open
      /\ answer' = IF Head(queue[k]).op = "select"
                   THEN [answer EXCEPT ![h] = db \cup tx[k]] ELSE answer
  BY DEF Selects, Requested, Serves
<1>2. Head(queue[k]).op \in {"select", "fetch"}
  BY DEF Selects, Requested
<1> HIDE DEF h
<1>3. /\ h \in Tasks /\ pc[h] \in {"select", "fetch"} /\ Queued(h, k) /\ ~Granted(h)
      /\ \A u \in Tasks, l \in Conns : Queued(u, l)' <=> Queued(u, l) /\ u # h
      /\ \A u \in Tasks : Granted(u)' <=> Granted(u) \/ u = h
      /\ pc' = pc /\ conn' = conn /\ before' = before /\ raced' = raced
      /\ Connecting' = Connecting /\ Conns \subseteq Tasks
      /\ Head(queue[k]).op = pc[h]
  BY <1>1, <1>2, ServesEffect
<1>a. Saves \subseteq Tasks /\ Gets \subseteq Tasks
  BY DEF Tasks, Users
<1>b. tx \in [Conns -> SUBSET Saves] /\ db \subseteq Saves /\ open \subseteq Conns
      /\ answer \in [Gets -> SUBSET Saves]
  BY DEF StructureInv, TypeOK
<1>c. answer' \in [Gets -> SUBSET Saves]
      /\ \A g \in Gets : answer'[g] = IF pc[g] = "select" /\ g = h THEN db \cup tx[k] ELSE answer[g]
  BY <1>1, <1>3, <1>b
<1>4. StructureInv'
  BY <1>1, <1>3, <1>b, <1>c, ServesStructure
<1> SUFFICES ASSUME ~raced PROVE RaceFree'
  BY <1>3, <1>4
<1>e. conn = k
  BY <1>1, ServedOnConn
<1>5. OneConnects'
  BY <1>1, <1>3 DEF RaceFree, OneConnects
<1>6. CloseIsLast'
  BY <1>1, <1>3, <1>e, ServesCloseIsLast DEF RaceFree
<1>7. RowHeld'
  <2>1. \A s \in Saves : pc[s] \in {"commit", "insert"} => s # h
    BY <1>3
  <2> QED
    BY <1>1, <1>3, <1>a, <2>1 DEF RaceFree, RowHeld
<1>8. PendingRows'
  <2>1. \A l \in Conns : \A s \in tx[l] : s \in Tasks /\ (pc[s] = "commit" => s # h)
    BY <1>3, <1>a, <1>b
  <2> QED
    BY <1>1, <1>3, <2>1 DEF RaceFree, PendingRows
<1>9. Seen'
  <2> SUFFICES ASSUME NEW g \in Gets
        PROVE  /\ before[g] \subseteq db
               /\ pc[g] \in {"fetch", "done"} \/ (pc[g] = "select" /\ Granted(g)')
                    => before[g] \subseteq answer'[g]
    BY <1>1, <1>3 DEF Seen
  <2>1. /\ before[g] \subseteq db
        /\ pc[g] \in {"fetch", "done"} \/ (pc[g] = "select" /\ Granted(g))
             => before[g] \subseteq answer[g]
    BY DEF RaceFree, Seen
  <2>2. CASE pc[g] = "select" /\ g = h
    BY <1>c, <2>1, <2>2
  <2>3. CASE ~(pc[g] = "select" /\ g = h)
    BY <1>3, <1>a, <1>c, <2>1, <2>3
  <2> QED
    BY <2>2, <2>3
<1> QED
  BY <1>5, <1>6, <1>7, <1>8, <1>9 DEF RaceFree

(* What is rolled back is the row of no save that will commit elsewhere.   *)
LEMMA CloseKeeps ==
  ASSUME SqliteInv, NEW k \in Conns, CloseConnection(k)
  PROVE  SqliteInv'
<1> USE DEF SqliteInv
<1> DEFINE h == Head(queue[k]).task
<1>1. Serves(k, h, TRUE) /\ UNCHANGED <<db, answer>> /\ k \in open
      /\ open' = open \ {k} /\ tx' = [tx EXCEPT ![k] = {}]
  BY DEF CloseConnection, Requested, Serves
<1>2. Head(queue[k]).op = "close"
  BY DEF CloseConnection, Requested
<1> HIDE DEF h
<1>3. /\ h \in Tasks /\ pc[h] = "close" /\ Queued(h, k) /\ ~Granted(h)
      /\ \A u \in Tasks, l \in Conns : Queued(u, l)' <=> Queued(u, l) /\ u # h
      /\ \A u \in Tasks : Granted(u)' <=> Granted(u) \/ u = h
      /\ pc' = pc /\ conn' = conn /\ before' = before /\ raced' = raced
      /\ Connecting' = Connecting /\ Conns \subseteq Tasks
  BY <1>1, <1>2, ServesEffect
<1>a. Saves \subseteq Tasks /\ Gets \subseteq Tasks
  BY DEF Tasks, Users
<1>b. tx \in [Conns -> SUBSET Saves] /\ db \subseteq Saves /\ open \subseteq Conns
      /\ answer \in [Gets -> SUBSET Saves]
  BY DEF StructureInv, TypeOK
<1>c. tx'[k] = {} /\ \A l \in Conns \ {k} : tx'[l] = tx[l]
  BY <1>1, <1>b
<1>4. StructureInv'
  <2>1. tx' \in [Conns -> SUBSET Saves] /\ open' \subseteq Conns
    BY <1>1, <1>b
  <2> QED
    BY <1>1, <1>3, <1>b, <1>c, <2>1, ServesStructure
<1> SUFFICES ASSUME ~raced PROVE RaceFree'
  BY <1>3, <1>4
<1>e. conn = k
  BY <1>1, ServedOnConn
<1>5. OneConnects'
  <2>1. \E c \in Tasks : pc'[c] = "close" /\ Granted(c)'
    BY <1>3
  <2> QED
    BY <1>1, <1>3, <2>1 DEF RaceFree, OneConnects
<1>6. CloseIsLast'
  BY <1>1, <1>3, <1>e, ServesCloseIsLast DEF RaceFree
<1>7. RowHeld'
  <2> SUFFICES ASSUME NEW s \in Saves
        PROVE  /\ pc[s] = "done" => s \in db
               /\ pc[s] = "commit" /\ Granted(s)' => s \in db
               /\ \A l \in Conns : pc[s] = "commit" /\ Queued(s, l)'
                    => s \in db \/ s \in tx'[l] \/ l \notin open'
               /\ pc[s] = "insert" /\ Granted(s)'
                    => s \in db \/ (conn \in Conns /\ (s \in tx'[conn] \/ conn \notin open'))
    BY <1>1, <1>3 DEF RowHeld
  <2>0. /\ pc[s] = "done" => s \in db
        /\ pc[s] = "commit" /\ Granted(s) => s \in db
        /\ \A l \in Conns : pc[s] = "commit" /\ Queued(s, l)
             => s \in db \/ s \in tx[l] \/ l \notin open
    BY DEF RaceFree, RowHeld
  <2>1. s # h /\ k \notin open'
    BY <1>1, <1>3 DEF StructureInv, RequestsOfKind
  <2> QED
    BY <1>1, <1>3, <1>a, <1>c, <1>e, <2>0, <2>1
<1>8. PendingRows'
  <2> SUFFICES ASSUME NEW l \in Conns, NEW s \in tx'[l]
        PROVE  /\ l \in open'
               /\ \/ pc[s] = "insert" /\ Granted(s)'
                  \/ pc[s] = "commit" /\ Queued(s, l)'
    BY <1>3 DEF PendingRows
  <2>1. l # k /\ s \in tx[l] /\ s \in Tasks
    BY <1>a, <1>b, <1>c
  <2>2. l \in open
    BY <2>1 DEF RaceFree, PendingRows
  <2>3. l \in Connecting
    BY <1>e, <2>1, <2>2 DEF RaceFree, OneConnects
  <2> QED
    BY <1>1, <2>3, ServedOnConn
<1>9. Seen'
  <2>1. \A g \in Gets : pc[g] = "select" => g # h
    BY <1>3
  <2> QED
    BY <1>1, <1>3, <1>a, <2>1 DEF RaceFree, Seen
<1> QED
  BY <1>5, <1>6, <1>7, <1>8, <1>9 DEF RaceFree

-----------------------------------------------------------------------------
LEMMA SqliteInit == Init => SqliteInv
<1> SUFFICES ASSUME Init PROVE SqliteInv
  OBVIOUS
<1> USE DEF Init
<1>1. TypeOK
  <2>1. <<>> \in Seq([task : Tasks, op : Op]) /\ <<>> \in Seq([task : Tasks, ok : BOOLEAN])
    OBVIOUS
  <2>2. queue \in [Conns -> Seq([task : Tasks, op : Op])]
    BY <2>1, Zenon
  <2> QED
    BY <2>1, <2>2 DEF TypeOK
<1>2. /\ \A k \in Conns, t \in Tasks : ~Queued(t, k)
      /\ \A t \in Tasks : ~Answered(t) /\ ~Granted(t)
  BY DEF Queued, Answered, Granted
<1>3. OneRequest /\ RequestOfPc
  BY <1>2 DEF OneRequest, RequestOfPc
<1>4. RequestsOfKind
  BY DEF RequestsOfKind, Tasks, Users
<1>5. Fresh
  BY <1>2, StoreAssumption DEF Fresh, Conns, Tasks
<1>6. OneConnects
  BY StoreAssumption DEF OneConnects, Connecting, Conns, Tasks
<1>7. CloseIsLast
  BY DEF CloseIsLast
<1>8. RowHeld /\ PendingRows /\ Seen
  BY DEF RowHeld, PendingRows, Seen, Tasks, Users
<1> QED
  BY <1>1, <1>3, <1>4, <1>5, <1>6, <1>7, <1>8 DEF SqliteInv, StructureInv, RaceFree

LEMMA SqliteStutter == SqliteInv /\ UNCHANGED vars => SqliteInv'
<1> SUFFICES ASSUME SqliteInv, UNCHANGED vars PROVE SqliteInv'
  OBVIOUS
<1> USE DEF SqliteInv, StructureInv, RaceFree
<1>1. UNCHANGED <<conn, pc, queue, ready, open, tx, db, answer, before, raced>>
  BY DEF vars
<1>2. TypeOK'
  BY <1>1 DEF TypeOK
<1>3. OneRequest' /\ RequestOfPc' /\ RequestsOfKind'
  BY <1>1 DEF OneRequest, RequestOfPc, RequestsOfKind, Queued, Answered
<1>4. Fresh'
  BY <1>1 DEF Fresh, Queued, Granted
<1>5. RaceFree => OneConnects' /\ CloseIsLast'
  BY <1>1 DEF OneConnects, CloseIsLast, Connecting, Granted
<1>6. RaceFree => RowHeld' /\ PendingRows' /\ Seen'
  BY <1>1 DEF RowHeld, PendingRows, Seen, Queued, Granted
<1> QED
  BY <1>1, <1>2, <1>3, <1>4, <1>5, <1>6

LEMMA SqliteInvariant == Spec => []SqliteInv
<1>1. ASSUME SqliteInv, [Next]_vars
      PROVE  SqliteInv'
  <2>1. ASSUME NEW t \in Users, Start(t) PROVE SqliteInv'
    BY <1>1, <2>1, StartKeeps
  <2>2. ASSUME NEW t \in Closes, StartClose(t) PROVE SqliteInv'
    BY <1>1, <2>2, StartCloseKeeps
  <2>3. CASE Resume
    BY <1>1, <2>3, ResumeKeeps
  <2>4. CASE ResumeFails
    BY <1>1, <2>4, ResumeFailsKeeps
  <2>5. ASSUME NEW k \in Conns, ThreadStep(k) PROVE SqliteInv'
    BY <1>1, <2>5, FailureKeeps, OpensKeeps, CommitsKeeps, InsertsKeeps, SelectsKeeps,
       CloseKeeps DEF ThreadStep
  <2>6. CASE UNCHANGED vars
    BY <1>1, <2>6, SqliteStutter
  <2> QED
    BY <1>1, <2>1, <2>2, <2>3, <2>4, <2>5, <2>6 DEF Next
<1> QED
  BY <1>1, SqliteInit, PTL DEF Spec

(* Requests, answers and connections of SQLiteViolationStore keep their    *)
(* shape.                                                                  *)
THEOREM SqliteTypes == Spec => []TypeOK
<1>1. SqliteInv => TypeOK
  BY DEF SqliteInv, StructureInv
<1> QED
  BY <1>1, SqliteInvariant, PTL

(* Unless two tasks connect at once, the row of a save that returned is in *)
(* the file, whatever saves, gets and closes run between its INSERT and    *)
(* its commit (sqlite.py:48-69).                                           *)
THEOREM SavedRowsAreDurable == Spec => []DoneIsDurable
<1>1. SqliteInv => DoneIsDurable
  BY DEF SqliteInv, RaceFree, RowHeld, DoneIsDurable, SurvivesRestarts
<1> QED
  BY <1>1, SqliteInvariant, PTL

(* Unless two tasks connect at once, get_violations returns the row of     *)
(* every save that had returned before it was called (sqlite.py:71-83).    *)
THEOREM GetsSeeSaved == Spec => []ReadsSeeDone
<1>1. SqliteInv => ReadsSeeDone
  BY DEF SqliteInv, RaceFree, Seen, ReadsSeeDone
<1> QED
  BY <1>1, SqliteInvariant, PTL

(* Unless two tasks connect at once, no connection but _conn is open when  *)
(* the store is idle, and no row is pending: close() leaks nothing and     *)
(* leaves no lock on the file (sqlite.py:40-46, 85-89).                    *)
THEOREM IdleStoreIsClean == Spec => []NothingLeftBehind
<1>1. ASSUME SqliteInv, ~raced, \A t \in Tasks : pc[t] \in {"new", "done", "failed"}
      PROVE  open = {conn} \ {NoConn} /\ \A k \in Conns : tx[k] = {}
  <2> USE <1>1 DEF SqliteInv, StructureInv, RaceFree
  <2>1. Connecting = {} /\ Saves \subseteq Tasks
    BY DEF Connecting, Tasks, Users
  <2>2. \A k \in Conns : tx[k] = {}
    BY <2>1 DEF PendingRows, TypeOK
  <2>3. conn \in Conns => conn \in open
    BY DEF OneConnects
  <2>4. open \subseteq {conn} /\ open \subseteq Conns /\ conn \in Conns \cup {NoConn}
        /\ NoConn \notin Conns
    BY <2>1, StoreAssumption DEF OneConnects, TypeOK, Conns, Tasks
  <2> QED
    BY <2>2, <2>3, <2>4
<1>2. SqliteInv => NothingLeftBehind
  BY <1>1 DEF NothingLeftBehind
<1> QED
  BY <1>2, SqliteInvariant, PTL
=============================================================================
