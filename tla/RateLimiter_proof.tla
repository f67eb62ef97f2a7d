-------------------------- MODULE RateLimiter_proof --------------------------
(***************************************************************************)
(* Proofs about RateLimiter, for every set of users and threads, every     *)
(* window length and every limit.                                          *)
(***************************************************************************)
EXTENDS RateLimiter, TLAPS, FiniteSetTheorems, WellFoundedInduction

-----------------------------------------------------------------------------
(* A non-empty set of naturals has a least element.                        *)
LEMMA LeastNatural ==
  ASSUME NEW S \in SUBSET Nat, S # {}
  PROVE  \E m \in S : \A n \in S : m <= n
<1> DEFINE Less == {ss \in Nat \X Nat : ss[1] < ss[2]}
<1>1. IsWellFoundedOn(Less, Nat)
  BY NatLessThanWellFounded, Zenon DEF OpToRel
<1>2. \E x \in S : \A y \in S : ~(<<y, x>> \in Less)
  <2> HIDE DEF Less
  <2> QED BY <1>1, WFMin, Zenon
<1>3. PICK x \in S : \A y \in S : ~(<<y, x>> \in Less)
  BY <1>2
<1>4. \A y \in S : ~(y < x)
  BY <1>3
<1> QED
  BY <1>3, <1>4

LEMMA EntryType ==
  ASSUME NEW q \in Seq(Grant), NEW j \in 1..Len(q)
  PROVE  q[j] \in Grant /\ q[j].at \in Nat
<1>1. q[j] \in Grant
  OBVIOUS
<1>2. \A g \in Grant : g.at \in Nat
  BY DEF Grant
<1> QED
  BY <1>1, <1>2

(* The eviction loop stops at the first live entry, or drops everything.   *)
LEMMA FirstLiveSpec ==
  ASSUME NEW q \in Seq(Grant), NEW now \in Nat, NEW w \in Nat
  PROVE  /\ FirstLive(q, now, w) \in 1..Len(q) + 1
         /\ \A j \in 1..FirstLive(q, now, w) - 1 : now - q[j].at > w
         /\ FirstLive(q, now, w) <= Len(q) => now - q[FirstLive(q, now, w)].at <= w
<1> DEFINE Stops(k) == k <= Len(q) => now - q[k].at <= w
           S == {k \in 1..Len(q) + 1 : Stops(k)}
<1>1. S \in SUBSET Nat /\ Len(q) + 1 \in S
  OBVIOUS
<1>2. PICK k \in S : \A n \in S : k <= n
  BY <1>1, LeastNatural
<1>3. \A j \in 1..k - 1 : now - q[j].at > w
  <2> SUFFICES ASSUME NEW j \in 1..k - 1 PROVE now - q[j].at > w
    OBVIOUS
  <2>1. j \in 1..Len(q) /\ j \notin S
    BY <1>2
  <2>2. ~(now - q[j].at <= w)
    BY <2>1
  <2>3. q[j].at \in Nat
    BY <2>1, EntryType
  <2> QED
    BY <2>2, <2>3
<1>4. \E m \in 1..Len(q) + 1 :
        /\ \A j \in 1..m - 1 : now - q[j].at > w
        /\ m <= Len(q) => now - q[m].at <= w
  BY <1>2, <1>3
<1> QED
  BY <1>4 DEF FirstLive

(* What an eviction keeps: a suffix of the deque, with every live entry.   *)
LEMMA EvictSpec ==
  ASSUME NEW q \in Seq(Grant), NEW now \in Nat, NEW w \in Nat
  PROVE  /\ Evict(q, now, w) \in Seq(Grant)
         /\ \A j \in 1..Len(q) : now - q[j].at <= w =>
              \E i \in 1..Len(Evict(q, now, w)) : Evict(q, now, w)[i] = q[j]
<1> DEFINE k == FirstLive(q, now, w)
<1>1. k \in 1..Len(q) + 1 /\ \A j \in 1..k - 1 : now - q[j].at > w
  BY FirstLiveSpec
<1> HIDE DEF k
<1>2. Evict(q, now, w) = SubSeq(q, k, Len(q))
  BY DEF Evict, k
<1>3. SubSeq(q, k, Len(q)) \in Seq(Grant)
  BY <1>1
<1>4. /\ Len(SubSeq(q, k, Len(q))) = Len(q) - k + 1
      /\ \A i \in 1..Len(q) - k + 1 : SubSeq(q, k, Len(q))[i] = q[k + i - 1]
  BY <1>1
<1>5. ASSUME NEW j \in 1..Len(q), now - q[j].at <= w
      PROVE  \E i \in 1..Len(q) - k + 1 : SubSeq(q, k, Len(q))[i] = q[j]
  <2>1. q[j].at \in Nat
    BY EntryType
  <2>2. j >= k
    BY <1>1, <1>5, <2>1
  <2>3. j - k + 1 \in 1..Len(q) - k + 1 /\ k + (j - k + 1) - 1 = j
    BY <1>1, <2>2
  <2> QED
    BY <1>4, <2>3
<1> QED
  BY <1>2, <1>3, <1>4, <1>5

(* Appending to a deque keeps its entries and adds the new one.            *)
LEMMA AppendSpec ==
  ASSUME NEW q \in Seq(Grant), NEW g \in Grant
  PROVE  /\ Append(q, g) \in Seq(Grant)
         /\ Len(Append(q, g)) = Len(q) + 1
         /\ \A i \in 1..Len(q) : Append(q, g)[i] = q[i]
         /\ Append(q, g)[Len(q) + 1] = g
  OBVIOUS

LEMMA EntriesFinite ==
  ASSUME NEW q \in Seq(Grant), NEW S,
         \A g \in S : \E i \in 1..Len(q) : q[i] = g
  PROVE  IsFiniteSet(S)
<1> DEFINE T == {q[i] : i \in 1..Len(q)}
           f == [i \in 1..Len(q) |-> q[i]]
<1>1. Len(q) \in Nat
  OBVIOUS
<1>2. IsFiniteSet(1..Len(q))
  BY <1>1, FS_Interval
<1>3. f \in Surjection(1..Len(q), T)
  BY DEF Surjection
<1>4. IsFiniteSet(T) /\ S \subseteq T
  BY <1>2, <1>3, FS_Surjection
<1> QED
  BY <1>4, FS_Subset

(* A set of entries of a deque has at most as many elements as the deque.  *)
LEMMA EntriesBound ==
  ASSUME NEW q \in Seq(Grant), NEW S,
         \A g \in S : \E i \in 1..Len(q) : q[i] = g
  PROVE  Cardinality(S) <= Len(q)
<1> DEFINE T == {q[i] : i \in 1..Len(q)}
           f == [i \in 1..Len(q) |-> q[i]]
<1>1. Len(q) \in Nat /\ IsFiniteSet(1..Len(q)) /\ Cardinality(1..Len(q)) = Len(q)
  <2>1. Len(q) \in Nat
    OBVIOUS
  <2>2. IsFiniteSet(1..Len(q)) /\ Cardinality(1..Len(q)) = IF 1 > Len(q) THEN 0 ELSE Len(q) - 1 + 1
    BY <2>1, FS_Interval
  <2> QED
    BY <2>1, <2>2
<1>2. f \in Surjection(1..Len(q), T)
  BY DEF Surjection
<1>3. IsFiniteSet(T) /\ Cardinality(T) <= Len(q)
  BY <1>1, <1>2, FS_Surjection
<1>4. S \subseteq T
  OBVIOUS
<1>5. Cardinality(S) <= Cardinality(T)
  BY <1>3, <1>4, FS_Subset
<1>6. IsFiniteSet(S)
  BY <1>3, <1>4, FS_Subset
<1> QED
  BY <1>1, <1>3, <1>5, <1>6, FS_CardinalityType

-----------------------------------------------------------------------------
(* What the two evictions of a waiting call return.                        *)
LEMMA QueueSpec ==
  ASSUME TypeOK, NEW c \in pending
  PROVE  /\ c \in Call
         /\ ReqQueue(c) \in Seq(Grant) /\ TokQueue(c) \in Seq(Grant)
         /\ \A j \in 1..Len(reqTs[c.user]) : c.now - reqTs[c.user][j].at <= ReqWindow =>
              \E i \in 1..Len(ReqQueue(c)) : ReqQueue(c)[i] = reqTs[c.user][j]
<1>1. c \in Call
  BY DEF TypeOK
<1>2. c.now \in Nat /\ c.user \in Users
  BY <1>1 DEF Call
<1>3. reqTs[c.user] \in Seq(Grant) /\ tokTs[c.user] \in Seq(Grant)
  BY <1>2 DEF TypeOK
<1>4. ReqWindow \in Nat /\ TokWindow \in Nat
  BY LimitsAssumption
<1> QED
  BY <1>1, <1>2, <1>3, <1>4, EvictSpec DEF ReqQueue, TokQueue

LEMMA GrantOfType ==
  ASSUME TypeOK, NEW c \in pending
  PROVE  /\ GrantOf(c) \in Grant
         /\ GrantOf(c).id = granted + 1 /\ GrantOf(c).user = c.user
         /\ GrantOf(c).when = clock /\ GrantOf(c).policy = c.policy
  BY DEF TypeOK, GrantOf, Grant, Call

(* Every variable keeps its type.                                          *)
LEMMA TypeStep ==
  ASSUME TypeOK, [Next]_vars
  PROVE  TypeOK'
<1>1. ASSUME NEW t \in Threads, NEW kind \in {"check", "peek"}, NEW u \in Users,
             NEW n \in TokenCounts, NEW p \in Policies, Begin(t, kind, u, n, p)
      PROVE  TypeOK'
  <2>1. n \in Nat
    BY LimitsAssumption
  <2>2. [thread |-> t, kind |-> kind, user |-> u, tokens |-> n,
         policy |-> p, now |-> clock] \in Call
    BY <2>1 DEF TypeOK, Call
  <2> QED
    BY <1>1, <2>2 DEF TypeOK, Begin
<1>2. ASSUME NEW c \in pending, CheckCommits(c)
      PROVE  TypeOK'
  <2>1. /\ Append(ReqQueue(c), GrantOf(c)) \in Seq(Grant)
        /\ Append(TokQueue(c), GrantOf(c)) \in Seq(Grant)
    BY QueueSpec, GrantOfType, AppendSpec
  <2>2. reqTs' \in [Users -> Seq(Grant)] /\ tokTs' \in [Users -> Seq(Grant)]
    BY <1>2, <2>1 DEF TypeOK, CheckCommits
  <2>3. grants' \subseteq Grant /\ granted' \in Nat /\ clock' \in Nat /\ pending' \subseteq Call
        /\ readers' \subseteq Reader
    BY <1>2, GrantOfType DEF TypeOK, CheckCommits
  <2> QED
    BY <2>2, <2>3 DEF TypeOK
<1>3. ASSUME NEW c \in pending, ObserveOnly(c)
      PROVE  TypeOK'
  BY <1>3, QueueSpec DEF TypeOK, ObserveOnly
<1>4. ASSUME NEW u \in Users, Reset(u)
      PROVE  TypeOK'
  <2>1. <<>> \in Seq(Grant)
    OBVIOUS
  <2> QED
    BY <1>4, <2>1 DEF TypeOK, Reset
<1>5. CASE Tick
  BY <1>5 DEF TypeOK, Tick
<1>6. ASSUME NEW t \in Threads, NEW u \in Users, BeginUsage(t, u)
      PROVE  TypeOK'
  BY <1>6 DEF TypeOK, BeginUsage, Reader
<1>7. ASSUME NEW r \in readers, AnswerUsage(r)
      PROVE  TypeOK'
  BY <1>7 DEF TypeOK, AnswerUsage
<1>8. CASE UNCHANGED vars
  BY <1>8 DEF TypeOK, vars
<1> QED
  BY <1>1, <1>2, <1>3, <1>4, <1>5, <1>6, <1>7, <1>8 DEF Next

LEMMA InitInv == Init => RequestInv
<1> SUFFICES ASSUME Init PROVE RequestInv
  OBVIOUS
<1>1. <<>> \in Seq(Grant)
  OBVIOUS
<1>2. TypeOK
  BY <1>1 DEF Init, TypeOK
<1> QED
  BY <1>2 DEF Init, RequestInv, CallsInPast, IdsKnown, LiveQueued, RequestsWithinLimit

(* The variables' types are preserved by every behaviour of the limiter    *)
(* (rate_limiter.py:24-29).                                                *)
THEOREM TypeCorrect == Spec => []TypeOK
<1>1. Init => TypeOK
  BY InitInv DEF RequestInv
<1>2. TypeOK /\ [Next]_vars => TypeOK'
  BY TypeStep
<1> QED
  BY <1>1, <1>2, PTL DEF Spec

-----------------------------------------------------------------------------
(* Reading the clock changes no deque and no grant.                        *)
LEMMA BeginStep ==
  ASSUME RequestInv, TypeOK',
         NEW t, NEW kind, NEW u, NEW n, NEW p, Begin(t, kind, u, n, p)
  PROVE  RequestInv'
<1>1. CallsInPast'
  <2> SUFFICES ASSUME NEW c \in pending' \cup readers PROVE c.now <= clock
    BY DEF CallsInPast, Begin
  <2>1. CASE c \in pending \cup readers
    BY <2>1 DEF RequestInv, CallsInPast
  <2>2. CASE c.now = clock
    BY <2>2 DEF RequestInv, TypeOK
  <2> QED
    BY <2>1, <2>2 DEF Begin
<1>2. IdsKnown' /\ LiveQueued' /\ RequestsWithinLimit'
  BY DEF RequestInv, Begin, IdsKnown, LiveQueued, RequestsWithinLimit
<1> QED
  BY <1>1, <1>2 DEF RequestInv

(* Neither does a get_usage().                                             *)
LEMMA UsageStep ==
  ASSUME RequestInv, TypeOK',
         \/ \E t \in Threads, u \in Users : BeginUsage(t, u)
         \/ \E r \in readers : AnswerUsage(r)
  PROVE  RequestInv'
<1>1. /\ UNCHANGED <<clock, reqTs, tokTs, pending, grants, granted>>
      /\ \A r \in readers' \ readers : r.now = clock
  BY DEF BeginUsage, AnswerUsage
<1>2. CallsInPast'
  <2> SUFFICES ASSUME NEW c \in pending \cup readers' PROVE c.now <= clock
    BY <1>1 DEF CallsInPast
  <2>1. CASE c \in pending \cup readers
    BY <2>1 DEF RequestInv, CallsInPast
  <2>2. CASE c \in readers' \ readers
    BY <1>1, <2>2 DEF RequestInv, TypeOK
  <2> QED
    BY <2>1, <2>2
<1>3. IdsKnown' /\ LiveQueued' /\ RequestsWithinLimit'
  BY <1>1 DEF RequestInv, IdsKnown, LiveQueued, RequestsWithinLimit
<1> QED
  BY <1>2, <1>3 DEF RequestInv

(* Time passes: a grant that is live now was live before.                  *)
LEMMA TickStep ==
  ASSUME RequestInv, TypeOK', Tick
  PROVE  RequestInv'
<1>1. clock \in Nat /\ clock' = clock + 1 /\ ReqWindow \in Nat
  BY LimitsAssumption DEF Tick, RequestInv, TypeOK
<1>2. CallsInPast'
  BY <1>1 DEF RequestInv, CallsInPast, Tick, TypeOK, Call, Reader
<1>3. LiveQueued'
  <2> SUFFICES ASSUME NEW g \in grants, clock' - g.at <= ReqWindow
               PROVE  \E i \in 1..Len(reqTs[g.user]) : reqTs[g.user][i] = g
    BY DEF LiveQueued, Tick
  <2>1. g.at \in Nat
    BY DEF RequestInv, TypeOK, Grant
  <2>2. clock - g.at <= ReqWindow
    BY <1>1, <2>1
  <2> QED
    BY <2>2 DEF RequestInv, LiveQueued
<1>4. IdsKnown' /\ RequestsWithinLimit'
  BY DEF RequestInv, IdsKnown, RequestsWithinLimit, Tick
<1> QED
  BY <1>2, <1>3, <1>4 DEF RequestInv

(* A reset forgets the deque and the grants of one user together.          *)
LEMMA ResetStep ==
  ASSUME RequestInv, TypeOK', NEW u \in Users, Reset(u)
  PROVE  RequestInv'
<1>1. CallsInPast' /\ IdsKnown'
  BY DEF RequestInv, CallsInPast, IdsKnown, Reset
<1>2. LiveQueued'
  <2> SUFFICES ASSUME NEW g \in grants, g.user # u, clock - g.at <= ReqWindow
               PROVE  \E i \in 1..Len(reqTs'[g.user]) : reqTs'[g.user][i] = g
    BY DEF LiveQueued, Reset
  <2>1. g.user \in Users
    BY DEF RequestInv, TypeOK, Grant
  <2>2. reqTs'[g.user] = reqTs[g.user]
    BY <2>1 DEF Reset, RequestInv, TypeOK
  <2> QED
    BY <2>2 DEF RequestInv, LiveQueued
<1>3. RequestsWithinLimit'
  <2> SUFFICES ASSUME NEW g \in grants, g.user # u
               PROVE  Cardinality(Abstract!Window(grants', g, ReqWindow)) <= MaxRequests[g.policy]
    BY DEF RequestsWithinLimit, Reset
  <2>1. Abstract!Window(grants', g, ReqWindow) = Abstract!Window(grants, g, ReqWindow)
    BY DEF Abstract!Window, Reset
  <2> QED
    BY <2>1 DEF RequestInv, RequestsWithinLimit
<1> QED
  BY <1>1, <1>2, <1>3 DEF RequestInv

(* An eviction by a call that measures from the past drops no live grant.  *)
LEMMA EvictionKeepsLive ==
  ASSUME RequestInv, NEW c \in pending,
         NEW g \in grants, g.user = c.user, clock - g.at <= ReqWindow
  PROVE  \E i \in 1..Len(ReqQueue(c)) : ReqQueue(c)[i] = g
<1>1. PICK j \in 1..Len(reqTs[g.user]) : reqTs[g.user][j] = g
  BY DEF RequestInv, LiveQueued
<1>2. c.now \in Nat /\ c.now <= clock /\ clock \in Nat /\ g.at \in Nat /\ ReqWindow \in Nat
  BY LimitsAssumption DEF RequestInv, CallsInPast, TypeOK, Call, Grant
<1>3. c.now - g.at <= ReqWindow
  BY <1>2
<1> QED
  BY <1>1, <1>3, QueueSpec DEF RequestInv

LEMMA ObserveStep ==
  ASSUME RequestInv, TypeOK', NEW c \in pending, ObserveOnly(c)
  PROVE  RequestInv'
<1>1. CallsInPast' /\ IdsKnown' /\ RequestsWithinLimit'
  BY DEF RequestInv, CallsInPast, IdsKnown, RequestsWithinLimit, ObserveOnly
<1>2. LiveQueued'
  <2> SUFFICES ASSUME NEW g \in grants, clock - g.at <= ReqWindow
               PROVE  \E i \in 1..Len(reqTs'[g.user]) : reqTs'[g.user][i] = g
    BY DEF LiveQueued, ObserveOnly
  <2>1. g.user \in Users /\ c.user \in Users
    BY DEF RequestInv, TypeOK, Grant, Call
  <2>2. CASE g.user = c.user
    <3>1. reqTs'[g.user] = ReqQueue(c)
      BY <2>1, <2>2 DEF ObserveOnly, RequestInv, TypeOK
    <3> QED
      BY <2>2, <3>1, EvictionKeepsLive
  <2>3. CASE g.user # c.user
    <3>1. reqTs'[g.user] = reqTs[g.user]
      BY <2>1, <2>3 DEF ObserveOnly, RequestInv, TypeOK
    <3> QED
      BY <3>1 DEF RequestInv, LiveQueued
  <2> QED
    BY <2>2, <2>3
<1> QED
  BY <1>1, <1>2 DEF RequestInv

(* A commit: the new entry fits because what it shares the window with is  *)
(* in the deque whose length check() has just tested.                      *)
LEMMA CommitStep ==
  ASSUME RequestInv, TypeOK', NEW c \in pending, CheckCommits(c)
  PROVE  RequestInv'
<1> DEFINE new == GrantOf(c)
           q == Append(ReqQueue(c), new)
<1>1. /\ new \in Grant /\ new.id = granted + 1 /\ new.user = c.user
      /\ new.when = clock /\ new.policy = c.policy
  BY GrantOfType DEF RequestInv
<1>2. ReqQueue(c) \in Seq(Grant) /\ c \in Call
  BY QueueSpec DEF RequestInv
<1>3. /\ q \in Seq(Grant) /\ Len(q) = Len(ReqQueue(c)) + 1
      /\ \A i \in 1..Len(ReqQueue(c)) : q[i] = ReqQueue(c)[i]
      /\ q[Len(ReqQueue(c)) + 1] = new
  BY <1>1, <1>2, AppendSpec
<1>4. /\ grants' = grants \cup {new} /\ granted' = granted + 1 /\ clock' = clock
      /\ reqTs' = [reqTs EXCEPT ![c.user] = q] /\ pending' \subseteq pending /\ readers' = readers
      /\ Len(ReqQueue(c)) < MaxRequests[c.policy]
  <2>1. Len(ReqQueue(c)) \in Nat /\ MaxRequests[c.policy] \in Nat
    BY <1>2, LimitsAssumption DEF Call
  <2> QED
    BY <2>1 DEF CheckCommits, RequestsExceeded
<1> HIDE DEF new, q
<1>5. clock \in Nat /\ granted \in Nat /\ c.user \in Users /\ Len(ReqQueue(c)) \in Nat
  BY <1>2 DEF RequestInv, TypeOK, Call
<1>6. \A g \in grants : g.id \in Nat /\ g.id <= granted /\ g.user \in Users
  BY DEF RequestInv, IdsKnown, TypeOK, Grant
<1>7. \A g \in grants \cup {new} : g.user = c.user /\ clock - g.at <= ReqWindow =>
        \E i \in 1..Len(q) : q[i] = g
  <2>1. ASSUME NEW g \in grants, g.user = c.user, clock - g.at <= ReqWindow
        PROVE  \E i \in 1..Len(q) : q[i] = g
    <3>1. PICK i \in 1..Len(ReqQueue(c)) : ReqQueue(c)[i] = g
      BY <2>1, EvictionKeepsLive
    <3> QED
      BY <3>1, <1>3, <1>5
  <2>2. \E i \in 1..Len(q) : q[i] = new
    BY <1>3, <1>5
  <2> QED
    BY <2>1, <2>2
<1>8. CallsInPast'
  BY <1>4 DEF RequestInv, CallsInPast
<1>9. IdsKnown'
  BY <1>1, <1>4, <1>5, <1>6 DEF IdsKnown
<1>10. LiveQueued'
  <2> SUFFICES ASSUME NEW g \in grants \cup {new}, clock - g.at <= ReqWindow
               PROVE  \E i \in 1..Len(reqTs'[g.user]) : reqTs'[g.user][i] = g
    BY <1>4 DEF LiveQueued
  <2>1. CASE g.user = c.user
    <3>1. reqTs'[g.user] = q
      BY <1>4, <1>5, <2>1 DEF RequestInv, TypeOK
    <3> QED
      BY <1>7, <2>1, <3>1
  <2>2. CASE g.user # c.user
    <3>1. g \in grants
      BY <1>1, <2>2
    <3>2. reqTs'[g.user] = reqTs[g.user]
      BY <1>4, <1>6, <2>2, <3>1 DEF RequestInv, TypeOK
    <3> QED
      BY <3>1, <3>2 DEF RequestInv, LiveQueued
  <2> QED
    BY <2>1, <2>2
<1>11. RequestsWithinLimit'
  <2>1. ASSUME NEW g \in grants
        PROVE  Cardinality(Abstract!Window(grants', g, ReqWindow)) <= MaxRequests[g.policy]
    <3>1. ~(new.id <= g.id)
      BY <1>1, <1>5, <1>6
    <3>2. Abstract!Window(grants', g, ReqWindow) = Abstract!Window(grants, g, ReqWindow)
      BY <1>4, <3>1 DEF Abstract!Window
    <3> QED
      BY <3>2 DEF RequestInv, RequestsWithinLimit
  <2>2. Cardinality(Abstract!Window(grants', new, ReqWindow)) <= MaxRequests[new.policy]
    <3>1. \A g \in Abstract!Window(grants', new, ReqWindow) : \E i \in 1..Len(q) : q[i] = g
      BY <1>1, <1>4, <1>7 DEF Abstract!Window
    <3>2. Cardinality(Abstract!Window(grants', new, ReqWindow)) <= Len(q)
      BY <1>3, <3>1, EntriesBound
    <3>3. IsFiniteSet(Abstract!Window(grants', new, ReqWindow))
      BY <1>3, <3>1, EntriesFinite
    <3>4. Cardinality(Abstract!Window(grants', new, ReqWindow)) \in Nat
      BY <3>3, FS_CardinalityType
    <3>5. MaxRequests[c.policy] \in Nat
      BY <1>2, LimitsAssumption DEF Call
    <3> QED
      BY <1>1, <1>3, <1>4, <1>5, <3>2, <3>4, <3>5
  <2> QED
    BY <1>4, <2>1, <2>2 DEF RequestsWithinLimit
<1> QED
  BY <1>8, <1>9, <1>10, <1>11 DEF RequestInv

LEMMA RequestStep ==
  ASSUME RequestInv, [Next]_vars
  PROVE  RequestInv'
<1>1. TypeOK'
  BY TypeStep DEF RequestInv
<1>2. CASE UNCHANGED vars
  BY <1>2 DEF vars, RequestInv, TypeOK, CallsInPast, IdsKnown, LiveQueued, RequestsWithinLimit
<1> QED
  BY <1>1, <1>2, BeginStep, CommitStep, ObserveStep, UsageStep, ResetStep, TickStep DEF Next

(* However many threads share the limiter and however stale their clock    *)
(* readings are, a committed request and those committed in the minute     *)
(* before it are within the limit it was checked against                   *)
(* (rate_limiter.py:47-94).                                                *)
THEOREM RequestLimit == Spec => []RequestsWithinLimit
<1>1. RequestInv /\ [Next]_vars => RequestInv'
  BY RequestStep
<1>2. RequestInv => RequestsWithinLimit
  BY DEF RequestInv
<1> QED
  BY InitInv, <1>1, <1>2, PTL DEF Spec

-----------------------------------------------------------------------------
(* Sums over finite sets.  MapThenSumSet picks the elements in an order of *)
(* its own; the lemmas below show that the order does not matter.          *)

(* A non-empty family of subsets of a finite set has a smallest member.    *)
LEMMA SmallestSubset ==
  ASSUME NEW S, IsFiniteSet(S), NEW Bad \in SUBSET SUBSET S, Bad # {}
  PROVE  \E s \in Bad : \A t \in Bad : t \subseteq s => t = s
<1>1. FiniteSubsetsOf(S) = SUBSET S
  BY FS_FiniteSubsetsOfFinite
<1>2. IsWellFoundedOn(StrictSubsetOrdering(S), SUBSET S)
  BY <1>1, FS_StrictSubsetOrderingWellFounded, Zenon
<1>3. PICK s \in Bad : \A t \in Bad : ~(<<t, s>> \in StrictSubsetOrdering(S))
  BY <1>2, WFMin, Zenon
<1> QED
  BY <1>3 DEF StrictSubsetOrdering

(* What holds of the empty set and survives adding an element holds of     *)
(* every finite set.                                                       *)
LEMMA FiniteInduction ==
  ASSUME NEW S, IsFiniteSet(S), NEW Good \in SUBSET SUBSET S,
         {} \in Good,
         \A T \in Good, x \in S : x \notin T => T \cup {x} \in Good
  PROVE  S \in Good
<1> SUFFICES ASSUME S \notin Good PROVE FALSE
  OBVIOUS
<1> DEFINE Bad == (SUBSET S) \ Good
<1>1. Bad \in SUBSET SUBSET S /\ Bad # {}
  OBVIOUS
<1> HIDE DEF Bad
<1>2. PICK s \in Bad : \A t \in Bad : t \subseteq s => t = s
  BY <1>1, SmallestSubset
<1>3. s \in SUBSET S /\ s \notin Good
  BY <1>2 DEF Bad
<1>4. PICK x \in s : TRUE
  BY <1>3
<1>5. s \ {x} \in SUBSET S /\ s \ {x} \notin Bad
  BY <1>2, <1>3, <1>4
<1>6. s \ {x} \in Good /\ x \notin s \ {x} /\ x \in S /\ (s \ {x}) \cup {x} = s
  BY <1>3, <1>4, <1>5 DEF Bad
<1> QED
  BY <1>3, <1>6

-----------------------------------------------------------------------------
(* h sums f over every subset of S, in whatever order.                     *)
Additive(h, f, S) ==
  /\ h \in [SUBSET S -> Nat]
  /\ h[{}] = 0
  /\ \A s \in SUBSET S : \A x \in s : h[s] = f[x] + h[s \ {x}]

LEMMA AdditiveExists ==
  ASSUME NEW S, IsFiniteSet(S), NEW f \in [S -> Nat]
  PROVE  \E h : Additive(h, f, S)
<1> DEFINE Good == {T \in SUBSET S : \E h : Additive(h, f, T)}
<1>1. {} \in Good
  <2> DEFINE h == [s \in SUBSET {} |-> 0]
  <2>1. Additive(h, f, {})
    BY DEF Additive
  <2> QED
    BY <2>1, Zenon
<1>2. ASSUME NEW T \in Good, NEW x \in S, x \notin T
      PROVE  T \cup {x} \in Good
  <2> DEFINE U == T \cup {x}
  <2>0. T \in SUBSET S
    OBVIOUS
  <2>1. PICK k : Additive(k, f, T)
    OBVIOUS
  <2> DEFINE h == [s \in SUBSET U |-> IF x \in s THEN f[x] + k[s \ {x}] ELSE k[s]]
  <2>2. /\ k \in [SUBSET T -> Nat] /\ k[{}] = 0
        /\ \A s \in SUBSET T : \A y \in s : k[s] = f[y] + k[s \ {y}]
    BY <2>1 DEF Additive
  <2>3. f[x] \in Nat /\ \A y \in T : f[y] \in Nat
    BY <2>0
  <2>4. \A s \in SUBSET U : s \ {x} \in SUBSET T /\ (x \notin s => s \in SUBSET T)
    OBVIOUS
  <2>5. h \in [SUBSET U -> Nat]
    BY <2>2, <2>3, <2>4
  <2>6. h[{}] = 0
    BY <2>2
  <2>7. ASSUME NEW s \in SUBSET U, NEW y \in s
        PROVE  h[s] = f[y] + h[s \ {y}]
    <3>1. s \ {y} \in SUBSET U
      OBVIOUS
    <3>2. CASE y = x
      <4>1. h[s] = f[x] + k[s \ {x}] /\ h[s \ {x}] = k[s \ {x}]
        BY <3>1, <3>2
      <4> QED
        BY <3>2, <4>1
    <3>3. CASE y # x /\ x \notin s
      <4>1. h[s] = k[s] /\ h[s \ {y}] = k[s \ {y}]
        BY <3>1, <3>3
      <4> QED
        BY <2>2, <2>4, <3>3, <4>1
    <3>4. CASE y # x /\ x \in s
      <4>1. h[s] = f[x] + k[s \ {x}] /\ h[s \ {y}] = f[x] + k[(s \ {y}) \ {x}]
        BY <3>1, <3>4
      <4>2. (s \ {y}) \ {x} = (s \ {x}) \ {y}
        OBVIOUS
      <4>3. y \in s \ {x} /\ y \in T
        BY <3>4
      <4>4. k[s \ {x}] = f[y] + k[(s \ {x}) \ {y}]
        BY <2>2, <2>4, <4>3
      <4>5. k[(s \ {x}) \ {y}] \in Nat
        BY <2>2, <2>4
      <4> HIDE DEF h
      <4> QED
        BY <2>3, <4>1, <4>2, <4>3, <4>4, <4>5
    <3> QED
      BY <3>2, <3>3, <3>4
  <2> HIDE DEF h
  <2>8. Additive(h, f, U)
    BY <2>5, <2>6, <2>7 DEF Additive
  <2>9. U \in SUBSET S
    BY <2>0
  <2> QED
    BY <2>8, <2>9
<1>3. Good \in SUBSET SUBSET S
  OBVIOUS
<1> HIDE DEF Good
<1>4. S \in Good
  BY <1>1, <1>2, <1>3, FiniteInduction
<1> QED
  BY <1>4 DEF Good

Some(s) == CHOOSE x \in s : TRUE

(* k is computed by the recursion of MapThenSumSet.                        *)
FoldsTo(k, f, S) ==
  k = [s \in SUBSET S |-> IF s = {} THEN 0 ELSE f[Some(s)] + k[s \ {Some(s)}]]

(* The recursion of a fold has one solution, the additive function.        *)
LEMMA SumRecursion ==
  ASSUME NEW S, IsFiniteSet(S), NEW f, NEW h, Additive(h, f, S), NEW k, FoldsTo(k, f, S)
  PROVE  k[S] = h[S]
<1> DEFINE Bad == {s \in SUBSET S : k[s] # h[s]}
<1> SUFFICES ASSUME Bad # {} PROVE FALSE
  OBVIOUS
<1>1. Bad \in SUBSET SUBSET S
  OBVIOUS
<1>2. PICK s \in Bad : \A t \in Bad : t \subseteq s => t = s
  <2> HIDE DEF Bad
  <2> QED
    BY <1>1, SmallestSubset
<1>3. s \in SUBSET S /\ k[s] # h[s]
  OBVIOUS
<1>4. \A t \in SUBSET S : k[t] = IF t = {} THEN 0 ELSE f[Some(t)] + k[t \ {Some(t)}]
  <2> HIDE DEF Bad
  <2> QED
    BY DEF FoldsTo
<1>5. s # {}
  BY <1>3, <1>4 DEF Additive
<1>6. Some(s) \in s
  BY <1>5 DEF Some
<1>7. s \ {Some(s)} \in SUBSET S /\ s \ {Some(s)} \notin Bad
  BY <1>2, <1>3, <1>6
<1>8. k[s \ {Some(s)}] = h[s \ {Some(s)}]
  BY <1>7
<1> HIDE DEF Bad
<1> QED
  BY <1>3, <1>4, <1>5, <1>6, <1>8 DEF Additive

LEMMA AdditiveRecursion ==
  ASSUME NEW S, NEW f, NEW h, Additive(h, f, S)
  PROVE  h = [s \in SUBSET S |-> IF s = {} THEN 0 ELSE f[Some(s)] + h[s \ {Some(s)}]]
<1>1. \A s \in SUBSET S : s # {} => Some(s) \in s
  BY DEF Some
<1>2. \A s \in SUBSET S :
        h[s] = IF s = {} THEN 0 ELSE f[Some(s)] + h[s \ {Some(s)}]
  BY <1>1 DEF Additive
<1>3. h \in [SUBSET S -> Nat]
  BY DEF Additive
<1> QED
  BY <1>2, <1>3

(* The sum of SlidingWindow, and the one of a deque, are such recursions.  *)
LEMMA SumTok ==
  ASSUME NEW S, IsFiniteSet(S), NEW h, NEW f, Additive(h, f, S), \A g \in S : f[g] = g.tokens
  PROVE  Abstract!SumTokens(S) = h[S]
<1> DEFINE Fold(k) == [s \in SUBSET S |-> IF s = {} THEN 0 ELSE Some(s).tokens + k[s \ {Some(s)}]]
           iter == CHOOSE k : k = Fold(k)
<1>1. \A s \in SUBSET S : s # {} => f[Some(s)] = Some(s).tokens
  BY DEF Some
<1>2. \A k : Fold(k) = [s \in SUBSET S |-> IF s = {} THEN 0 ELSE f[Some(s)] + k[s \ {Some(s)}]]
  BY <1>1
<1>3. h = Fold(h)
  <2> HIDE DEF Fold
  <2> QED BY <1>2, AdditiveRecursion
<1>4. iter = Fold(iter)
  <2> HIDE DEF Fold
  <2> QED BY <1>3, Zenon
<1>5. Abstract!SumTokens(S) = iter[S]
  BY DEF Abstract!SumTokens, Abstract!MapThenSumSet, Abstract!MapThenFoldSet, Some
<1> HIDE DEF iter, Fold
<1>6. FoldsTo(iter, f, S)
  BY <1>2, <1>4, Zenon DEF FoldsTo
<1> QED
  BY <1>5, <1>6, SumRecursion

(* The tokens of the entries of a deque at the places I.                   *)
QueueSum(q, I) == MapThenSumSet(LAMBDA i : q[i].tokens, I)

TokensAt(f, q, I) == \A i \in I : f[i] = q[i].tokens

LEMMA SumQueue ==
  ASSUME NEW q, NEW I, IsFiniteSet(I), NEW h, NEW f, Additive(h, f, I), TokensAt(f, q, I)
  PROVE  QueueSum(q, I) = h[I]
<1> DEFINE Fold(k) == [s \in SUBSET I |-> IF s = {} THEN 0 ELSE q[Some(s)].tokens + k[s \ {Some(s)}]]
           iter == CHOOSE k : k = Fold(k)
<1>1. \A s \in SUBSET I : s # {} => f[Some(s)] = q[Some(s)].tokens
  BY DEF Some, TokensAt
<1>2. \A k : Fold(k) = [s \in SUBSET I |-> IF s = {} THEN 0 ELSE f[Some(s)] + k[s \ {Some(s)}]]
  BY <1>1
<1>3. h = Fold(h)
  <2> HIDE DEF Fold
  <2> QED BY <1>2, AdditiveRecursion
<1>4. iter = Fold(iter)
  <2> HIDE DEF Fold
  <2> QED BY <1>3, Zenon
<1>5. QueueSum(q, I) = iter[I]
  BY DEF QueueSum, MapThenSumSet, MapThenFoldSet, Some
<1> HIDE DEF iter, Fold
<1>6. FoldsTo(iter, f, I)
  BY <1>2, <1>4, Zenon DEF FoldsTo
<1> QED
  BY <1>5, <1>6, SumRecursion

-----------------------------------------------------------------------------
(* One additive function gives the tokens of every subset of a ledger.     *)
LEMMA LedgerSum ==
  ASSUME NEW T \in SUBSET Grant, IsFiniteSet(T)
  PROVE  \E h : /\ Additive(h, [g \in T |-> g.tokens], T)
                /\ \A S \in SUBSET T : Abstract!SumTokens(S) = h[S]
<1> DEFINE f == [g \in T |-> g.tokens]
<1>1. f \in [T -> Nat]
  BY DEF Grant
<1> HIDE DEF f
<1>2. PICK h : Additive(h, f, T)
  BY <1>1, AdditiveExists
<1>3. ASSUME NEW S \in SUBSET T
      PROVE  Abstract!SumTokens(S) = h[S]
  <2> DEFINE k == [s \in SUBSET S |-> h[s]]
  <2>1. IsFiniteSet(S) /\ \A s \in SUBSET S : s \in SUBSET T
    BY FS_Subset
  <2>2. Additive(k, f, S)
    BY <1>2, <2>1 DEF Additive
  <2>3. \A g \in S : f[g] = g.tokens
    BY DEF f
  <2>4. Abstract!SumTokens(S) = k[S]
    <3> HIDE DEF k
    <3> QED BY <2>1, <2>2, <2>3, SumTok
  <2> QED
    BY <2>4
<1> QED
  BY <1>2, <1>3 DEF f

LEMMA SumType ==
  ASSUME NEW T \in SUBSET Grant, IsFiniteSet(T)
  PROVE  Abstract!SumTokens(T) \in Nat
<1>1. PICK h : /\ Additive(h, [g \in T |-> g.tokens], T)
               /\ \A S \in SUBSET T : Abstract!SumTokens(S) = h[S]
  BY LedgerSum
<1>2. h[T] \in Nat /\ T \in SUBSET T
  BY <1>1 DEF Additive
<1> QED
  BY <1>1, <1>2

(* A ledger with one more grant has its tokens more.                       *)
LEMMA SumAdd ==
  ASSUME NEW T \in SUBSET Grant, IsFiniteSet(T), NEW g \in Grant, g \notin T
  PROVE  Abstract!SumTokens(T \cup {g}) = Abstract!SumTokens(T) + g.tokens
<1> DEFINE U == T \cup {g}
<1>1. U \in SUBSET Grant /\ IsFiniteSet(U)
  BY FS_AddElement
<1>2. PICK h : /\ Additive(h, [x \in U |-> x.tokens], U)
               /\ \A S \in SUBSET U : Abstract!SumTokens(S) = h[S]
  <2> HIDE DEF U
  <2> QED BY <1>1, LedgerSum
<1>3. h[U] = g.tokens + h[U \ {g}] /\ h[U \ {g}] \in Nat
  BY <1>2 DEF Additive
<1>4. U \ {g} = T /\ T \in SUBSET U /\ U \in SUBSET U /\ g.tokens \in Nat
  BY DEF Grant
<1>5. Abstract!SumTokens(U) = h[U] /\ Abstract!SumTokens(T) = h[T]
  BY <1>2, <1>4
<1>6. h[T] \in Nat
  BY <1>3, <1>4
<1>7. h[U] = h[T] + g.tokens
  <2>1. h[U] = g.tokens + h[T]
    <3> HIDE DEF U
    <3> QED BY <1>3, <1>4
  <2>2. g.tokens \in Nat
    BY <1>4
  <2> HIDE DEF U
  <2> QED BY <1>6, <2>1, <2>2
<1> QED
  BY <1>5, <1>7

(* A part of a ledger has at most its tokens.                              *)
LEMMA SumMonotone ==
  ASSUME NEW T \in SUBSET Grant, IsFiniteSet(T), NEW S \in SUBSET T
  PROVE  Abstract!SumTokens(S) <= Abstract!SumTokens(T)
<1> DEFINE R == T \ S
           Good == {D \in SUBSET R : Abstract!SumTokens(S) <= Abstract!SumTokens(S \cup D)}
<1>1. IsFiniteSet(S) /\ IsFiniteSet(R) /\ \A D \in SUBSET R : IsFiniteSet(S \cup D)
  <2>1. \A D \in SUBSET R : S \cup D \in SUBSET T
    OBVIOUS
  <2> QED
    BY <2>1, FS_Subset
<1>2. {} \in Good
  <2>1. S \cup {} = S /\ Abstract!SumTokens(S) \in Nat
    BY <1>1, SumType
  <2> QED
    BY <2>1
<1>3. ASSUME NEW D \in Good, NEW g \in R, g \notin D
      PROVE  D \cup {g} \in Good
  <2>1. D \in SUBSET R /\ Abstract!SumTokens(S) <= Abstract!SumTokens(S \cup D)
    OBVIOUS
  <2>2. /\ S \cup D \in SUBSET Grant /\ IsFiniteSet(S \cup D) /\ g \in Grant /\ g \notin S \cup D
        /\ S \cup (D \cup {g}) = (S \cup D) \cup {g}
    BY <1>1, <1>3, <2>1
  <2>3. Abstract!SumTokens((S \cup D) \cup {g}) = Abstract!SumTokens(S \cup D) + g.tokens
    BY <2>2, SumAdd
  <2>4. Abstract!SumTokens(S) \in Nat /\ Abstract!SumTokens(S \cup D) \in Nat /\ g.tokens \in Nat
    BY <1>1, <2>2, SumType DEF Grant
  <2>5. Abstract!SumTokens(S) <= Abstract!SumTokens(S \cup (D \cup {g}))
    BY <2>1, <2>2, <2>3, <2>4
  <2> QED
    BY <2>1, <2>5
<1>4. Good \in SUBSET SUBSET R
  OBVIOUS
<1> HIDE DEF Good
<1>5. R \in Good
  BY <1>1, <1>2, <1>3, <1>4, FiniteInduction
<1>6. S \cup R = T
  OBVIOUS
<1> QED
  BY <1>5, <1>6 DEF Good

(* A deque without duplicates: the tokens and the number of the entries at *)
(* some places are those of the set of those entries.                      *)
Entries(q, I) == {q[i] : i \in I}

Distinct(q) == \A i, j \in 1..Len(q) : i < j => q[i].id < q[j].id

LEMMA QueueEntries ==
  ASSUME NEW q \in Seq(Grant), Distinct(q), NEW I \in SUBSET (1..Len(q))
  PROVE  /\ Entries(q, I) \in SUBSET Grant /\ IsFiniteSet(Entries(q, I))
         /\ IsFiniteSet(I)
         /\ QueueSum(q, I) = Abstract!SumTokens(Entries(q, I))
         /\ Cardinality(I) = Cardinality(Entries(q, I))
<1> DEFINE E == Entries(q, I)
<1>1. Len(q) \in Nat /\ \A i \in 1..Len(q) : q[i] \in Grant
  OBVIOUS
<1>2. \A i, j \in 1..Len(q) : i # j => q[i] # q[j]
  <2> SUFFICES ASSUME NEW i \in 1..Len(q), NEW j \in 1..Len(q), i # j PROVE q[i] # q[j]
    OBVIOUS
  <2>1. q[i].id \in Nat /\ q[j].id \in Nat
    BY <1>1 DEF Grant
  <2>2. i < j \/ j < i
    OBVIOUS
  <2> QED
    BY <2>1, <2>2 DEF Distinct
<1>3. IsFiniteSet(I)
  <2>1. IsFiniteSet(1..Len(q))
    BY <1>1, FS_Interval
  <2> QED
    BY <2>1, FS_Subset
<1>4. E \in SUBSET Grant
  BY <1>1 DEF Entries
<1>5. [i \in I |-> q[i]] \in Bijection(I, E)
  BY <1>2 DEF Bijection, Injection, Surjection, Entries, IsInjective
<1>6. IsFiniteSet(E) /\ Cardinality(I) = Cardinality(E)
  BY <1>3, <1>5, FS_Bijection DEF ExistsBijection
<1>7. PICK h : /\ Additive(h, [g \in E |-> g.tokens], E)
               /\ \A S \in SUBSET E : Abstract!SumTokens(S) = h[S]
  <2> HIDE DEF E
  <2> QED BY <1>4, <1>6, LedgerSum
<1> DEFINE f == [i \in I |-> q[i].tokens]
           k == [s \in SUBSET I |-> h[Entries(q, s)]]
<1>8. Additive(k, f, I)
  <2>1. \A s \in SUBSET I : Entries(q, s) \in SUBSET E
    BY DEF Entries
  <2>2. h \in [SUBSET E -> Nat] /\ h[{}] = 0
        /\ \A s \in SUBSET E : \A x \in s : h[s] = x.tokens + h[s \ {x}]
    BY <1>7 DEF Additive
  <2>3. k \in [SUBSET I -> Nat]
    BY <2>1, <2>2
  <2>4. Entries(q, {}) = {}
    BY DEF Entries
  <2>5. ASSUME NEW s \in SUBSET I, NEW i \in s
        PROVE  k[s] = f[i] + k[s \ {i}]
    <3>1. Entries(q, s \ {i}) = Entries(q, s) \ {q[i]} /\ q[i] \in Entries(q, s)
      BY <1>2 DEF Entries
    <3>2. h[Entries(q, s)] = q[i].tokens + h[Entries(q, s) \ {q[i]}]
      BY <2>1, <2>2, <3>1
    <3>3. s \ {i} \in SUBSET I /\ i \in I
      OBVIOUS
    <3> QED
      BY <3>1, <3>2, <3>3
  <2>6. k[{}] = 0
    BY <2>2, <2>4
  <2> HIDE DEF k, f
  <2> QED
    BY <2>3, <2>5, <2>6 DEF Additive
<1>9. QueueSum(q, I) = k[I]
  <2>1. TokensAt(f, q, I)
    BY DEF TokensAt
  <2>2. IsFiniteSet(I) /\ Additive(k, f, I)
    BY <1>3, <1>8
  <2> HIDE DEF k, f, E
  <2> QED BY <2>1, <2>2, SumQueue
<1>10. k[I] = h[E]
  OBVIOUS
<1> QED
  BY <1>3, <1>4, <1>6, <1>7, <1>9, <1>10

-----------------------------------------------------------------------------
(* An eviction cuts a prefix of expired entries off, and what it leaves is *)
(* empty or starts with a live one.                                        *)
LEMMA EvictShape ==
  ASSUME NEW q \in Seq(Grant), NEW now \in Nat, NEW w \in Nat
  PROVE  \E k \in 1..Len(q) + 1 :
           /\ \A j \in 1..k - 1 : now - q[j].at > w
           /\ k <= Len(q) => now - q[k].at <= w
           /\ Evict(q, now, w) \in Seq(Grant)
           /\ Len(Evict(q, now, w)) = Len(q) - k + 1
           /\ \A i \in 1..Len(q) - k + 1 : Evict(q, now, w)[i] = q[k + i - 1]
<1> DEFINE k == FirstLive(q, now, w)
<1>1. /\ k \in 1..Len(q) + 1 /\ \A j \in 1..k - 1 : now - q[j].at > w
      /\ k <= Len(q) => now - q[k].at <= w
  BY FirstLiveSpec
<1> HIDE DEF k
<1>2. Evict(q, now, w) = SubSeq(q, k, Len(q))
  BY DEF Evict, k
<1>3. /\ SubSeq(q, k, Len(q)) \in Seq(Grant)
      /\ Len(SubSeq(q, k, Len(q))) = Len(q) - k + 1
      /\ \A i \in 1..Len(q) - k + 1 : SubSeq(q, k, Len(q))[i] = q[k + i - 1]
  BY <1>1
<1> QED
  BY <1>1, <1>2, <1>3

(* The deques of one window against the grants: no grant twice and older   *)
(* grants first, nothing but grants of the user, and every live grant.     *)
FaithfulTo(q, u, G, now, w) ==
  /\ q \in Seq(Grant) /\ Distinct(q)
  /\ \A i \in 1..Len(q) : q[i] \in G /\ q[i].user = u
  /\ \A g \in G : g.user = u /\ now - g.at <= w => \E i \in 1..Len(q) : q[i] = g

Faithful(qs, G, now, w) == \A u \in Users : FaithfulTo(qs[u], u, G, now, w)

(* An eviction by a clock that is not ahead, and the passing of time, keep *)
(* a deque faithful.                                                       *)
LEMMA EvictFaithful ==
  ASSUME NEW q, NEW u, NEW G \in SUBSET Grant, NEW now \in Nat, NEW w \in Nat,
         NEW then \in Nat, then <= now, FaithfulTo(q, u, G, now, w)
  PROVE  FaithfulTo(Evict(q, then, w), u, G, now, w)
<1>1. /\ q \in Seq(Grant) /\ Distinct(q)
      /\ \A i \in 1..Len(q) : q[i] \in G /\ q[i].user = u
      /\ \A g \in G : g.user = u /\ now - g.at <= w => \E i \in 1..Len(q) : q[i] = g
  BY DEF FaithfulTo
<1> DEFINE e == Evict(q, then, w)
<1>2. PICK k \in 1..Len(q) + 1 :
        /\ e \in Seq(Grant) /\ Len(e) = Len(q) - k + 1
        /\ \A i \in 1..Len(q) - k + 1 : e[i] = q[k + i - 1]
  BY <1>1, EvictShape, Zenon
<1>3. \A j \in 1..Len(q) : then - q[j].at <= w => \E i \in 1..Len(e) : e[i] = q[j]
  BY <1>1, EvictSpec
<1> HIDE DEF e
<1>4. Len(q) \in Nat /\ \A i \in 1..Len(e) : k + i - 1 \in 1..Len(q) /\ e[i] = q[k + i - 1]
  BY <1>1, <1>2
<1>5. Distinct(e)
  <2> SUFFICES ASSUME NEW i \in 1..Len(e), NEW j \in 1..Len(e), i < j PROVE e[i].id < e[j].id
    BY DEF Distinct
  <2>1. k + i - 1 < k + j - 1
    BY <1>2
  <2> QED
    BY <1>1, <1>4, <2>1 DEF Distinct
<1>6. \A i \in 1..Len(e) : e[i] \in G /\ e[i].user = u
  BY <1>1, <1>4
<1>7. ASSUME NEW g \in G, g.user = u, now - g.at <= w
      PROVE  \E i \in 1..Len(e) : e[i] = g
  <2>1. PICK j \in 1..Len(q) : q[j] = g
    BY <1>1, <1>7
  <2>2. g.at \in Nat
    BY DEF Grant
  <2>3. then - g.at <= w
    BY <1>7, <2>2
  <2> QED
    BY <1>3, <2>1, <2>3
<1> QED
  BY <1>2, <1>5, <1>6, <1>7 DEF FaithfulTo, e

LEMMA LaterFaithful ==
  ASSUME NEW q, NEW u, NEW G \in SUBSET Grant, NEW now \in Nat, NEW w \in Nat,
         NEW later \in Nat, now <= later, FaithfulTo(q, u, G, now, w)
  PROVE  FaithfulTo(q, u, G, later, w)
<1>1. ASSUME NEW g \in G, later - g.at <= w
      PROVE  now - g.at <= w
  <2>1. g.at \in Nat
    BY DEF Grant
  <2> QED
    BY <1>1, <2>1
<1>2. /\ q \in Seq(Grant) /\ Distinct(q)
      /\ \A i \in 1..Len(q) : q[i] \in G /\ q[i].user = u
      /\ \A g \in G : g.user = u /\ now - g.at <= w => \E i \in 1..Len(q) : q[i] = g
  BY DEF FaithfulTo
<1>3. \A g \in G : g.user = u /\ later - g.at <= w => \E i \in 1..Len(q) : q[i] = g
  BY <1>1, <1>2, Zenon
<1> QED
  BY <1>2, <1>3 DEF FaithfulTo

(* So does a commit, whose id is new.                                      *)
LEMMA AppendFaithful ==
  ASSUME NEW q, NEW u, NEW G \in SUBSET Grant, NEW now \in Nat, NEW w \in Nat,
         NEW new \in Grant, new.user = u, \A g \in G : g.id < new.id,
         FaithfulTo(q, u, G, now, w)
  PROVE  FaithfulTo(Append(q, new), u, G \cup {new}, now, w)
<1> DEFINE a == Append(q, new)
<1>1. /\ q \in Seq(Grant) /\ Distinct(q)
      /\ \A i \in 1..Len(q) : q[i] \in G /\ q[i].user = u
      /\ \A g \in G : g.user = u /\ now - g.at <= w => \E i \in 1..Len(q) : q[i] = g
  BY DEF FaithfulTo
<1>2. /\ a \in Seq(Grant) /\ Len(a) = Len(q) + 1
      /\ \A i \in 1..Len(q) : a[i] = q[i]
      /\ a[Len(q) + 1] = new
  BY <1>1, AppendSpec
<1> HIDE DEF a
<1>3. Len(q) \in Nat /\ 1..Len(a) = 1..Len(q) \cup {Len(q) + 1}
  BY <1>1, <1>2
<1>4. Distinct(a)
  <2> SUFFICES ASSUME NEW i \in 1..Len(a), NEW j \in 1..Len(a), i < j PROVE a[i].id < a[j].id
    BY DEF Distinct
  <2>1. i \in 1..Len(q)
    BY <1>3
  <2>2. CASE j \in 1..Len(q)
    BY <1>1, <1>2, <2>1, <2>2 DEF Distinct
  <2>3. CASE j = Len(q) + 1
    BY <1>1, <1>2, <2>1, <2>3
  <2> QED
    BY <1>3, <2>2, <2>3
<1>5. \A i \in 1..Len(a) : a[i] \in G \cup {new} /\ a[i].user = u
  BY <1>1, <1>2, <1>3
<1>6. \A g \in G \cup {new} : g.user = u /\ now - g.at <= w => \E i \in 1..Len(a) : a[i] = g
  BY <1>1, <1>2, <1>3
<1> QED
  BY <1>2, <1>4, <1>5, <1>6 DEF FaithfulTo, a

(* Another user's grants do not matter.                                    *)
LEMMA OthersFaithful ==
  ASSUME NEW q, NEW u, NEW G, NEW H, NEW now, NEW w, FaithfulTo(q, u, G, now, w),
         {g \in G : g.user = u} = {g \in H : g.user = u}
  PROVE  FaithfulTo(q, u, H, now, w)
<1>1. \A g : g.user = u => (g \in G <=> g \in H)
  OBVIOUS
<1> QED
  BY <1>1 DEF FaithfulTo

LEMMA EmptyFaithful ==
  ASSUME NEW u, NEW G, NEW now, NEW w, \A g \in G : g.user # u
  PROVE  FaithfulTo(<<>>, u, G, now, w)
BY DEF FaithfulTo, Distinct

-----------------------------------------------------------------------------
(* G and H have the same grants of every user but v.                       *)
SameForOthers(G, H, v) ==
  \A u \in Users \ {v} : {g \in G : g.user = u} = {g \in H : g.user = u}

(* A step on one user's deque leaves those of the others faithful.         *)
LEMMA OneFaithful ==
  ASSUME NEW qs, qs \in [Users -> Seq(Grant)], NEW v \in Users, NEW r,
         NEW G, NEW H, NEW now, NEW w,
         Faithful(qs, G, now, w), SameForOthers(G, H, v),
         FaithfulTo(r, v, H, now, w)
  PROVE  Faithful([qs EXCEPT ![v] = r], H, now, w)
<1> DEFINE rs == [qs EXCEPT ![v] = r]
<1>1. rs[v] = r /\ \A u \in Users \ {v} : rs[u] = qs[u]
  OBVIOUS
<1> HIDE DEF rs
<1>2. ASSUME NEW u \in Users PROVE FaithfulTo(rs[u], u, H, now, w)
  <2>1. CASE u = v
    BY <1>1, <2>1
  <2>2. CASE u # v
    <3>1. rs[u] = qs[u] /\ {g \in G : g.user = u} = {g \in H : g.user = u}
      BY <1>1, <2>2 DEF SameForOthers
    <3>2. FaithfulTo(qs[u], u, G, now, w)
      BY DEF Faithful
    <3> QED
      BY <3>1, <3>2, OthersFaithful
  <2> QED
    BY <2>1, <2>2
<1> QED
  BY <1>2 DEF Faithful, rs

-----------------------------------------------------------------------------
(* The deques of both windows are faithful to the grants, which are        *)
(* finitely many; RequestInv gives the types, the ids and the clocks.      *)
LedgerInv ==
  /\ RequestInv
  /\ IsFiniteSet(grants)
  /\ Faithful(reqTs, grants, clock, ReqWindow)
  /\ Faithful(tokTs, grants, clock, TokWindow)
  /\ TokensWithinLimit

LEMMA LedgerTypes ==
  ASSUME LedgerInv
  PROVE  /\ grants \in SUBSET Grant /\ clock \in Nat /\ granted \in Nat
         /\ ReqWindow \in Nat /\ TokWindow \in Nat
         /\ reqTs \in [Users -> Seq(Grant)] /\ tokTs \in [Users -> Seq(Grant)]
         /\ \A c \in pending : /\ c.user \in Users /\ c.now \in Nat /\ c.now <= clock
                               /\ c.policy \in Policies /\ c.tokens \in Nat
         /\ \A r \in readers : r.user \in Users /\ r.now \in Nat /\ r.now <= clock
         /\ \A p \in Policies : MaxRequests[p] \in Nat /\ MaxTokens[p] \in Nat
  BY LimitsAssumption DEF LedgerInv, RequestInv, TypeOK, CallsInPast, Call, Reader

LEMMA LedgerStart == Init => LedgerInv
<1> SUFFICES ASSUME Init PROVE LedgerInv
  OBVIOUS
<1>1. \A u \in Users : \A now, w : FaithfulTo(<<>>, u, {}, now, w)
  BY EmptyFaithful
<1>2. RequestInv /\ grants = {}
  BY InitInv DEF Init
<1>3. /\ Faithful(reqTs, grants, clock, ReqWindow)
      /\ Faithful(tokTs, grants, clock, TokWindow)
  BY <1>1 DEF Init, Faithful
<1>4. IsFiniteSet(grants)
  BY <1>2, FS_EmptySet
<1> QED
  BY <1>2, <1>3, <1>4 DEF LedgerInv, TokensWithinLimit

(* Neither reading the clock nor its ticking touches a grant.              *)
LEMMA QuietLedger ==
  ASSUME LedgerInv, RequestInv', UNCHANGED <<reqTs, tokTs, grants>>, clock <= clock'
  PROVE  LedgerInv'
<1>1. clock' \in Nat
  BY DEF RequestInv, TypeOK
<1>2. /\ Faithful(reqTs, grants, clock', ReqWindow)
      /\ Faithful(tokTs, grants, clock', TokWindow)
  BY <1>1, LedgerTypes, LaterFaithful DEF LedgerInv, Faithful
<1> QED
  BY <1>2 DEF LedgerInv, TokensWithinLimit

LEMMA ResetLedger ==
  ASSUME LedgerInv, RequestInv', NEW u \in Users, Reset(u)
  PROVE  LedgerInv'
<1> DEFINE H == {g \in grants : g.user # u}
<1>1. /\ grants' = H /\ clock' = clock
      /\ reqTs' = [reqTs EXCEPT ![u] = <<>>] /\ tokTs' = [tokTs EXCEPT ![u] = <<>>]
  BY DEF Reset
<1>2. \A now, w : FaithfulTo(<<>>, u, H, now, w)
  BY EmptyFaithful
<1>3. SameForOthers(grants, H, u)
  BY DEF SameForOthers
<1>4. IsFiniteSet(H)
  BY FS_Subset DEF LedgerInv
<1> HIDE DEF H
<1>5. Faithful([reqTs EXCEPT ![u] = <<>>], H, clock, ReqWindow)
  BY <1>2, <1>3, LedgerTypes, OneFaithful DEF LedgerInv
<1>6. Faithful([tokTs EXCEPT ![u] = <<>>], H, clock, TokWindow)
  BY <1>2, <1>3, LedgerTypes, OneFaithful DEF LedgerInv
<1>7. TokensWithinLimit'
  <2> SUFFICES ASSUME NEW g \in H
               PROVE  Abstract!SumTokens(Abstract!Window(H, g, TokWindow)) <= MaxTokens[g.policy]
    BY <1>1 DEF TokensWithinLimit
  <2>1. g \in grants /\ Abstract!Window(H, g, TokWindow) = Abstract!Window(grants, g, TokWindow)
    BY DEF Abstract!Window, H
  <2> QED
    BY <2>1 DEF LedgerInv, TokensWithinLimit
<1> QED
  BY <1>1, <1>4, <1>5, <1>6, <1>7 DEF LedgerInv

LEMMA QueuesFaithful ==
  ASSUME LedgerInv, NEW c \in pending
  PROVE  /\ FaithfulTo(ReqQueue(c), c.user, grants, clock, ReqWindow)
         /\ FaithfulTo(TokQueue(c), c.user, grants, clock, TokWindow)
BY LedgerTypes, EvictFaithful DEF LedgerInv, Faithful, ReqQueue, TokQueue

LEMMA ObserveLedger ==
  ASSUME LedgerInv, RequestInv', NEW c \in pending, ObserveOnly(c)
  PROVE  LedgerInv'
<1>1. /\ grants' = grants /\ clock' = clock
      /\ reqTs' = [reqTs EXCEPT ![c.user] = ReqQueue(c)]
      /\ tokTs' = [tokTs EXCEPT ![c.user] = TokQueue(c)]
  BY DEF ObserveOnly
<1>0. SameForOthers(grants, grants, c.user)
  BY DEF SameForOthers
<1>2. Faithful([reqTs EXCEPT ![c.user] = ReqQueue(c)], grants, clock, ReqWindow)
  BY <1>0, QueuesFaithful, LedgerTypes, OneFaithful DEF LedgerInv
<1>3. Faithful([tokTs EXCEPT ![c.user] = TokQueue(c)], grants, clock, TokWindow)
  BY <1>0, QueuesFaithful, LedgerTypes, OneFaithful DEF LedgerInv
<1> QED
  BY <1>1, <1>2, <1>3 DEF LedgerInv, TokensWithinLimit

LEMMA NewGrant ==
  ASSUME LedgerInv, NEW c \in pending
  PROVE  /\ GrantOf(c) \in Grant /\ GrantOf(c).user = c.user
         /\ GrantOf(c).at = c.now /\ GrantOf(c).when = clock
         /\ GrantOf(c).tokens = c.tokens /\ GrantOf(c).policy = c.policy
         /\ \A g \in grants : g.id < GrantOf(c).id
<1>1. GrantOf(c) \in Grant /\ GrantOf(c).id = granted + 1
  BY GrantOfType DEF LedgerInv, RequestInv
<1>2. \A g \in grants : g.id \in Nat /\ g.id <= granted
  BY LedgerTypes DEF LedgerInv, RequestInv, IdsKnown, Grant
<1>3. \A g \in grants : g.id < GrantOf(c).id
  BY <1>1, <1>2, LedgerTypes
<1> QED
  BY <1>1, <1>3 DEF GrantOf

(* What check() sums is the tokens of the entries it has left.             *)
LEMMA QueueTokensSum ==
  ASSUME LedgerInv, NEW c \in pending
  PROVE  LET E == Entries(TokQueue(c), 1..Len(TokQueue(c)))
         IN  /\ QueueTokens(TokQueue(c)) = Abstract!SumTokens(E)
             /\ E \in SUBSET grants /\ IsFiniteSet(E)
             /\ \A g \in E : g.user = c.user
             /\ \A g \in grants : g.user = c.user /\ clock - g.at <= TokWindow => g \in E
<1> DEFINE q == TokQueue(c)
           E == Entries(q, 1..Len(q))
<1>1. /\ q \in Seq(Grant) /\ Distinct(q)
      /\ \A i \in 1..Len(q) : q[i] \in grants /\ q[i].user = c.user
      /\ \A g \in grants : g.user = c.user /\ clock - g.at <= TokWindow =>
           \E i \in 1..Len(q) : q[i] = g
  BY QueuesFaithful DEF FaithfulTo
<1> HIDE DEF q
<1>2. QueueTokens(q) = QueueSum(q, 1..Len(q))
  <2>1. DOMAIN q = 1..Len(q)
    BY <1>1
  <2> QED
    BY <2>1 DEF QueueTokens, QueueSum
<1>3. QueueSum(q, 1..Len(q)) = Abstract!SumTokens(E) /\ IsFiniteSet(E)
  BY <1>1, QueueEntries
<1>4. /\ E \in SUBSET grants
      /\ \A g \in E : g.user = c.user
      /\ \A g \in grants : g.user = c.user /\ clock - g.at <= TokWindow => g \in E
  BY <1>1 DEF Entries
<1> QED
  BY <1>2, <1>3, <1>4 DEF q

(* A commit: the grants that share the hour with the new one are among the *)
(* entries that check() has just summed.                                   *)
LEMMA CommitTokens ==
  ASSUME LedgerInv, NEW c \in pending, CheckCommits(c)
  PROVE  Abstract!SumTokens(Abstract!Window(grants \cup {GrantOf(c)}, GrantOf(c), TokWindow))
           <= MaxTokens[c.policy]
<1> DEFINE new == GrantOf(c)
           E == Entries(TokQueue(c), 1..Len(TokQueue(c)))
           W == Abstract!Window(grants \cup {new}, new, TokWindow)
<1>1. /\ new \in Grant /\ new.user = c.user /\ new.when = clock /\ new.tokens = c.tokens
      /\ \A g \in grants : g.id < new.id
  BY NewGrant
<1>2. /\ QueueTokens(TokQueue(c)) = Abstract!SumTokens(E)
      /\ E \in SUBSET grants /\ IsFiniteSet(E)
      /\ \A g \in grants : g.user = c.user /\ clock - g.at <= TokWindow => g \in E
  BY QueueTokensSum
<1> HIDE DEF new, E
<1>3. W \in SUBSET (E \cup {new})
  BY <1>1, <1>2 DEF Abstract!Window
<1> HIDE DEF W
<1>4. new \notin E
  <2> SUFFICES ASSUME new \in E PROVE FALSE
    OBVIOUS
  <2>1. new.id < new.id /\ new.id \in Nat
    BY <1>1, <1>2 DEF Grant
  <2> QED
    BY <2>1
<1>5. E \in SUBSET Grant /\ E \cup {new} \in SUBSET Grant /\ IsFiniteSet(E \cup {new})
  BY <1>1, <1>2, LedgerTypes, FS_AddElement
<1>6. Abstract!SumTokens(E \cup {new}) = Abstract!SumTokens(E) + new.tokens
  BY <1>1, <1>2, <1>4, <1>5, SumAdd
<1>7. Abstract!SumTokens(W) <= Abstract!SumTokens(E \cup {new})
  BY <1>3, <1>5, SumMonotone
<1>8. /\ Abstract!SumTokens(W) \in Nat /\ Abstract!SumTokens(E) \in Nat
      /\ new.tokens \in Nat /\ MaxTokens[c.policy] \in Nat
  <2>1. IsFiniteSet(W) /\ W \in SUBSET Grant
    BY <1>3, <1>5, FS_Subset
  <2> QED
    BY <1>1, <1>2, <1>5, <2>1, SumType, LedgerTypes
<1>9. Abstract!SumTokens(E) + new.tokens <= MaxTokens[c.policy]
  <2>1. ~(Abstract!SumTokens(E) + new.tokens > MaxTokens[c.policy])
    BY <1>1, <1>2 DEF CheckCommits, TokensExceeded
  <2> QED
    BY <1>8, <2>1
<1>10. Abstract!SumTokens(W) <= MaxTokens[c.policy]
  BY <1>6, <1>7, <1>8, <1>9
<1> QED
  BY <1>10 DEF W, new

LEMMA CommitLedger ==
  ASSUME LedgerInv, RequestInv', NEW c \in pending, CheckCommits(c)
  PROVE  LedgerInv'
<1> DEFINE new == GrantOf(c)
<1>1. /\ grants' = grants \cup {new} /\ clock' = clock
      /\ reqTs' = [reqTs EXCEPT ![c.user] = Append(ReqQueue(c), new)]
      /\ tokTs' = [tokTs EXCEPT ![c.user] = Append(TokQueue(c), new)]
  BY DEF CheckCommits
<1>2. /\ new \in Grant /\ new.user = c.user /\ new.policy = c.policy
      /\ \A g \in grants : g.id < new.id
  BY NewGrant
<1>3. Abstract!SumTokens(Abstract!Window(grants \cup {new}, new, TokWindow)) <= MaxTokens[c.policy]
  BY CommitTokens
<1> HIDE DEF new
<1>4. SameForOthers(grants, grants \cup {new}, c.user)
  BY <1>2 DEF SameForOthers
<1>5. /\ FaithfulTo(Append(ReqQueue(c), new), c.user, grants \cup {new}, clock, ReqWindow)
      /\ FaithfulTo(Append(TokQueue(c), new), c.user, grants \cup {new}, clock, TokWindow)
  BY <1>2, QueuesFaithful, LedgerTypes, AppendFaithful
<1>6. Faithful([reqTs EXCEPT ![c.user] = Append(ReqQueue(c), new)],
               grants \cup {new}, clock, ReqWindow)
  BY <1>4, <1>5, LedgerTypes, OneFaithful DEF LedgerInv
<1>7. Faithful([tokTs EXCEPT ![c.user] = Append(TokQueue(c), new)],
               grants \cup {new}, clock, TokWindow)
  BY <1>4, <1>5, LedgerTypes, OneFaithful DEF LedgerInv
<1>8. IsFiniteSet(grants \cup {new})
  BY FS_AddElement DEF LedgerInv
<1>9. TokensWithinLimit'
  <2>1. ASSUME NEW g \in grants
        PROVE  Abstract!SumTokens(Abstract!Window(grants \cup {new}, g, TokWindow))
                 <= MaxTokens[g.policy]
    <3>1. ~(new.id <= g.id)
      BY <1>2, LedgerTypes DEF Grant
    <3>2. Abstract!Window(grants \cup {new}, g, TokWindow) = Abstract!Window(grants, g, TokWindow)
      BY <3>1 DEF Abstract!Window
    <3> QED
      BY <3>2 DEF LedgerInv, TokensWithinLimit
  <2> QED
    BY <1>1, <1>2, <1>3, <2>1 DEF TokensWithinLimit
<1> QED
  BY <1>1, <1>6, <1>7, <1>8, <1>9 DEF LedgerInv

LEMMA LedgerStep ==
  ASSUME LedgerInv, [Next]_vars
  PROVE  LedgerInv'
<1>1. RequestInv'
  BY RequestStep DEF LedgerInv
<1>2. ASSUME NEW t \in Threads, NEW kind \in {"check", "peek"}, NEW u \in Users,
             NEW n \in TokenCounts, NEW p \in Policies, Begin(t, kind, u, n, p)
      PROVE  LedgerInv'
  BY <1>1, <1>2, LedgerTypes, QuietLedger DEF Begin
<1>3. CASE Tick
  <2>1. clock <= clock'
    BY <1>3, LedgerTypes DEF Tick
  <2> QED
    BY <1>1, <1>3, <2>1, QuietLedger DEF Tick
<1>4. ASSUME \/ \E t \in Threads, u \in Users : BeginUsage(t, u)
             \/ \E r \in readers : AnswerUsage(r)
      PROVE  LedgerInv'
  BY <1>1, <1>4, LedgerTypes, QuietLedger DEF BeginUsage, AnswerUsage
<1>5. CASE UNCHANGED vars
  <2>1. clock <= clock'
    BY <1>5, LedgerTypes DEF vars
  <2> QED
    BY <1>1, <1>5, <2>1, QuietLedger DEF vars
<1> QED
  BY <1>1, <1>2, <1>3, <1>4, <1>5, CommitLedger, ObserveLedger, ResetLedger DEF Next

LEMMA LedgerInvariant == Spec => []LedgerInv
  BY LedgerStart, LedgerStep, PTL DEF Spec

-----------------------------------------------------------------------------
(* However long a thread waits for the lock with a stale clock reading, a  *)
(* committed request and those committed in the hour before it stay within *)
(* the token limit it was checked against (rate_limiter.py:59-94).         *)
THEOREM TokenLimit == Spec => []TokensWithinLimit
<1>1. LedgerInv => TokensWithinLimit
  BY DEF LedgerInv
<1> QED
  BY <1>1, LedgerInvariant, PTL

-----------------------------------------------------------------------------
LiveAt(q, now, w) == {i \in DOMAIN q : now - q[i].at <= w}
LiveOf(G, u, now, w) == {g \in G : g.user = u /\ now - g.at <= w}

(* What get_usage() counts of a faithful deque with an old reading lies    *)
(* between the user's grants that count now and those that counted then.   *)
LEMMA LiveEntries ==
  ASSUME NEW q, NEW u, NEW G \in SUBSET Grant, IsFiniteSet(G), NEW now \in Nat, NEW w \in Nat,
         NEW then \in Nat, then <= now, FaithfulTo(q, u, G, now, w)
  PROVE  /\ Cardinality(LiveOf(G, u, now, w)) <= Cardinality(LiveAt(q, then, w))
         /\ Cardinality(LiveAt(q, then, w)) <= Cardinality(LiveOf(G, u, then, w))
         /\ Abstract!SumTokens(LiveOf(G, u, now, w)) <= QueueSum(q, LiveAt(q, then, w))
         /\ QueueSum(q, LiveAt(q, then, w)) <= Abstract!SumTokens(LiveOf(G, u, then, w))
<1> DEFINE I == LiveAt(q, then, w)
           E == Entries(q, I)
           Now == LiveOf(G, u, now, w)
           Then == LiveOf(G, u, then, w)
<1>1. /\ q \in Seq(Grant) /\ Distinct(q)
      /\ \A i \in 1..Len(q) : q[i] \in G /\ q[i].user = u
      /\ \A g \in G : g.user = u /\ now - g.at <= w => \E i \in 1..Len(q) : q[i] = g
  BY DEF FaithfulTo
<1>2. DOMAIN q = 1..Len(q)
  BY <1>1
<1>3. I \in SUBSET (1..Len(q))
  BY <1>2 DEF LiveAt
<1>4. E \in SUBSET Then
  BY <1>1, <1>2 DEF Entries, LiveAt, LiveOf
<1>5. Now \in SUBSET E
  <2> SUFFICES ASSUME NEW g \in Now PROVE g \in E
    OBVIOUS
  <2>1. g \in G /\ g.user = u /\ now - g.at <= w
    BY DEF LiveOf
  <2>2. PICK i \in 1..Len(q) : q[i] = g
    BY <1>1, <2>1
  <2>3. g.at \in Nat
    BY <2>1 DEF Grant
  <2>4. then - g.at <= w
    BY <2>1, <2>3
  <2>5. i \in I
    BY <1>2, <2>2, <2>4 DEF LiveAt
  <2> QED
    BY <2>2, <2>5 DEF Entries
<1>6. Then \in SUBSET Grant /\ IsFiniteSet(Then)
  BY FS_Subset DEF LiveOf
<1> HIDE DEF I, Now, Then
<1>7. Cardinality(I) = Cardinality(E) /\ QueueSum(q, I) = Abstract!SumTokens(E)
  BY <1>1, <1>3, QueueEntries
<1> HIDE DEF E
<1>8. E \in SUBSET Grant /\ IsFiniteSet(E)
  BY <1>4, <1>6, FS_Subset
<1>9. /\ Cardinality(Now) <= Cardinality(E) /\ Cardinality(E) <= Cardinality(Then)
      /\ Abstract!SumTokens(Now) <= Abstract!SumTokens(E)
      /\ Abstract!SumTokens(E) <= Abstract!SumTokens(Then)
  BY <1>4, <1>5, <1>6, <1>8, FS_Subset, SumMonotone
<1> QED
  BY <1>7, <1>9 DEF I, Now, Then

(* Whatever other threads have evicted or committed since get_usage() read *)
(* the clock (rate_limiter.py:159), what it reports under the lock misses  *)
(* no grant that still counts and holds none that had expired at its       *)
(* reading (160-165).                                                      *)
THEOREM UsageIsTrue == Spec => []UsageMatchesLedger
<1>1. LedgerInv => UsageMatchesLedger
  <2> SUFFICES ASSUME LedgerInv, NEW r \in readers
               PROVE  LET used == Usage(r.user, r.now)
                      IN  /\ Cardinality(LiveGrants(r.user, clock, ReqWindow)) <= used.requests
                          /\ used.requests <= Cardinality(LiveGrants(r.user, r.now, ReqWindow))
                          /\ Abstract!SumTokens(LiveGrants(r.user, clock, TokWindow)) <= used.tokens
                          /\ used.tokens <= Abstract!SumTokens(LiveGrants(r.user, r.now, TokWindow))
    BY DEF UsageMatchesLedger
  <2> DEFINE I == LiveAt(reqTs[r.user], r.now, ReqWindow)
             J == LiveAt(tokTs[r.user], r.now, TokWindow)
  <2>1. r.user \in Users /\ r.now \in Nat /\ r.now <= clock
    BY LedgerTypes
  <2>2. /\ FaithfulTo(reqTs[r.user], r.user, grants, clock, ReqWindow)
        /\ FaithfulTo(tokTs[r.user], r.user, grants, clock, TokWindow)
    BY <2>1 DEF LedgerInv, Faithful
  <2>3. IsFiniteSet(grants) /\ grants \in SUBSET Grant /\ clock \in Nat
        /\ ReqWindow \in Nat /\ TokWindow \in Nat
    BY LedgerTypes DEF LedgerInv
  <2>4. \A now, w : LiveOf(grants, r.user, now, w) = LiveGrants(r.user, now, w)
    BY DEF LiveGrants, LiveOf
  <2>5. /\ Cardinality(LiveOf(grants, r.user, clock, ReqWindow)) <= Cardinality(I)
        /\ Cardinality(I) <= Cardinality(LiveOf(grants, r.user, r.now, ReqWindow))
    BY <2>1, <2>2, <2>3, LiveEntries
  <2>6. /\ Abstract!SumTokens(LiveOf(grants, r.user, clock, TokWindow)) <= QueueSum(tokTs[r.user], J)
        /\ QueueSum(tokTs[r.user], J) <= Abstract!SumTokens(LiveOf(grants, r.user, r.now, TokWindow))
    BY <2>1, <2>2, <2>3, LiveEntries
  <2>7. Usage(r.user, r.now) = [requests |-> Cardinality(I), tokens |-> QueueSum(tokTs[r.user], J)]
    BY DEF Usage, QueueSum, LiveAt
  <2> HIDE DEF I, J
  <2> QED
    BY <2>4, <2>5, <2>6, <2>7
<1> QED
  BY <1>1, LedgerInvariant, PTL

-----------------------------------------------------------------------------
(* When the stamps of a deque are in order, an eviction leaves live        *)
(* entries only, each a grant of the user.                                 *)
LEMMA OrderedEviction ==
  ASSUME NEW q, NEW u, NEW G \in SUBSET Grant, NEW now, NEW w \in Nat, NEW then \in Nat,
         FaithfulTo(q, u, G, now, w), InOrder(q)
  PROVE  \A i \in 1..Len(Evict(q, then, w)) :
           LET g == Evict(q, then, w)[i] IN g \in G /\ g.user = u /\ then - g.at <= w
<1> DEFINE e == Evict(q, then, w)
<1>1. q \in Seq(Grant) /\ \A i \in 1..Len(q) : q[i] \in G /\ q[i].user = u
  BY DEF FaithfulTo
<1>2. PICK k \in 1..Len(q) + 1 :
        /\ k <= Len(q) => then - q[k].at <= w
        /\ e \in Seq(Grant) /\ Len(e) = Len(q) - k + 1
        /\ \A i \in 1..Len(q) - k + 1 : e[i] = q[k + i - 1]
  BY <1>1, EvictShape, Zenon
<1> HIDE DEF e
<1>3. ASSUME NEW i \in 1..Len(e)
      PROVE  e[i] \in G /\ e[i].user = u /\ then - e[i].at <= w
  <2>1. /\ Len(q) \in Nat /\ k \in 1..Len(q) /\ k + i - 1 \in 1..Len(q) /\ k <= k + i - 1
        /\ e[i] = q[k + i - 1]
    BY <1>1, <1>2
  <2>2. q[k].at \in Nat /\ q[k + i - 1].at \in Nat
    BY <1>1, <2>1, EntryType
  <2>3. DOMAIN q = 1..Len(q)
    BY <1>1
  <2>4. q[k].at <= q[k + i - 1].at
    <3>1. CASE k = k + i - 1
      BY <2>2, <3>1
    <3>2. CASE k < k + i - 1
      BY <2>1, <2>3, <3>2 DEF InOrder
    <3> QED
      BY <2>1, <3>1, <3>2
  <2>5. then - q[k].at <= w
    BY <1>2, <2>1
  <2>6. then - q[k + i - 1].at <= w
    BY <2>2, <2>4, <2>5
  <2> QED
    BY <1>1, <2>1, <2>6
<1> QED
  BY <1>3 DEF e

(* A request is refused only for quota in use: when its user's stamps are  *)
(* in order, the grants of the window that ends at the request fill the    *)
(* limit it ran into (rate_limiter.py:47-94).                              *)
THEOREM RefusalsAreJust == Spec => []DenialJustified
<1>1. ASSUME LedgerInv, NEW c \in pending, InOrder(reqTs[c.user]), RequestsExceeded(c)
      PROVE  Cardinality(LiveGrants(c.user, c.now, ReqWindow)) >= MaxRequests[c.policy]
  <2> DEFINE q == ReqQueue(c)
             E == Entries(q, 1..Len(q))
             L == LiveGrants(c.user, c.now, ReqWindow)
  <2>1. q \in Seq(Grant) /\ Distinct(q) /\ Len(q) \in Nat
    BY <1>1, QueuesFaithful DEF FaithfulTo
  <2>2. \A i \in 1..Len(q) : q[i] \in L
    <3>1. FaithfulTo(reqTs[c.user], c.user, grants, clock, ReqWindow)
      BY <1>1, LedgerTypes DEF LedgerInv, Faithful
    <3>2. \A i \in 1..Len(q) : q[i] \in grants /\ q[i].user = c.user /\ c.now - q[i].at <= ReqWindow
      BY <1>1, <3>1, LedgerTypes, OrderedEviction DEF ReqQueue
    <3> QED
      BY <3>2 DEF LiveGrants
  <2> HIDE DEF q
  <2>3. E \in SUBSET L
    BY <2>2 DEF Entries
  <2>4. IsFiniteSet(L)
    BY <1>1, FS_Subset DEF LedgerInv, LiveGrants
  <2>5. Cardinality(1..Len(q)) = Len(q)
    <3>1. Cardinality(1..Len(q)) = IF 1 > Len(q) THEN 0 ELSE Len(q) - 1 + 1
      BY <2>1, FS_Interval
    <3> QED
      BY <2>1, <3>1
  <2>6. Cardinality(E) = Len(q)
    BY <2>1, <2>5, QueueEntries
  <2> HIDE DEF E, L
  <2>7. Cardinality(E) <= Cardinality(L) /\ Cardinality(L) \in Nat
    BY <2>3, <2>4, FS_Subset, FS_CardinalityType
  <2>8. Len(q) >= MaxRequests[c.policy] /\ MaxRequests[c.policy] \in Nat
    BY <1>1, LedgerTypes DEF RequestsExceeded, q
  <2>9. Cardinality(L) >= MaxRequests[c.policy]
    BY <2>1, <2>6, <2>7, <2>8
  <2> QED
    BY <2>9 DEF L
<1>2. ASSUME LedgerInv, NEW c \in pending, InOrder(tokTs[c.user]), TokensExceeded(c)
      PROVE  Abstract!SumTokens(LiveGrants(c.user, c.now, TokWindow)) + c.tokens
               > MaxTokens[c.policy]
  <2> DEFINE q == TokQueue(c)
             E == Entries(q, 1..Len(q))
             L == LiveGrants(c.user, c.now, TokWindow)
  <2>1. q \in Seq(Grant) /\ Distinct(q) /\ Len(q) \in Nat
    BY <1>2, QueuesFaithful DEF FaithfulTo
  <2>2. \A i \in 1..Len(q) : q[i] \in L
    <3>1. FaithfulTo(tokTs[c.user], c.user, grants, clock, TokWindow)
      BY <1>2, LedgerTypes DEF LedgerInv, Faithful
    <3>2. \A i \in 1..Len(q) : q[i] \in grants /\ q[i].user = c.user /\ c.now - q[i].at <= TokWindow
      BY <1>2, <3>1, LedgerTypes, OrderedEviction DEF TokQueue
    <3> QED
      BY <3>2 DEF LiveGrants
  <2>3. QueueTokens(q) = Abstract!SumTokens(E) /\ IsFiniteSet(E)
    BY <1>2, QueueTokensSum
  <2> HIDE DEF q
  <2>4. E \in SUBSET L
    BY <2>2 DEF Entries
  <2>5. IsFiniteSet(L) /\ L \in SUBSET Grant
    BY <1>2, FS_Subset, LedgerTypes DEF LedgerInv, LiveGrants
  <2> HIDE DEF E, L
  <2>6. Abstract!SumTokens(E) <= Abstract!SumTokens(L)
    BY <2>4, <2>5, SumMonotone
  <2>7. /\ Abstract!SumTokens(E) \in Nat /\ Abstract!SumTokens(L) \in Nat
        /\ c.tokens \in Nat /\ MaxTokens[c.policy] \in Nat
    BY <1>2, <2>3, <2>4, <2>5, SumType, LedgerTypes
  <2>8. Abstract!SumTokens(E) + c.tokens > MaxTokens[c.policy]
    BY <1>2, <2>3 DEF TokensExceeded, q
  <2>9. Abstract!SumTokens(L) + c.tokens > MaxTokens[c.policy]
    BY <2>6, <2>7, <2>8
  <2> QED
    BY <2>9 DEF L
<1>3. LedgerInv => DenialJustified
  BY <1>1, <1>2 DEF DenialJustified
<1> QED
  BY <1>3, LedgerInvariant, PTL

-----------------------------------------------------------------------------
(* The limiter, with its deques, its stale clock readings and its two-step *)
(* calls, is the sliding window: every commit is an allowed grant, a reset *)
(* forgets a user, and the rest is a tick or nothing (rate_limiter.py).    *)
THEOREM LimiterIsSlidingWindow == Spec => ImplementsSlidingWindow
<1>1. Init => Abstract!Init
  BY DEF Init, Abstract!Init
<1>2. LedgerInv /\ LedgerInv' /\ [Next]_vars => [Abstract!Next]_(Abstract!vars)
  <2> SUFFICES ASSUME LedgerInv, LedgerInv', [Next]_vars
               PROVE  Abstract!Next \/ UNCHANGED Abstract!vars
    OBVIOUS
  <2>1. ASSUME NEW c \in pending, CheckCommits(c)
        PROVE  Abstract!Next
    <3> DEFINE new == GrantOf(c)
    <3>1. /\ new \in Grant /\ new.at = c.now /\ new.when = clock
          /\ \A g \in grants : g.id < new.id
      BY NewGrant
    <3>2. grants' = grants \cup {new} /\ clock' = clock
      BY <2>1 DEF CheckCommits
    <3> HIDE DEF new
    <3>3. new \in grants' \ grants
      <4>1. ~(new.id < new.id)
        BY <3>1 DEF Grant
      <4> QED
        BY <3>1, <3>2, <4>1
    <3>4. Abstract!WithinLimits(grants \cup {new}, new)
      <4>1. Cardinality(Abstract!Window(grants', new, ReqWindow)) <= MaxRequests[new.policy]
        BY <3>3 DEF LedgerInv, RequestInv, RequestsWithinLimit
      <4>2. Abstract!SumTokens(Abstract!Window(grants', new, TokWindow)) <= MaxTokens[new.policy]
        BY <3>3 DEF LedgerInv, TokensWithinLimit
      <4> QED
        BY <3>2, <4>1, <4>2 DEF Abstract!WithinLimits, Cardinality, Abstract!Cardinality
    <3>5. new.at <= clock
      BY <3>1, LedgerTypes
    <3>6. Abstract!Allow(new)
      BY <3>1, <3>2, <3>4, <3>5 DEF Abstract!Allow, Grant, Abstract!Grant
    <3> QED
      BY <3>3, <3>6 DEF Abstract!Next
  <2>2. ASSUME NEW u \in Users, Reset(u)
        PROVE  Abstract!Next
    BY <2>2 DEF Reset, Abstract!Next, Abstract!Forget
  <2>3. CASE Tick
    BY <2>3 DEF Tick, Abstract!Next, Abstract!Tick
  <2>4. ASSUME NEW c \in pending, ObserveOnly(c)
        PROVE  UNCHANGED Abstract!vars
    BY <2>4 DEF ObserveOnly, Abstract!vars
  <2>5. ASSUME NEW t, NEW kind, NEW u, NEW n, NEW p, Begin(t, kind, u, n, p)
        PROVE  UNCHANGED Abstract!vars
    BY <2>5 DEF Begin, Abstract!vars
  <2>6. ASSUME \/ \E t \in Threads, u \in Users : BeginUsage(t, u)
               \/ \E r \in readers : AnswerUsage(r)
        PROVE  UNCHANGED Abstract!vars
    BY <2>6 DEF BeginUsage, AnswerUsage, Abstract!vars
  <2>7. CASE UNCHANGED vars
    BY <2>7 DEF vars, Abstract!vars
  <2> QED
    BY <2>1, <2>2, <2>3, <2>4, <2>5, <2>6, <2>7 DEF Next
<1> QED
  BY <1>1, <1>2, LedgerInvariant, PTL DEF Spec, ImplementsSlidingWindow, Abstract!Spec
=============================================================================
