----------------------------- MODULE RateLimiter -----------------------------
(***************************************************************************)
(* RateLimiter of sentinel/sync_guards/rate_limiter.py: two sliding        *)
(* windows per user, shared by every run.  check(), peek() and get_usage() *)
(* read time.monotonic() BEFORE they take the lock, so a call is two       *)
(* steps: the clock reading and the critical section.  One thread models   *)
(* the event loop on which Sentinel calls the limiter; several threads     *)
(* model the use the class documents ("Thread-safe sliding-window rate     *)
(* limiter").                                                              *)
(***************************************************************************)
EXTENDS Integers, Sequences, FiniteSetsExt

CONSTANTS Users, Threads,
          Policies,      \* the rate_limit sections a call may be checked under
          Enabled,       \* those with rate_limit.enabled
          MaxRequests,   \* max_requests_per_minute of each
          MaxTokens,     \* max_tokens_per_hour of each
          TokenCounts,   \* the token estimates a request may have
          ReqWindow,     \* _REQ_WINDOW_S, in ticks
          TokWindow,     \* _TOKEN_WINDOW_S, in ticks
          MaxClock,      \* bound of the model: ticks
          MaxGrants      \* bound of the model: committed requests

ASSUME LimitsAssumption ==
  /\ Enabled \subseteq Policies
  /\ MaxRequests \in [Policies -> Nat \ {0}]
  /\ MaxTokens \in [Policies -> Nat \ {0}]
  /\ TokenCounts \subseteq Nat \ {0}
  /\ ReqWindow \in Nat /\ TokWindow \in Nat
  /\ MaxClock \in Nat /\ MaxGrants \in Nat

VARIABLES clock,     \* time.monotonic()
          reqTs,     \* _req_ts: user -> deque
          tokTs,     \* _tok_ts: user -> deque
          pending,   \* checks that have read the clock and wait for the lock
          readers,   \* the same of get_usage()
          grants,    \* history: the requests committed and not reset
          granted    \* history: how many were ever committed

vars == <<clock, reqTs, tokTs, pending, readers, grants, granted>>

(* A deque entry is the timestamp (and the tokens) the code stores; the    *)
(* entry of the model is the whole grant, which tells apart two entries    *)
(* with equal stamps, as two places of the code's deque do.                *)
Grant == [id: Nat, user: Users, at: Nat, when: Nat, tokens: Nat, policy: Policies]

Call == [thread: Threads, kind: {"check", "peek"}, user: Users, tokens: Nat,
         policy: Policies, now: Nat]

Reader == [thread: Threads, user: Users, now: Nat]

-----------------------------------------------------------------------------
(* Seeded fault: entries exactly one window old are evicted too.           *)
FirstLiveInclusive(q, now, w) ==
  CHOOSE k \in 1..Len(q) + 1 :
    /\ \A j \in 1..k - 1 : now - q[j].at >= w
    /\ k <= Len(q) => now - q[k].at < w

(* popleft while the FRONT entry is expired: what stands behind a live     *)
(* entry stays, expired or not.                                            *)
FirstLive(q, now, w) ==
  CHOOSE k \in 1..Len(q) + 1 :
    /\ \A j \in 1..k - 1 : now - q[j].at > w
    /\ k <= Len(q) => now - q[k].at <= w

Evict(q, now, w) == SubSeq(q, FirstLive(q, now, w), Len(q))

ReqQueue(c) == Evict(reqTs[c.user], c.now, ReqWindow)
TokQueue(c) == Evict(tokTs[c.user], c.now, TokWindow)

QueueTokens(q) == MapThenSumSet(LAMBDA i : q[i].tokens, DOMAIN q)

(* Seeded faults: an off-by-one; the length taken before the eviction.     *)
RequestsOver(c) == Len(ReqQueue(c)) > MaxRequests[c.policy]

RequestsExceededUnevicted(c) == Len(reqTs[c.user]) >= MaxRequests[c.policy]

RequestsExceeded(c) == Len(ReqQueue(c)) >= MaxRequests[c.policy]

(* Seeded fault: the tokens of the request itself are not counted.         *)
TokensExceededBefore(c) == QueueTokens(TokQueue(c)) > MaxTokens[c.policy]

TokensExceeded(c) == QueueTokens(TokQueue(c)) + c.tokens > MaxTokens[c.policy]

(* Seeded fault: the cutoff is stored in place of the time.                *)
GrantOfCutoff(c) == [id |-> granted + 1, user |-> c.user, at |-> c.now - ReqWindow,
                     when |-> clock, tokens |-> c.tokens, policy |-> c.policy]

GrantOf(c) == [id |-> granted + 1, user |-> c.user, at |-> c.now, when |-> clock,
               tokens |-> c.tokens, policy |-> c.policy]

(* get_usage() filters entry by entry instead of evicting from the front.  *)
Usage(u, now) ==
  [requests |-> Cardinality({i \in DOMAIN reqTs[u] : now - reqTs[u][i].at <= ReqWindow}),
   tokens   |-> MapThenSumSet(LAMBDA i : tokTs[u][i].tokens,
                  {i \in DOMAIN tokTs[u] : now - tokTs[u][i].at <= TokWindow})]

-----------------------------------------------------------------------------
Init ==
  /\ clock = 0
  /\ reqTs = [u \in Users |-> <<>>]
  /\ tokTs = [u \in Users |-> <<>>]
  /\ pending = {}
  /\ readers = {}
  /\ grants = {}
  /\ granted = 0

Free(t) == \A c \in pending \cup readers : c.thread # t

(* A disabled policy returns before the clock is read and changes nothing. *)
Begin(t, kind, u, n, p) ==
  /\ Free(t)
  /\ granted + Cardinality(pending) < MaxGrants
  /\ p \in Enabled
  /\ pending' = pending \cup {[thread |-> t, kind |-> kind, user |-> u, tokens |-> n,
                               policy |-> p, now |-> clock]}
  /\ UNCHANGED <<clock, reqTs, tokTs, readers, grants, granted>>

(* check() under the lock, both limits respected: the request is committed. *)
CheckCommits(c) ==
  /\ c.kind = "check"
  /\ ~RequestsExceeded(c) /\ ~TokensExceeded(c)
  /\ reqTs' = [reqTs EXCEPT ![c.user] = Append(ReqQueue(c), GrantOf(c))]
  /\ tokTs' = [tokTs EXCEPT ![c.user] = Append(TokQueue(c), GrantOf(c))]
  /\ grants' = grants \cup {GrantOf(c)}
  /\ granted' = granted + 1
  /\ pending' = pending \ {c}
  /\ UNCHANGED <<clock, readers>>

(* peek(), or check() that finds a limit exceeded: only expired entries go. *)
ObserveOnly(c) ==
  /\ c.kind = "peek" \/ RequestsExceeded(c) \/ TokensExceeded(c)
  /\ reqTs' = [reqTs EXCEPT ![c.user] = ReqQueue(c)]
  /\ tokTs' = [tokTs EXCEPT ![c.user] = TokQueue(c)]
  /\ pending' = pending \ {c}
  /\ UNCHANGED <<clock, readers, grants, granted>>

(* get_usage() reads the clock, and answers Usage(r.user, r.now) once it   *)
(* has the lock.  It changes no deque.                                     *)
BeginUsage(t, u) ==
  /\ Free(t)
  /\ readers' = readers \cup {[thread |-> t, user |-> u, now |-> clock]}
  /\ UNCHANGED <<clock, reqTs, tokTs, pending, grants, granted>>

AnswerUsage(r) ==
  /\ readers' = readers \ {r}
  /\ UNCHANGED <<clock, reqTs, tokTs, pending, grants, granted>>

(* Seeded fault: only one of the two windows is cleared.                   *)
ResetRequests(u) ==
  /\ reqTs' = [reqTs EXCEPT ![u] = <<>>]
  /\ grants' = {g \in grants : g.user # u}
  /\ UNCHANGED <<clock, tokTs, pending, readers, granted>>

Reset(u) ==
  /\ reqTs' = [reqTs EXCEPT ![u] = <<>>]
  /\ tokTs' = [tokTs EXCEPT ![u] = <<>>]
  /\ grants' = {g \in grants : g.user # u}
  /\ UNCHANGED <<clock, pending, readers, granted>>

Tick ==
  /\ clock < MaxClock
  /\ clock' = clock + 1
  /\ UNCHANGED <<reqTs, tokTs, pending, readers, grants, granted>>

Next ==
  \/ \E t \in Threads, kind \in {"check", "peek"}, u \in Users, n \in TokenCounts, 
        p \in Policies : Begin(t, kind, u, n, p)
  \/ \E c \in pending : CheckCommits(c) \/ ObserveOnly(c)
  \/ \E t \in Threads, u \in Users : BeginUsage(t, u)
  \/ \E r \in readers : AnswerUsage(r)
  \/ \E u \in Users : Reset(u)
  \/ Tick

Spec == Init /\ [][Next]_vars

-----------------------------------------------------------------------------
TypeOK ==
  /\ clock \in Nat
  /\ reqTs \in [Users -> Seq(Grant)]
  /\ tokTs \in [Users -> Seq(Grant)]
  /\ pending \subseteq Call
  /\ readers \subseteq Reader
  /\ grants \subseteq Grant
  /\ granted \in Nat

Abstract == INSTANCE SlidingWindow WITH time <- clock, ledger <- grants

(* Whatever the threads and however long one of them waits for the lock    *)
(* with a stale clock reading: at the moment of each commit, the user's    *)
(* committed requests no older than a minute are within the limit that the *)
(* request was checked against (rate_limiter.py:59-94).                    *)
RequestsWithinLimit ==
  \A g \in grants :
    Cardinality(Abstract!Window(grants, g, ReqWindow)) <= MaxRequests[g.policy]

(* The same for the tokens committed over the last hour.                   *)
TokensWithinLimit ==
  \A g \in grants :
    Abstract!SumTokens(Abstract!Window(grants, g, TokWindow)) <= MaxTokens[g.policy]

LiveGrants(u, now, w) == {g \in grants : g.user = u /\ now - g.at <= w}

(* Whatever has happened since a get_usage() call read the clock           *)
(* (rate_limiter.py:159), evictions and commits by threads whose readings  *)
(* are older or newer among it, what it reports once it has the lock       *)
(* (160-165) misses no grant that still counts then and holds none that no *)
(* longer counted at its reading.                                          *)
UsageMatchesLedger ==
  \A r \in readers :
    LET used == Usage(r.user, r.now)
    IN  /\ Cardinality(LiveGrants(r.user, clock, ReqWindow)) <= used.requests
        /\ used.requests <= Cardinality(LiveGrants(r.user, r.now, ReqWindow))
        /\ Abstract!SumTokens(LiveGrants(r.user, clock, TokWindow)) <= used.tokens
        /\ used.tokens <= Abstract!SumTokens(LiveGrants(r.user, r.now, TokWindow))

(* A request is refused only for quota really in use: the user's grants in *)
(* the window that ends at the request fill the limit it ran into.  This   *)
(* needs stamps in order, as the event loop always leaves them: a thread   *)
(* that waited for the lock may append an older stamp behind a newer one.  *)
InOrder(q) == \A i, j \in DOMAIN q : i < j => q[i].at <= q[j].at

DenialJustified ==
  \A c \in pending :
    /\ InOrder(reqTs[c.user]) /\ RequestsExceeded(c) =>
         Cardinality(LiveGrants(c.user, c.now, ReqWindow)) >= MaxRequests[c.policy]
    /\ InOrder(tokTs[c.user]) /\ TokensExceeded(c) =>
         Abstract!SumTokens(LiveGrants(c.user, c.now, TokWindow)) + c.tokens
           > MaxTokens[c.policy]

(* What makes RequestsWithinLimit inductive: no call measures from the     *)
(* future, ids only grow, and every grant that can still count is in the   *)
(* deque, where the length test of check() counts it.                      *)
CallsInPast == \A c \in pending \cup readers : c.now <= clock

IdsKnown == \A g \in grants : g.id <= granted

LiveQueued ==
  \A g \in grants : clock - g.at <= ReqWindow =>
    \E i \in 1..Len(reqTs[g.user]) : reqTs[g.user][i] = g

RequestInv == TypeOK /\ CallsInPast /\ IdsKnown /\ LiveQueued /\ RequestsWithinLimit

(* The limiter implements the sliding window.                              *)
ImplementsSlidingWindow == Abstract!Spec
=============================================================================
