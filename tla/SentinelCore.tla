---------------------------- MODULE SentinelCore ----------------------------
(***************************************************************************)
(* Sentinel (sentinel/core.py): the path of a call of ainvoke or astream   *)
(* through the pre-graph guards, the shadow guards, the graph, and the     *)
(* output guards and store writes that run in the background after it.     *)
(*                                                                         *)
(* All of it runs on one asyncio event loop.  From its first line to the   *)
(* await of the graph a call awaits nothing: it holds the loop, and only   *)
(* other threads (the policy watcher, time) act between its steps.         *)
(* Everything after an await interleaves.                                  *)
(*                                                                         *)
(* The graph, the caller, the judges of the output guards and the backend  *)
(* of the store are external.  A violation log is a set of records: what   *)
(* the properties tell apart is which guard reported which action, enforced*)
(* or shadow.  The detail of the rate windows is in RateLimiter, of the    *)
(* callbacks inside the graph in LlmMetering.                              *)
(***************************************************************************)
EXTENDS Integers, FiniteSetsExt

CONSTANTS Calls,         \* calls of ainvoke and astream; a call is its run_id
          Users, UserOf, \* the user_id of each call
          KindOf,        \* "invoke" or "stream"
          Policies, NoPolicy,
          Rules,         \* what a policy says: see PolicyRules
          Routes,        \* what policy_router may answer; NoPolicy: None, raised, no router
          ShadowRoutes,  \* what shadow_router may answer, likewise
          Guards,        \* the output guards enabled, of OutputGuards
          HasStore,      \* a ViolationStore is configured
          MaxTexts,      \* bound: text chunks of a stream
          NoCall

Actions == {"BLOCK", "FLAG", "REDACT", "WARN", "ABORT"}
Blocking == {"BLOCK", "ABORT"}
OutputGuards == {"output", "hallucination", "topic", "schema"}

(* A policy's verdict on the input of a call is "pass", the action of the  *)
(* violation, or "error": a pattern that is no regular expression raises   *)
(* re.error out of validate_input (input_validator.py:110-113).            *)
PolicyRules ==
  [input: [Calls -> Actions \cup {"pass", "error"}],
   budget: [Calls -> Actions \cup {"pass"}],   \* the pre-flight peek
   maxRequests: Nat \ {0}, rateAction: Actions,
   metering: SUBSET Actions,                   \* actions of the callbacks in the graph
   output: [Guards -> Actions]]                \* action of each output guard

ASSUME CoreAssumption ==
  /\ UserOf \in [Calls -> Users]
  /\ KindOf \in [Calls -> {"invoke", "stream"}]
  /\ Rules \in [Policies -> PolicyRules]
  /\ NoPolicy \notin Policies /\ NoCall \notin Calls
  /\ Routes \subseteq Policies \cup {NoPolicy}
  /\ ShadowRoutes \subseteq Policies \cup {NoPolicy}
  /\ Guards \subseteq OutputGuards
  /\ HasStore \in BOOLEAN
  /\ MaxTexts \in Nat

VARIABLES current,     \* Sentinel._policy
          loop,        \* the call that holds the event loop, or NoCall
          pc,          \* where each call is
          pol,         \* the policy a call resolved (a local variable)
          shadow,      \* its shadow policy, or NoPolicy
          outcome,     \* "none", "returned", "blocked", "failed", "abandoned", "crashed"
          invoked,     \* the calls whose graph was started
          texts,       \* pieces of text the caller received
          quota,       \* RateLimiter: the entries of each call in its user's window
          log,         \* Sentinel._violation_log, of this and earlier processes
          session,     \* the runs whose log is in the memory of this process
          tasks,       \* pending _run_async_guards
          judged,      \* history: output guards that ran to the end
          saving,      \* pending store.save
          saved,       \* what the store holds
          lost         \* history: saves that failed or died with the process

callVars == <<loop, pc, pol, shadow, outcome, invoked, texts>>
guardVars == <<tasks, judged>>
storeVars == <<saving, saved, lost>>
vars == <<current, callVars, quota, log, session, guardVars, storeVars>>

-----------------------------------------------------------------------------
Rec(g, a, s) == [guard |-> g, action |-> a, shadow |-> s]

(* Seeded fault: shadow records are not written through.                   *)
RecordSavesEnforcedOnly(c, recs) ==
  /\ log' = [log EXCEPT ![c] = @ \cup recs]
  /\ saving' = IF HasStore
               THEN saving \cup {[call |-> c, rec |-> x] : x \in {y \in recs : ~y.shadow}}
               ELSE saving
  /\ UNCHANGED <<saved, lost>>

(* _record_violation: the log at once, the store in a background task.     *)
RecordViolations(c, recs) ==
  /\ log' = [log EXCEPT ![c] = @ \cup recs]
  /\ saving' = IF HasStore THEN saving \cup {[call |-> c, rec |-> x] : x \in recs} ELSE saving
  /\ UNCHANGED <<saved, lost>>

(* _resolve_policy: the router first, then the policy now in force.        *)
ResolvePolicy(route) == IF route = NoPolicy THEN current ELSE route

(* RateLimiter.check and peek: the request would exceed the limit.         *)
Entries(u) == MapThenSumSet(LAMBDA d : quota[d], {d \in Calls : UserOf[d] = u})

AtLimit(p, c) == Entries(UserOf[c]) >= Rules[p].maxRequests

InputVerdict(c)  == Rules[pol[c]].input[c]
BudgetVerdict(c) == Rules[pol[c]].budget[c]

(* Seeded fault: the policy in force is read again.                        *)
RateVerdictNow(c) == IF AtLimit(current, c) THEN Rules[current].rateAction ELSE "pass"

RateVerdict(c) == IF AtLimit(pol[c], c) THEN Rules[pol[c]].rateAction ELSE "pass"

(* Seeded fault: "no violation" is logged too.                             *)
ReportsAll(g, v, s) == {Rec(g, v, s)}

(* A verdict that is an action, as the records of guard g.                 *)
Reports(g, v, s) == IF v \in Actions THEN {Rec(g, v, s)} ELSE {}

(* What the shadow policy says of a call, by the guards' peek variants.    *)
ShadowReports(c) ==
  LET p == shadow[c]
  IN  Reports("input", Rules[p].input[c], TRUE)
        \cup Reports("budget", Rules[p].budget[c], TRUE)
        \cup (IF AtLimit(p, c) THEN {Rec("rate", Rules[p].rateAction, TRUE)} ELSE {})

(* What an output guard may answer.  An exception in a guard is caught by  *)
(* the gather; the schema guard also warns of a schema it cannot use.      *)
Answers(p, g) ==
  {"pass", "error", Rules[p].output[g]} \cup (IF g = "schema" THEN {"WARN"} ELSE {})

NewTask(c, s) == [call |-> c, shadow |-> s, got |-> [g \in Guards |-> "wait"]]

(* Seeded fault: the policy is not handed to the task, which falls back to *)
(* the one in force (core.py:386).                                         *)
TaskPolicyNow(t) == IF t.shadow THEN shadow[t.call] ELSE current

TaskPolicy(t) == IF t.shadow THEN shadow[t.call] ELSE pol[t.call]

(* _schedule_async_guards, for the live and then for the shadow policy.    *)
ScheduleAsyncGuards(c, anyText) ==
  /\ tasks' = IF ~anyText THEN tasks
              ELSE tasks \cup {NewTask(c, FALSE)}
                         \cup (IF shadow[c] = NoPolicy THEN {} ELSE {NewTask(c, TRUE)})
  /\ UNCHANGED judged

-----------------------------------------------------------------------------
Init ==
  /\ current \in Policies
  /\ loop = NoCall
  /\ pc = [c \in Calls |-> "new"]
  /\ pol = [c \in Calls |-> NoPolicy]
  /\ shadow = [c \in Calls |-> NoPolicy]
  /\ outcome = [c \in Calls |-> "none"]
  /\ invoked = {}
  /\ texts = [c \in Calls |-> 0]
  /\ quota = [c \in Calls |-> 0]
  /\ log = [c \in Calls |-> {}]
  /\ session = {}
  /\ tasks = {} /\ judged = {}
  /\ saving = {} /\ saved = [c \in Calls |-> {}] /\ lost = {}

Goto(c, l) == pc' = [pc EXCEPT ![c] = l]

Leave(c, why) == Goto(c, "over") /\ outcome' = [outcome EXCEPT ![c] = why]

(* A new run: an empty log, and the policy, resolved once.                 *)
Begin(c) ==
  /\ loop = NoCall /\ pc[c] = "new"
  /\ loop' = c
  /\ session' = session \cup {c}
  /\ \E route \in Routes : pol' = [pol EXCEPT ![c] = ResolvePolicy(route)]
  /\ Goto(c, "input")
  /\ UNCHANGED <<current, shadow, outcome, invoked, texts, quota, log, guardVars, storeVars>>

(* Seeded fault: a blocking verdict is recorded and not raised.            *)
SyncGuardNoRaise(c, g, v, next) ==
  /\ RecordViolations(c, Reports(g, v, FALSE))
  /\ Goto(c, next)
  /\ UNCHANGED <<current, loop, outcome, pol, shadow, invoked, texts, session, guardVars>>

(* One guard of _run_sync_guards: record the violation, raise if it blocks.*)
SyncGuard(c, g, v, next) ==
  /\ RecordViolations(c, Reports(g, v, FALSE))
  /\ IF v \in Blocking
     THEN Leave(c, "blocked") /\ loop' = NoCall
     ELSE Goto(c, next) /\ UNCHANGED <<outcome, loop>>
  /\ UNCHANGED <<current, pol, shadow, invoked, texts, session, guardVars>>

InputGuard(c) ==
  /\ loop = c /\ pc[c] = "input" /\ InputVerdict(c) # "error"
  /\ SyncGuard(c, "input", InputVerdict(c), "budget")
  /\ UNCHANGED quota

InputGuardFails(c) ==
  /\ loop = c /\ pc[c] = "input" /\ InputVerdict(c) = "error"
  /\ Leave(c, "failed") /\ loop' = NoCall
  /\ UNCHANGED <<current, pol, shadow, invoked, texts, quota, log, session, guardVars, storeVars>>

BudgetGuard(c) ==
  /\ loop = c /\ pc[c] = "budget"
  /\ SyncGuard(c, "budget", BudgetVerdict(c), "rate")
  /\ UNCHANGED quota

(* RateLimiter.check commits only a request within the limit.              *)
RateGuard(c) ==
  /\ loop = c /\ pc[c] = "rate"
  /\ SyncGuard(c, "rate", RateVerdict(c), "shadow")
  /\ quota' = IF RateVerdict(c) = "pass" THEN [quota EXCEPT ![c] = @ + 1] ELSE quota

ResolveShadow(c) ==
  /\ loop = c /\ pc[c] = "shadow"
  /\ \E route \in ShadowRoutes :
       /\ shadow' = [shadow EXCEPT ![c] = route]
       /\ Goto(c, IF route = NoPolicy THEN "start" ELSE "observe")
  /\ UNCHANGED <<current, loop, pol, outcome, invoked, texts, quota, log, session,
                 guardVars, storeVars>>

(* Seeded fault: check in place of peek, which commits within the limit.   *)
ShadowGuardsCommit(c) ==
  /\ loop = c /\ pc[c] = "observe" /\ Rules[shadow[c]].input[c] # "error"
  /\ RecordViolations(c, ShadowReports(c))
  /\ quota' = IF AtLimit(shadow[c], c) THEN quota ELSE [quota EXCEPT ![c] = @ + 1]
  /\ Goto(c, "start")
  /\ UNCHANGED <<current, loop, pol, shadow, outcome, invoked, texts, session, guardVars>>

(* _run_shadow_sync_guards: all verdicts first, then the records.          *)
ShadowGuards(c) ==
  /\ loop = c /\ pc[c] = "observe" /\ Rules[shadow[c]].input[c] # "error"
  /\ RecordViolations(c, ShadowReports(c))
  /\ Goto(c, "start")
  /\ UNCHANGED <<current, loop, pol, shadow, outcome, invoked, texts, quota, session, guardVars>>

ShadowGuardsFail(c) ==
  /\ loop = c /\ pc[c] = "observe" /\ Rules[shadow[c]].input[c] = "error"
  /\ Leave(c, "failed") /\ loop' = NoCall
  /\ UNCHANGED <<current, pol, shadow, invoked, texts, quota, log, session, guardVars, storeVars>>

(* The graph gets input_dict as it came, and the call awaits it.           *)
StartGraph(c) ==
  /\ loop = c /\ pc[c] = "start"
  /\ invoked' = invoked \cup {c}
  /\ Goto(c, "graph") /\ loop' = NoCall
  /\ UNCHANGED <<current, pol, shadow, outcome, texts, quota, log, session, guardVars, storeVars>>

-----------------------------------------------------------------------------
(* The callbacks record a violation; one that blocks is raised out of the  *)
(* graph and so out of the call.                                           *)
GraphReports(c, a) ==
  /\ loop = NoCall /\ pc[c] = "graph" /\ a \in Rules[pol[c]].metering
  /\ Rec("graph", a, FALSE) \notin log[c]
  /\ RecordViolations(c, {Rec("graph", a, FALSE)})
  /\ IF a \in Blocking THEN Leave(c, "blocked") ELSE UNCHANGED <<pc, outcome>>
  /\ UNCHANGED <<current, loop, pol, shadow, invoked, texts, quota, session, guardVars>>

(* The graph raises, or the caller's task is cancelled.                    *)
GraphFails(c) ==
  /\ loop = NoCall /\ pc[c] = "graph"
  /\ \E why \in {"failed", "abandoned"} : Leave(c, why)
  /\ UNCHANGED <<current, loop, pol, shadow, invoked, texts, quota, log, session,
                 guardVars, storeVars>>

GraphReturns(c) ==
  /\ loop = NoCall /\ pc[c] = "graph" /\ KindOf[c] = "invoke"
  /\ \E text \in {0, 1} : /\ texts' = [texts EXCEPT ![c] = text]
                          /\ ScheduleAsyncGuards(c, text > 0)
  /\ Leave(c, "returned")
  /\ UNCHANGED <<current, loop, pol, shadow, invoked, quota, log, session, storeVars>>

(* astream hands a chunk to the caller, which may never come back.         *)
Chunk(c) ==
  /\ loop = NoCall /\ pc[c] = "graph" /\ KindOf[c] = "stream"
  /\ \E text \in {0, 1} : /\ texts[c] + text <= MaxTexts
                          /\ texts' = [texts EXCEPT ![c] = @ + text]
  /\ Goto(c, "yielded")
  /\ UNCHANGED <<current, loop, pol, shadow, outcome, invoked, quota, log, session,
                 guardVars, storeVars>>

NextChunk(c) ==
  /\ loop = NoCall /\ pc[c] = "yielded"
  /\ Goto(c, "graph")
  /\ UNCHANGED <<current, loop, pol, shadow, outcome, invoked, texts, quota, log, session,
                 guardVars, storeVars>>

AbandonStream(c) ==
  /\ loop = NoCall /\ pc[c] = "yielded"
  /\ Leave(c, "abandoned")
  /\ UNCHANGED <<current, loop, pol, shadow, invoked, texts, quota, log, session,
                 guardVars, storeVars>>

StreamEnds(c) ==
  /\ loop = NoCall /\ pc[c] = "graph" /\ KindOf[c] = "stream"
  /\ ScheduleAsyncGuards(c, texts[c] > 0)
  /\ Leave(c, "returned")
  /\ UNCHANGED <<current, loop, pol, shadow, invoked, texts, quota, log, session, storeVars>>

-----------------------------------------------------------------------------
GuardAnswers(t, g) ==
  /\ loop = NoCall /\ t.got[g] = "wait"
  /\ \E v \in Answers(TaskPolicy(t), g) :
       tasks' = (tasks \ {t}) \cup {[t EXCEPT !.got[g] = v]}
  /\ UNCHANGED <<current, callVars, quota, log, session, judged, storeVars>>

(* Seeded faults: gather without return_exceptions, so that one exception  *)
(* ends the task; one that loses the records only; a task never discarded. *)
GatherRaises(t) ==
  /\ loop = NoCall /\ \A g \in Guards : t.got[g] # "wait"
  /\ tasks' = tasks \ {t}
  /\ IF \E g \in Guards : t.got[g] = "error"
     THEN UNCHANGED <<log, judged, storeVars>>
     ELSE /\ RecordViolations(t.call, UNION {Reports(g, t.got[g], t.shadow) : g \in Guards})
          /\ judged' = judged \cup {[call |-> t.call, shadow |-> t.shadow]}
  /\ UNCHANGED <<current, callVars, quota, session>>

GatherLosesVerdicts(t) ==
  /\ loop = NoCall /\ \A g \in Guards : t.got[g] # "wait"
  /\ RecordViolations(t.call, IF \E g \in Guards : t.got[g] = "error" THEN {}
                              ELSE UNION {Reports(g, t.got[g], t.shadow) : g \in Guards})
  /\ tasks' = tasks \ {t}
  /\ judged' = judged \cup {[call |-> t.call, shadow |-> t.shadow]}
  /\ UNCHANGED <<current, callVars, quota, session>>

GatherKeepsTask(t) ==
  /\ loop = NoCall /\ \A g \in Guards : t.got[g] # "wait"
  /\ RecordViolations(t.call, UNION {Reports(g, t.got[g], t.shadow) : g \in Guards})
  /\ judged' = judged \cup {[call |-> t.call, shadow |-> t.shadow]}
  /\ UNCHANGED <<current, callVars, quota, session, tasks>>

(* asyncio.gather: all guards have answered; errors are only printed.      *)
GatherEnds(t) ==
  /\ loop = NoCall /\ \A g \in Guards : t.got[g] # "wait"
  /\ RecordViolations(t.call, UNION {Reports(g, t.got[g], t.shadow) : g \in Guards})
  /\ tasks' = tasks \ {t}
  /\ judged' = judged \cup {[call |-> t.call, shadow |-> t.shadow]}
  /\ UNCHANGED <<current, callVars, quota, session>>

SaveEnds(s) ==
  /\ loop = NoCall
  /\ saving' = saving \ {s}
  /\ saved' = [saved EXCEPT ![s.call] = @ \cup {s.rec}]
  /\ UNCHANGED <<current, callVars, quota, log, session, guardVars, lost>>

(* An exception in save stays in its task, which nobody awaits.            *)
SaveFails(s) ==
  /\ loop = NoCall
  /\ saving' = saving \ {s} /\ lost' = lost \cup {s}
  /\ UNCHANGED <<current, callVars, quota, log, session, guardVars, saved>>

-----------------------------------------------------------------------------
(* Other threads and the world.                                            *)
Reload(p) ==
  /\ current' = p
  /\ UNCHANGED <<callVars, quota, log, session, guardVars, storeVars>>

Expire(c) ==
  /\ quota[c] > 0
  /\ quota' = [quota EXCEPT ![c] = @ - 1]
  /\ UNCHANGED <<current, callVars, log, session, guardVars, storeVars>>

(* The process dies and a new one starts with the same store.              *)
Crash ==
  /\ session # {}
  /\ session' = {} /\ quota' = [c \in Calls |-> 0]
  /\ loop' = NoCall
  /\ pc' = [c \in Calls |-> IF pc[c] = "new" THEN "new" ELSE "over"]
  /\ outcome' = [c \in Calls |-> IF pc[c] \in {"new", "over"} THEN outcome[c] ELSE "crashed"]
  /\ tasks' = {}
  /\ saving' = {} /\ lost' = lost \cup saving
  /\ UNCHANGED <<current, pol, shadow, invoked, texts, log, judged, saved>>

-----------------------------------------------------------------------------
SyncStep(c) ==
  \/ InputGuard(c) \/ InputGuardFails(c) \/ BudgetGuard(c) \/ RateGuard(c)
  \/ ResolveShadow(c) \/ ShadowGuards(c) \/ ShadowGuardsFail(c) \/ StartGraph(c)

GraphStep(c) ==
  \/ GraphFails(c) \/ GraphReturns(c)
  \/ Chunk(c) \/ NextChunk(c) \/ AbandonStream(c) \/ StreamEnds(c)
  \/ \E a \in Actions : GraphReports(c, a)

Background ==
  \/ \E t \in tasks : GatherEnds(t) \/ \E g \in Guards : GuardAnswers(t, g)
  \/ \E s \in saving : SaveEnds(s) \/ SaveFails(s)

Next ==
  \/ \E c \in Calls : Begin(c) \/ SyncStep(c) \/ GraphStep(c) \/ Expire(c)
  \/ Background
  \/ \E p \in Policies : Reload(p)
  \/ Crash

Spec == Init /\ [][Next]_vars

(* The event loop runs every ready task and never stops in a call that     *)
(* awaits nothing; judges and store backends answer or fail.  Nothing is   *)
(* assumed of the graph, the caller or the other threads.                  *)
FairSpec == Spec /\ WF_vars(\E c \in Calls : SyncStep(c)) /\ WF_vars(Background)

-----------------------------------------------------------------------------
SyncGuards == {"input", "budget", "rate"}
Record == [guard: SyncGuards \cup {"graph"} \cup Guards, action: Actions, shadow: BOOLEAN]
Save == [call: Calls, rec: Record]
Task == [call: Calls, shadow: BOOLEAN,
         got: [Guards -> Actions \cup {"wait", "pass", "error"}]]

TypeOK ==
  /\ current \in Policies
  /\ loop \in Calls \cup {NoCall}
  /\ pc \in [Calls -> {"new", "input", "budget", "rate", "shadow", "observe", "start",
                       "graph", "yielded", "over"}]
  /\ pol \in [Calls -> Policies \cup {NoPolicy}]
  /\ shadow \in [Calls -> Policies \cup {NoPolicy}]
  /\ outcome \in [Calls -> {"none", "returned", "blocked", "failed", "abandoned", "crashed"}]
  /\ invoked \subseteq Calls
  /\ texts \in [Calls -> Nat]
  /\ quota \in [Calls -> Nat]
  /\ log \in [Calls -> SUBSET Record]
  /\ session \subseteq Calls
  /\ tasks \subseteq Task /\ judged \subseteq [call: Calls, shadow: BOOLEAN]
  /\ saving \subseteq Save /\ lost \subseteq Save
  /\ saved \in [Calls -> SUBSET Record]

EnforcedBlocks(c) == {x \in log[c] : ~x.shadow /\ x.action \in Blocking}

(* "Sync guards execute before the agent call and can hard-block           *)
(* execution" (README.md:14): a call some guard of its own policy blocks   *)
(* never reaches the graph, and a call is raised out of with               *)
(* SentinelViolation only if a blocking violation that is not a shadow one *)
(* is on record for it, from a guard that could still stop it.             *)
BlockedMeansRecorded ==
  \A c \in Calls :
    /\ c \in invoked => \A x \in EnforcedBlocks(c) : x.guard \notin SyncGuards
    /\ outcome[c] = "blocked" =>
         \E x \in EnforcedBlocks(c) : x.guard \in SyncGuards \cup {"graph"}

(* What a policy may report of a call, by guard.                           *)
Prescribed(p, c, g) ==
  CASE g = "input"   -> {Rules[p].input[c]}
    [] g = "budget"  -> {Rules[p].budget[c]}
    [] g = "rate"    -> {Rules[p].rateAction}
    [] g = "graph"   -> Rules[p].metering
    [] g \in Guards  -> Answers(p, g)

(* "Resolve policy once" (core.py:311): however often the file is reloaded *)
(* while a call is under way, everything recorded for it, before, in and   *)
(* after the graph, is what the policy it began with prescribes, and what  *)
(* is marked shadow is what its shadow policy prescribes.                  *)
OnePolicyPerCall ==
  \A c \in Calls : \A x \in log[c] :
    x.action \in Prescribed(IF x.shadow THEN shadow[c] ELSE pol[c], c, x.guard)

(* "shadow observation never consumes real quota" (README.md:263), and     *)
(* neither does a call that is refused, or flagged for its rate: a call    *)
(* holds at most one entry of its user's rate window, and only if its own  *)
(* policy's guards let it pass and found its rate within the limit.        *)
OnlyAdmittedConsume ==
  \A c \in Calls : quota[c] > 0 =>
    /\ quota[c] = 1
    /\ pc[c] \in {"shadow", "observe", "start", "graph", "yielded", "over"}
    /\ \A x \in log[c] : ~x.shadow /\ x.guard \in SyncGuards =>
         x.guard # "rate" /\ x.action \notin Blocking

(* What get_violations answers (core.py:408-431).                          *)
Reported(c, includeShadow) ==
  LET all == IF c \in session THEN log[c] ELSE IF HasStore THEN saved[c] ELSE {}
  IN  {x \in all : includeShadow \/ ~x.shadow}

(* "falls back to the store for historical runs" (README.md:284): once     *)
(* nothing of a run is being saved and no save was lost, get_violations    *)
(* answers the same, with and without shadow records, after a restart.     *)
ReportSurvives ==
  HasStore => \A c \in Calls, b \in BOOLEAN :
    (\A s \in saving \cup lost : s.call # c)
      => Reported(c, b) = {x \in log[c] : b \/ ~x.shadow}

(* Output guards "run after the response" (README.md:14): an output the    *)
(* caller got whole is judged by every guard, if the process lives.        *)
JudgedEventually ==
  \A c \in Calls :
    (outcome[c] = "returned" /\ texts[c] > 0)
      ~> ([call |-> c, shadow |-> FALSE] \in judged \/ c \notin session)

(* What one output guard finds is reported, whatever the others do: an     *)
(* exception of one (core.py:400-406) hides no verdict of another.         *)
VerdictsReported ==
  \A c \in Calls, b \in BOOLEAN, g \in Guards :
    (\E t \in tasks : t.call = c /\ t.shadow = b /\ t.got[g] \in Actions)
      ~> ((\E a \in Actions : Rec(g, a, b) \in Reported(c, TRUE)) \/ c \notin session)

(* Background saves drain, and shadow judgements too: the set of strong    *)
(* references kept in _background_tasks does not grow for ever.            *)
BackgroundDrains == <>[](saving = {} /\ tasks = {})

(* "Nothing raised by the shadow policy is propagated to the caller"       *)
(* (README.md:264): a call its own policy's guards let through reaches the *)
(* graph.                                                                  *)
ShadowNeverPropagates ==
  \A c \in Calls : outcome[c] = "failed" /\ c \notin invoked => InputVerdict(c) = "error"

-----------------------------------------------------------------------------
(* What makes BlockedMeansRecorded and OnlyAdmittedConsume inductive.      *)

(* A call has its policy from its first step on, and its shadow policy as  *)
(* long as something is decided under it.                                  *)
PolicyResolved ==
  /\ \A c \in Calls : pc[c] # "new" => pol[c] \in Policies
  /\ \A c \in Calls : pc[c] = "observe" => shadow[c] \in Policies
  /\ \A t \in tasks : pc[t.call] = "over" /\ (t.shadow => shadow[t.call] \in Policies)

(* A call that a guard of its own policy refused is over and was not       *)
(* started, and a call that was started is past the guards.                *)
RefusedStayOut ==
  \A c \in Calls : \A x \in EnforcedBlocks(c) :
    x.guard \in SyncGuards => pc[c] = "over" /\ c \notin invoked

InvokedPassed == \A c \in invoked : pc[c] \in {"graph", "yielded", "over"}

(* Nothing is said of a call's rate before its rate check.                 *)
RateUndecided ==
  \A c \in Calls : pc[c] \in {"new", "input", "budget", "rate"} =>
    \A x \in log[c] : x.guard # "rate"

GuardsInv ==
  /\ RefusedStayOut /\ InvokedPassed /\ RateUndecided
  /\ BlockedMeansRecorded /\ OnlyAdmittedConsume

CoreInv == TypeOK /\ PolicyResolved /\ GuardsInv

-----------------------------------------------------------------------------
(* The abstract contract: a call has its policy when it begins, and is     *)
(* decided when its rate check is done or an earlier guard refuses it.     *)
Fate(c) ==
  CASE pc[c] = "new"                               -> "new"
    [] pc[c] \in {"input", "budget", "rate"}       -> "deciding"
    [] pc[c] \in {"shadow", "observe", "start"}    -> "admitted"
    [] pc[c] \in {"graph", "yielded"}              -> "running"
    [] pc[c] = "over" /\ outcome[c] = "crashed"    -> "lost"
    [] pc[c] = "over" /\ outcome[c] # "crashed" /\ c \in invoked  -> "ended"
    [] pc[c] = "over" /\ outcome[c] # "crashed" /\ c \notin invoked -> "refused"

Contract == INSTANCE Enforcement WITH fate <- [c \in Calls |-> Fate(c)], policy <- pol

(* "Resolve policy once" (core.py:311): every guard before the graph       *)
(* decides a call under the policy the call began with, and the rate       *)
(* window counts what was let through, whatever happens in between:        *)
(* reloads, shadow policies, other calls, background work and crashes.     *)
ImplementsEnforcement == Contract!Spec
=============================================================================
