---------------------------- MODULE Observability ----------------------------
(***************************************************************************)
(* What Sentinel._record_violation (core.py) tells the outside: one        *)
(* increment of a Prometheus counter (metrics.py) and, when the policy in  *)
(* force names an endpoint, one OpenTelemetry span (telemetry.py).  The    *)
(* event loop records; the watcher's thread replaces the policy meanwhile; *)
(* spans of violations that do not block are exported by daemon threads,   *)
(* which die with the process; the application may call shutdown_all.      *)
(*                                                                         *)
(* Outside the repository: a collector may take any time to answer, fail,  *)
(* or never answer; a provider that was shut down drops what it is given.  *)
(***************************************************************************)
EXTENDS Naturals

CONSTANTS Policies,
          EndpointOf,   \* [Policies -> Endpoints]: audit.tracely_endpoint
          ServiceOf,    \* [Policies -> Services]
          Endpoints, Services,
          NoEndpoint,   \* None, an element of Endpoints
          NoPolicy,     \* no reload is under way
          Violations,   \* the violations the loop records, each once
          ActionOf,     \* [Violations -> Actions]
          ShadowOf,     \* [Violations -> BOOLEAN]; as_shadow keeps the action
          NoViolation

Actions == {"BLOCK", "FLAG", "REDACT", "WARN", "ABORT"}
Blocking == {"BLOCK", "ABORT"}

ASSUME ObservabilityAssumption ==
  /\ EndpointOf \in [Policies -> Endpoints] /\ ServiceOf \in [Policies -> Services]
  /\ NoEndpoint \in Endpoints /\ NoPolicy \notin Policies
  /\ ActionOf \in [Violations -> Actions] /\ ShadowOf \in [Violations -> BOOLEAN]
  /\ NoViolation \notin Violations

VARIABLES current,    \* Sentinel._policy
          reloading,  \* the policy a reload thread is about to install
          pc,         \* where the loop is in _record_violation
          recording,  \* the violation it records
          endpoint, service,  \* its local variables
          inForce,    \* history: the policies in force since it began
          log,        \* Sentinel._violation_log: the violations recorded
          counters,   \* increments: [violation, shadow series, service]
          emitting,   \* _emit calls under way: [violation, endpoint, service, step, shut]
          shutting,   \* shutdown_all holds telemetry's lock
          providers,  \* _providers: [endpoint, service]
          spans,      \* spans that ended, and what became of them
          killed,     \* _emit calls that died with the process
          exited      \* the process has ended

loopVars == <<pc, recording, endpoint, service, inForce>>
telemetryVars == <<emitting, shutting, providers, spans>>
vars == <<current, reloading, loopVars, log, counters, telemetryVars, killed, exited>>

Init ==
  /\ current \in Policies /\ reloading = NoPolicy
  /\ pc = "idle" /\ recording = NoViolation
  /\ endpoint = NoEndpoint /\ service = ServiceOf[current]
  /\ inForce = {} /\ log = {} /\ counters = {}
  /\ emitting = {} /\ shutting = FALSE /\ providers = {} /\ spans = {}
  /\ killed = {} /\ exited = FALSE

-----------------------------------------------------------------------------
(* Seeded faults: endpoint and service read without the lock; the lock     *)
(* kept while the violation is counted and emitted.                        *)
PolicyLockedNever == FALSE
PolicyLockedToEnd == pc \in {"service", "count", "emit"}

(* The loop is inside "with self._policy_lock".                            *)
PolicyLocked == pc = "service"

(* A reload thread has parsed a file and calls _on_policy_reload.          *)
Reload(p) ==
  /\ ~exited /\ reloading = NoPolicy
  /\ reloading' = p
  /\ UNCHANGED <<current, loopVars, log, counters, telemetryVars, killed, exited>>

(* The setter of Sentinel.policy, once it has the lock.                    *)
InstallPolicy ==
  /\ ~exited /\ reloading # NoPolicy /\ ~PolicyLocked
  /\ current' = reloading /\ reloading' = NoPolicy
  /\ inForce' = IF pc = "idle" THEN inForce ELSE inForce \cup {reloading}
  /\ UNCHANGED <<pc, recording, endpoint, service, log, counters, telemetryVars, killed, exited>>

(* _record_violation up to its lock.                                       *)
Record(v) ==
  /\ ~exited /\ pc = "idle" /\ v \notin log
  /\ log' = log \cup {v} /\ recording' = v
  /\ inForce' = {current} /\ pc' = "lock"
  /\ UNCHANGED <<current, reloading, endpoint, service, counters, telemetryVars, killed, exited>>

ReadEndpoint ==
  /\ pc = "lock" /\ endpoint' = EndpointOf[current] /\ pc' = "service"
  /\ UNCHANGED <<current, reloading, recording, service, inForce, log, counters,
                 telemetryVars, killed, exited>>

ReadService ==
  /\ pc = "service" /\ service' = ServiceOf[current] /\ pc' = "count"
  /\ UNCHANGED <<current, reloading, recording, endpoint, inForce, log, counters,
                 telemetryVars, killed, exited>>

(* Seeded fault: only BLOCK is exported before the loop goes on.           *)
InlineBlockOnly(v) == ActionOf[v] = "BLOCK"

(* emit_violation(blocking = ...).                                         *)
Inline(v) == ActionOf[v] \in Blocking

Emission == [violation |-> recording, endpoint |-> endpoint, service |-> service,
             step |-> "tracer", shut |-> FALSE]

(* metrics.record_violation: shadow violations have a counter of their own. *)
Increment == [violation |-> recording, shadow |-> ShadowOf[recording], service |-> service]

(* _record_violation goes on to the span, or returns.                      *)
Emit   == pc' = "emit" /\ UNCHANGED <<recording, inForce>>
Return == pc' = "idle" /\ recording' = NoViolation /\ inForce' = {}

(* Seeded fault: a span is emitted whether there is an endpoint or not.     *)
CountEmitsAlways ==
  /\ pc = "count"
  /\ counters' = counters \cup {Increment}
  /\ emitting' = emitting \cup {Emission}
  /\ IF Inline(recording) THEN Emit ELSE Return
  /\ UNCHANGED <<current, reloading, endpoint, service, log, shutting, providers, spans,
                 killed, exited>>

(* The counter of the violation's series, and the span: inline when the    *)
(* violation blocks, also as a shadow, and else in a daemon thread.         *)
Count ==
  /\ pc = "count"
  /\ counters' = counters \cup {Increment}
  /\ IF endpoint = NoEndpoint
     THEN emitting' = emitting /\ Return
     ELSE /\ emitting' = emitting \cup {Emission}
          /\ IF Inline(recording) THEN Emit ELSE Return
  /\ UNCHANGED <<current, reloading, endpoint, service, log, shutting, providers, spans,
                 killed, exited>>

-----------------------------------------------------------------------------
(* The tracer of e's provider, which is created on first use.              *)
GetTracer(e) ==
  /\ e.step = "tracer" /\ ~shutting
  /\ emitting' = (emitting \ {e}) \cup {[e EXCEPT !.step = "span"]}
  /\ providers' = providers \cup {[endpoint |-> e.endpoint, service |-> e.service]}
  /\ UNCHANGED <<current, reloading, loopVars, log, counters, shutting, spans, killed, exited>>

(* The end of _emit: the loop goes on if it was waiting for this one.      *)
Ends(e, result) ==
  /\ emitting' = emitting \ {e}
  /\ spans' = spans \cup {[violation |-> e.violation, endpoint |-> e.endpoint,
                           service |-> e.service, result |-> result]}
  /\ IF pc = "emit" /\ recording = e.violation
     THEN Return ELSE UNCHANGED <<pc, recording, inForce>>
  /\ UNCHANGED <<current, reloading, endpoint, service, log, counters, shutting, providers,
                 killed, exited>>

(* The span is exported when it ends; what goes wrong is only printed.     *)
EndSpan(e) ==
  /\ e.step = "span"
  /\ \E result \in IF e.shut THEN {"dropped"} ELSE {"exported", "failed"} : Ends(e, result)

(* The exporter cannot be built.                                           *)
TracerFails(e) == e.step = "tracer" /\ ~shutting /\ Ends(e, "failed")

(* shutdown_all: every provider is shut down under the lock.               *)
ShutdownBegins ==
  /\ ~exited /\ ~shutting /\ shutting' = TRUE
  /\ UNCHANGED <<current, reloading, loopVars, log, counters, emitting, providers, spans,
                 killed, exited>>

ShutdownEnds ==
  /\ shutting /\ shutting' = FALSE /\ providers' = {}
  /\ emitting' = {IF e.step = "span" THEN [e EXCEPT !.shut = TRUE] ELSE e : e \in emitting}
  /\ UNCHANGED <<current, reloading, loopVars, log, counters, spans, killed, exited>>

(* The program ends once the loop is done, by an exception or not; daemon  *)
(* threads do not outlive it.                                              *)
Exit ==
  /\ ~exited /\ pc = "idle" /\ ~shutting
  /\ exited' = TRUE /\ killed' = emitting /\ emitting' = {}
  /\ reloading' = NoPolicy
  /\ UNCHANGED <<current, loopVars, log, counters, shutting, providers, spans>>

Snapshot == ReadEndpoint \/ ReadService

Next ==
  \/ \E p \in Policies : Reload(p)
  \/ InstallPolicy
  \/ \E v \in Violations : Record(v)
  \/ Snapshot \/ Count
  \/ \E e \in emitting : GetTracer(e) \/ EndSpan(e) \/ TracerFails(e)
  \/ ShutdownBegins \/ ShutdownEnds \/ Exit

Spec == Init /\ [][Next]_vars

(* The two critical sections of the policy lock run on.  Nothing is        *)
(* assumed of collectors, exports or shutdown_all.                         *)
FairSpec == Spec /\ WF_vars(Snapshot) /\ WF_vars(InstallPolicy)

-----------------------------------------------------------------------------
Emissions == [violation: Violations, endpoint: Endpoints \ {NoEndpoint}, service: Services,
              step: {"tracer", "span"}, shut: BOOLEAN]

TypeOK ==
  /\ current \in Policies /\ reloading \in Policies \cup {NoPolicy}
  /\ pc \in {"idle", "lock", "service", "count", "emit"}
  /\ recording \in Violations \cup {NoViolation}
  /\ pc # "idle" => recording \in Violations
  /\ endpoint \in Endpoints /\ service \in Services
  /\ inForce \subseteq Policies /\ log \subseteq Violations
  /\ counters \subseteq [violation: Violations, shadow: BOOLEAN, service: Services]
  /\ emitting \subseteq Emissions /\ killed \subseteq Emissions
  /\ shutting \in BOOLEAN /\ exited \in BOOLEAN
  /\ providers \subseteq [endpoint: Endpoints \ {NoEndpoint}, service: Services]
  /\ spans \subseteq [violation: Violations, endpoint: Endpoints \ {NoEndpoint},
                      service: Services, result: {"exported", "failed", "dropped"}]

(* "Snapshot both values under one lock acquisition to avoid stale reads   *)
(* during a concurrent hot-reload" (core.py:163): the endpoint and the     *)
(* service a violation is reported with are those of one policy, and it    *)
(* was in force at some moment while the violation was being recorded.      *)
OnePolicyPerSpan ==
  pc \in {"count", "emit"} =>
    \E p \in inForce : EndpointOf[p] = endpoint /\ ServiceOf[p] = service

(* "Blocking violations export synchronously: they raise immediately after *)
(* this call, so a daemon thread would be killed before it could flush"    *)
(* (core.py:171): the span of a blocking violation never dies with the     *)
(* process.                                                                *)
BlockingSurvivesExit == \A e \in killed : ActionOf[e.violation] \notin Blocking

(* A collector that never answers holds up the loop, and shutdown_all or a *)
(* daemon thread may hold up each other, but none of them a hot reload:    *)
(* no lock is held while a span is exported.                               *)
ReloadNeverWaits == \A p \in Policies : reloading = p ~> reloading = NoPolicy

=============================================================================
