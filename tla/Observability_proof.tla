-------------------------- MODULE Observability_proof --------------------------
(***************************************************************************)
(* Theorems about Observability, for any policies, endpoints, services and *)
(* violations.                                                             *)
(***************************************************************************)
EXTENDS Observability, TLAPS

(* The policy in force is one of those in force during the recording, and  *)
(* it is the one the endpoint was read from for as long as the lock is held.*)
SnapshotInv ==
  /\ pc # "idle" => current \in inForce
  /\ pc = "service" => endpoint = EndpointOf[current]

(* Each violation is emitted once, and only after it was recorded.         *)
EmittedOnce ==
  /\ pc # "idle" => recording \in log
  /\ \A e \in emitting : e.violation \in log
  /\ \A e \in emitting : pc \in {"lock", "service", "count"} => e.violation # recording
  /\ \A e, f \in emitting : e.violation = f.violation => e = f

(* The loop is waiting for every blocking violation under way.             *)
InlineAwaited ==
  \A e \in emitting :
    ActionOf[e.violation] \in Blocking => pc = "emit" /\ recording = e.violation

ObsInv == TypeOK /\ SnapshotInv /\ OnePolicyPerSpan
          /\ EmittedOnce /\ InlineAwaited /\ BlockingSurvivesExit

-----------------------------------------------------------------------------
LEMMA InitInv == Init => ObsInv
<1> SUFFICES ASSUME Init PROVE ObsInv
  OBVIOUS
<1> USE DEF Init
<1>1. service \in Services
  BY ObservabilityAssumption
<1>2. TypeOK
  BY <1>1, ObservabilityAssumption DEF TypeOK
<1>3. SnapshotInv /\ OnePolicyPerSpan
  BY DEF SnapshotInv, OnePolicyPerSpan
<1>4. EmittedOnce /\ InlineAwaited /\ BlockingSurvivesExit
  BY DEF EmittedOnce, InlineAwaited, BlockingSurvivesExit
<1> QED
  BY <1>2, <1>3, <1>4 DEF ObsInv

LEMMA StutterKeeps == ObsInv /\ UNCHANGED vars => ObsInv'
  BY SMTT(30)
  DEF ObsInv, TypeOK, SnapshotInv, OnePolicyPerSpan, EmittedOnce, InlineAwaited,
      BlockingSurvivesExit, vars, loopVars, telemetryVars

LEMMA PolicyStepsKeep ==
  ASSUME ObsInv, InstallPolicy \/ \E p \in Policies : Reload(p)
  PROVE  ObsInv'
<1>1. CASE InstallPolicy
  <2> USE <1>1 DEF ObsInv, InstallPolicy, telemetryVars
  <2>1. TypeOK'
    BY DEF TypeOK
  <2>2. SnapshotInv'
    BY DEF SnapshotInv, PolicyLocked, TypeOK
  <2>3. OnePolicyPerSpan'
    BY DEF OnePolicyPerSpan
  <2>4. EmittedOnce' /\ InlineAwaited' /\ BlockingSurvivesExit'
    BY DEF EmittedOnce, InlineAwaited, BlockingSurvivesExit
  <2> QED
    BY <2>1, <2>2, <2>3, <2>4
<1>2. ASSUME NEW p \in Policies, Reload(p) PROVE ObsInv'
  BY <1>2 DEF ObsInv, Reload, TypeOK, SnapshotInv, OnePolicyPerSpan, EmittedOnce,
     InlineAwaited, BlockingSurvivesExit, loopVars, telemetryVars
<1> QED
  BY <1>1, <1>2

LEMMA RecordKeeps ==
  ASSUME ObsInv, NEW v \in Violations, Record(v)
  PROVE  ObsInv'
<1> USE DEF ObsInv, Record, telemetryVars
<1>1. TypeOK'
  BY DEF TypeOK
<1>2. SnapshotInv' /\ OnePolicyPerSpan'
  BY DEF SnapshotInv, OnePolicyPerSpan
<1>3. EmittedOnce'
  BY DEF EmittedOnce
<1>4. InlineAwaited' /\ BlockingSurvivesExit'
  BY DEF InlineAwaited, BlockingSurvivesExit
<1> QED
  BY <1>1, <1>2, <1>3, <1>4

LEMMA SnapshotKeeps ==
  ASSUME ObsInv, Snapshot
  PROVE  ObsInv'
<1> USE DEF ObsInv, Snapshot, ReadEndpoint, ReadService, telemetryVars
<1>1. TypeOK'
  BY ObservabilityAssumption DEF TypeOK
<1>2. SnapshotInv' /\ OnePolicyPerSpan'
  BY DEF SnapshotInv, OnePolicyPerSpan
<1>3. EmittedOnce'
  BY DEF EmittedOnce
<1>4. InlineAwaited' /\ BlockingSurvivesExit'
  BY DEF InlineAwaited, BlockingSurvivesExit
<1> QED
  BY <1>1, <1>2, <1>3, <1>4

LEMMA CountKeeps ==
  ASSUME ObsInv, Count
  PROVE  ObsInv'
<1> USE DEF ObsInv, Count
<1>1. recording \in Violations /\ service \in Services /\ endpoint \in Endpoints
  BY DEF TypeOK
<1>2. Increment \in [violation: Violations, shadow: BOOLEAN, service: Services]
  BY <1>1, ObservabilityAssumption DEF Increment
<1>3. Emission.violation = recording
  BY DEF Emission
<1>4. endpoint # NoEndpoint => Emission \in Emissions
  BY <1>1 DEF Emission, Emissions
<1>5. UNCHANGED <<current, endpoint, service, log, killed>>
  OBVIOUS
<1>6. \/ /\ pc' = "emit" /\ UNCHANGED <<recording, inForce>>
         /\ endpoint # NoEndpoint /\ Inline(recording)
      \/ pc' = "idle" /\ recording' = NoViolation /\ inForce' = {}
  BY DEF Emit, Return
<1>7. \/ emitting' = emitting /\ pc' = "idle"
      \/ /\ endpoint # NoEndpoint /\ emitting' = emitting \cup {Emission}
         /\ Inline(recording) => pc' = "emit"
  BY DEF Emit, Return
<1>8. TypeOK'
  <2>1. counters' \subseteq [violation: Violations, shadow: BOOLEAN, service: Services]
    BY <1>2 DEF TypeOK
  <2>2. emitting' \subseteq Emissions
    BY <1>4, <1>7 DEF TypeOK
  <2>3. /\ pc' \in {"idle", "lock", "service", "count", "emit"}
        /\ recording' \in Violations \cup {NoViolation}
        /\ pc' # "idle" => recording' \in Violations
        /\ inForce' \subseteq Policies
    BY <1>1, <1>6 DEF TypeOK
  <2> QED
    BY <2>1, <2>2, <2>3 DEF TypeOK
<1>9. SnapshotInv' /\ OnePolicyPerSpan'
  BY <1>5, <1>6 DEF SnapshotInv, OnePolicyPerSpan
<1>10. EmittedOnce'
  <2>1. /\ pc' # "idle" => recording' \in log
        /\ pc' \notin {"lock", "service", "count"}
    BY <1>6 DEF EmittedOnce
  <2>2. \A e \in emitting' : e.violation \in log
    BY <1>3, <1>7 DEF EmittedOnce
  <2>3. \A e, f \in emitting' : e.violation = f.violation => e = f
    BY <1>3, <1>7 DEF EmittedOnce
  <2> QED
    BY <1>5, <2>1, <2>2, <2>3 DEF EmittedOnce
<1>11. InlineAwaited'
  <2>1. \A e \in emitting : ActionOf[e.violation] \notin Blocking
    BY DEF InlineAwaited
  <2>2. CASE emitting' = emitting
    BY <2>1, <2>2 DEF InlineAwaited
  <2>3. CASE endpoint # NoEndpoint /\ emitting' = emitting \cup {Emission}
    BY <1>3, <1>6, <1>7, <2>1, <2>3 DEF InlineAwaited, Inline
  <2> QED
    BY <1>7, <2>2, <2>3
<1>12. BlockingSurvivesExit'
  BY DEF BlockingSurvivesExit
<1> QED
  BY <1>8, <1>9, <1>10, <1>11, <1>12

-----------------------------------------------------------------------------
LEMMA GetTracerKeeps ==
  ASSUME ObsInv, NEW e \in emitting, GetTracer(e)
  PROVE  ObsInv'
<1> DEFINE d == [e EXCEPT !.step = "span"]
<1> USE DEF ObsInv, GetTracer, loopVars
<1>1. d \in Emissions /\ d.violation = e.violation
  BY DEF TypeOK, Emissions
<1>2. emitting' = (emitting \ {e}) \cup {d}
  OBVIOUS
<1> HIDE DEF d
<1>3. TypeOK'
  BY <1>1, <1>2, SMTT(30) DEF TypeOK, Emissions
<1>4. SnapshotInv' /\ OnePolicyPerSpan'
  BY DEF SnapshotInv, OnePolicyPerSpan
<1>5. EmittedOnce'
  BY <1>1, <1>2, SMTT(30) DEF EmittedOnce
<1>6. InlineAwaited' /\ BlockingSurvivesExit'
  BY <1>1, <1>2 DEF InlineAwaited, BlockingSurvivesExit
<1> QED
  BY <1>3, <1>4, <1>5, <1>6

LEMMA EndsKeeps ==
  ASSUME ObsInv, NEW e \in emitting, NEW result \in {"exported", "failed", "dropped"},
         Ends(e, result)
  PROVE  ObsInv'
<1> USE DEF ObsInv, Ends
<1>1. TypeOK'
  BY SMTT(30) DEF TypeOK, Emissions, Return
<1>2. SnapshotInv' /\ OnePolicyPerSpan'
  BY DEF SnapshotInv, OnePolicyPerSpan, Return
<1>3. EmittedOnce'
  BY SMTT(30) DEF EmittedOnce, Return
<1>4. InlineAwaited'
  BY SMTT(30) DEF InlineAwaited, EmittedOnce, Return
<1>5. BlockingSurvivesExit'
  BY DEF BlockingSurvivesExit
<1> QED
  BY <1>1, <1>2, <1>3, <1>4, <1>5

LEMMA ShutdownKeeps ==
  ASSUME ObsInv, ShutdownBegins \/ ShutdownEnds
  PROVE  ObsInv'
<1>1. CASE ShutdownBegins
  BY <1>1 DEF ObsInv, ShutdownBegins, TypeOK, SnapshotInv, OnePolicyPerSpan, EmittedOnce,
     InlineAwaited, BlockingSurvivesExit, loopVars
<1>2. CASE ShutdownEnds
  <2> DEFINE After(e) == IF e.step = "span" THEN [e EXCEPT !.shut = TRUE] ELSE e
  <2> USE <1>2 DEF ObsInv, ShutdownEnds, loopVars
  <2>1. \A e \in emitting : After(e) \in Emissions /\ After(e).violation = e.violation
    BY DEF TypeOK, Emissions
  <2>2. emitting' = {After(e) : e \in emitting}
    OBVIOUS
  <2> HIDE DEF After
  <2>3. TypeOK'
    <3>1. emitting' \subseteq Emissions
      BY <2>1, <2>2
    <3> QED
      BY <3>1 DEF TypeOK
  <2>4. SnapshotInv' /\ OnePolicyPerSpan'
    BY DEF SnapshotInv, OnePolicyPerSpan
  <2>5. EmittedOnce'
    BY <2>1, <2>2, SMTT(30) DEF EmittedOnce
  <2>6. InlineAwaited' /\ BlockingSurvivesExit'
    BY <2>1, <2>2 DEF InlineAwaited, BlockingSurvivesExit
  <2> QED
    BY <2>3, <2>4, <2>5, <2>6
<1> QED
  BY <1>1, <1>2

LEMMA ExitKeeps ==
  ASSUME ObsInv, Exit
  PROVE  ObsInv'
<1> USE DEF ObsInv, Exit, loopVars
<1>1. TypeOK'
  BY DEF TypeOK
<1>2. SnapshotInv' /\ OnePolicyPerSpan' /\ EmittedOnce' /\ InlineAwaited'
  BY DEF SnapshotInv, OnePolicyPerSpan, EmittedOnce, InlineAwaited
<1>3. BlockingSurvivesExit'
  BY DEF BlockingSurvivesExit, InlineAwaited
<1> QED
  BY <1>1, <1>2, <1>3

LEMMA StepKeeps == ObsInv /\ [Next]_vars => ObsInv'
<1> SUFFICES ASSUME ObsInv, [Next]_vars PROVE ObsInv'
  OBVIOUS
<1>1. CASE InstallPolicy \/ \E p \in Policies : Reload(p)
  BY <1>1, PolicyStepsKeep
<1>2. ASSUME NEW v \in Violations, Record(v) PROVE ObsInv'
  BY <1>2, RecordKeeps
<1>3. CASE Snapshot
  BY <1>3, SnapshotKeeps
<1>4. CASE Count
  BY <1>4, CountKeeps
<1>5. ASSUME NEW e \in emitting, GetTracer(e) PROVE ObsInv'
  BY <1>5, GetTracerKeeps
<1>6. ASSUME NEW e \in emitting, EndSpan(e) PROVE ObsInv'
  <2>1. PICK result \in {"exported", "failed", "dropped"} : Ends(e, result)
    BY <1>6 DEF EndSpan
  <2> QED
    BY <2>1, EndsKeeps
<1>7. ASSUME NEW e \in emitting, TracerFails(e) PROVE ObsInv'
  BY <1>7, EndsKeeps DEF TracerFails
<1>8. CASE ShutdownBegins \/ ShutdownEnds
  BY <1>8, ShutdownKeeps
<1>9. CASE Exit
  BY <1>9, ExitKeeps
<1>10. CASE UNCHANGED vars
  BY <1>10, StutterKeeps
<1> QED
  BY <1>1, <1>2, <1>3, <1>4, <1>5, <1>6, <1>7, <1>8, <1>9, <1>10 DEF Next

LEMMA Invariant == Spec => []ObsInv
  BY InitInv, StepKeeps, PTL DEF Spec

-----------------------------------------------------------------------------
(* Every variable keeps its type.                                          *)
THEOREM ObservabilityTypes == Spec => []TypeOK
  BY Invariant, PTL DEF ObsInv

(* What a violation is reported with comes from one policy, in force at    *)
(* some moment of _record_violation, for any reloads (core.py:163).        *)
THEOREM LabelsOfOnePolicy == Spec => []OnePolicyPerSpan
  BY Invariant, PTL DEF ObsInv

(* No span of a blocking violation dies with the process, for any number   *)
(* of violations, threads, providers and shutdowns (core.py:171).          *)
THEOREM BlockingSpansSurvive == Spec => []BlockingSurvivesExit
  BY Invariant, PTL DEF ObsInv

=============================================================================
