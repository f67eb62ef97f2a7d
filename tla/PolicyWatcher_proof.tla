------------------------ MODULE PolicyWatcher_proof ------------------------
(***************************************************************************)
(* The guarantee of the watcher for every debounce, and any number of      *)
(* writes at any times: an edit that keeps its distance is picked up.      *)
(***************************************************************************)
EXTENDS PolicyWatcher, TLAPS

(* The invariant holds of the watcher the constructor has started.         *)
LEMMA WatcherInit == Init => WatcherInv
<1> SUFFICES ASSUME Init PROVE WatcherInv
  OBVIOUS
<1>1. file \in Content /\ file.no = 0 /\ file.kind \in Loads
  BY WatcherAssumption DEF Init, Content, Kinds, Loads
<1>2. TypeOK
  <2>1. watching \in BOOLEAN /\ crowded \in BOOLEAN
    BY DEF Init
  <2>2. /\ -Debounce \in -Debounce..MaxTime /\ 0 \in 0..MaxTime /\ 0 \in 0..MaxContents
    BY WatcherAssumption
  <2> QED
    BY <1>1, <2>1, <2>2 DEF Init, TypeOK
<1>3. NotificationsBounded /\ StampHandled
  BY <1>1, WatcherAssumption DEF Init, NotificationsBounded, StampHandled
<1>4. EditUnderWay
  BY DEF Init, EditUnderWay
<1> QED
  BY <1>2, <1>3, <1>4 DEF WatcherInv

(* Every step of the editor, the observer and the reload threads keeps it. *)
LEMMA WatcherStep == WatcherInv /\ [Next]_vars => WatcherInv'
<1> SUFFICES ASSUME WatcherInv, [Next]_vars PROVE WatcherInv'
  OBVIOUS
<1> USE WatcherAssumption DEF WatcherInv, NotificationsBounded, StampHandled
<1>0. /\ lastReload \in Int /\ handledAt \in Int /\ now \in Nat /\ unhandled \in Nat
      /\ Debounce \in Nat /\ now \in -Debounce..MaxTime
  BY DEF TypeOK
<1>1. CASE Tick
  BY <1>1 DEF Tick, TypeOK, EditUnderWay, Loadable
<1>2. ASSUME NEW kind \in Kinds, Write(kind) PROVE WatcherInv'
  <2>1. file' \in Content /\ file'.no = file.no + 1
    BY <1>2 DEF Write, TypeOK, Content
  <2>2. TypeOK'
    <3>1. unhandled + 1 \in 0..MaxContents
      BY <1>2 DEF Write, TypeOK, Content
    <3> QED
      BY <1>2, <2>1, <3>1 DEF Write, TypeOK
  <2>3. NotificationsBounded'
    BY <1>2, <2>1 DEF Write, TypeOK, Content
  <2>4. EditUnderWay'
    <3> SUFFICES ASSUME ~crowded', watching
                 PROVE  /\ unhandled' = 1 /\ fresh' = {} /\ loaded' = {}
                        /\ now' - lastReload' >= Debounce
      BY <1>2 DEF Write, EditUnderWay
    <3>1. Idle /\ now - handledAt >= Debounce
      BY <1>2 DEF Write
    <3>2. now - lastReload >= Debounce
      BY <1>0, <3>1
    <3> QED
      BY <1>2, <3>1, <3>2 DEF Write, Idle
  <2> QED
    BY <1>2, <2>2, <2>3, <2>4 DEF Write
<1>3. CASE OnModified
  <2>1. TypeOK'
    <3>1. unhandled' \in 0..MaxContents
      BY <1>0, <1>3 DEF OnModified, TypeOK
    <3>2. lastReload' \in -Debounce..MaxTime /\ fresh' \subseteq 0..MaxTime
      BY <1>0, <1>3 DEF OnModified, TypeOK
    <3> QED
      BY <1>0, <1>3, <3>1, <3>2 DEF OnModified, TypeOK
  <2>2. EditUnderWay'
    <3> SUFFICES ASSUME ~crowded, watching
                 PROVE  /\ unhandled' = 0 /\ loaded' = {} /\ fresh' = {now}
      BY <1>3 DEF OnModified, EditUnderWay
    <3>1. unhandled = 1 /\ fresh = {} /\ loaded = {} /\ now - lastReload >= Debounce
      BY <1>0, <1>3 DEF OnModified, EditUnderWay
    <3>2. ~Debounced
      BY <1>0, <3>1 DEF Debounced
    <3> QED
      BY <1>3, <3>1, <3>2 DEF OnModified
  <2> QED
    BY <1>3, <2>1, <2>2 DEF OnModified, TypeOK, Content
<1>4. CASE LoadPolicy
  <2> PICK t \in fresh : /\ fresh' = fresh \ {t}
                         /\ loaded' = IF Loadable THEN loaded \cup {[by |-> t, policy |-> file]}
                                      ELSE loaded
                         /\ UNCHANGED <<file, active, unhandled, lastReload, watching, now,
                                        handledAt, crowded>>
    BY <1>4 DEF LoadPolicy
  <2>1. TypeOK'
    BY DEF TypeOK, Loadable
  <2>2. EditUnderWay'
    <3> SUFFICES ASSUME ~crowded, watching PROVE EditUnderWay'
      BY DEF EditUnderWay
    <3>1. unhandled = 0 /\ loaded = {} /\ fresh' = {}
      BY DEF EditUnderWay
    <3>2. CASE Loadable
      <4> DEFINE new == [by |-> t, policy |-> file]
      <4>1. loaded' = {new} /\ new.policy = file
        BY <3>1, <3>2
      <4> HIDE DEF new
      <4>2. \E l \in loaded' : loaded' = {l} /\ l.policy = file'
        BY <4>1
      <4> QED
        BY <3>1, <4>2 DEF EditUnderWay
    <3>3. CASE ~Loadable
      BY <3>1, <3>3 DEF EditUnderWay, Loadable
    <3> QED
      BY <3>2, <3>3
  <2> QED
    BY <2>1, <2>2 DEF TypeOK, Content
<1>5. CASE OnReload
  <2> PICK l \in loaded : /\ active' = l.policy
                          /\ loaded' = loaded \ {l}
                          /\ UNCHANGED <<file, unhandled, lastReload, fresh, watching, now,
                                         handledAt, crowded>>
    BY <1>5 DEF OnReload
  <2>1. TypeOK'
    BY DEF TypeOK
  <2>2. EditUnderWay'
    BY DEF EditUnderWay
  <2> QED
    BY <2>1, <2>2 DEF TypeOK, Content
<1>6. CASE Stop
  <2>1. TypeOK'
    <3>1. watching' \in BOOLEAN
      BY <1>6 DEF Stop
    <3>2. 0 \in 0..MaxContents
      OBVIOUS
    <3> QED
      BY <1>6, <3>1, <3>2 DEF Stop, TypeOK
  <2>2. NotificationsBounded'
    BY <1>6 DEF Stop, TypeOK, Content
  <2> QED
    BY <1>6, <2>1, <2>2 DEF Stop, EditUnderWay
<1>7. CASE UNCHANGED vars
  BY <1>7 DEF vars, TypeOK, EditUnderWay, Loadable
<1> QED
  BY <1>1, <1>2, <1>3, <1>4, <1>5, <1>6, <1>7 DEF Next

(* The strengthened invariant of the watcher.                              *)
LEMMA WatcherInvariant == Spec => []WatcherInv
<1>1. Init => WatcherInv
  BY WatcherInit
<1>2. WatcherInv /\ [Next]_vars => WatcherInv'
  BY WatcherStep
<1> QED
  BY <1>1, <1>2, PTL DEF Spec

(* Every variable of the watcher keeps its type; in particular what is in  *)
(* force (watcher.py:40-46) is never a file that did not validate.         *)
THEOREM WatcherTypes == Spec => []TypeOK
<1>1. WatcherInv => TypeOK
  BY DEF WatcherInv
<1> QED
  BY <1>1, WatcherInvariant, PTL

(* An edit that finds the watcher idle, a debounce after the notification  *)
(* before it, is in force once the watcher is idle again (watcher.py:28-46).*)
THEOREM SpacedEdits == Spec => []SpacedEditPickedUp
<1>1. WatcherInv => SpacedEditPickedUp
  BY DEF WatcherInv, TypeOK, EditUnderWay, SpacedEditPickedUp, EditPickedUp, Idle, Loadable
<1> QED
  BY <1>1, WatcherInvariant, PTL
=============================================================================
