--------------------------- MODULE PolicyWatcher ---------------------------
(***************************************************************************)
(* Hot reload (sentinel/watcher.py): the observer's thread handles the     *)
(* notifications of the policy file one after another; those that pass the *)
(* debounce start a thread each, which reads the file, and then hands the  *)
(* policy to Sentinel._on_policy_reload.  The threads are not joined, by   *)
(* each other or by stop().                                                *)
(*                                                                         *)
(* The constructor has loaded the file and started the watcher; a write    *)
(* between the two, of which nobody is told, is left out.                  *)
(*                                                                         *)
(* A file content is a number, in the order the contents were written, and *)
(* what load_policy makes of it.  Editors and watchdog are external: every *)
(* write in place sends one notification.                                  *)
(***************************************************************************)
EXTENDS Integers

CONSTANTS Debounce,    \* debounce_seconds
          MaxContents, \* bound: contents written
          MaxTime      \* bound: the clock

(* load_policy: a mapping that validates; an empty file, as an editor      *)
(* leaves it between truncating and writing, which is the default policy;  *)
(* and anything else, which raises.                                        *)
Loads == {"policy", "default"}
Kinds == Loads \cup {"malformed"}
Content == [no : 0..MaxContents, kind : Kinds]

ASSUME WatcherAssumption ==
  Debounce \in Nat \ {0} /\ MaxContents \in Nat /\ MaxTime \in Nat

VARIABLES file,        \* the content of the policy file
          active,      \* Sentinel._policy
          unhandled,   \* notifications the observer's thread has not handled
          lastReload,  \* _last_reload
          fresh,       \* reload threads, by the time of their start (no two
                       \* share one), that have not read the file
          loaded,      \* [by, policy]: read by a thread and not installed
          watching,    \* start() was called, and stop() was not
          now,         \* time.monotonic(), long enough after boot
          handledAt,   \* history: when the last notification was handled
          crowded      \* history: the last write did not keep its distance
vars == <<file, active, unhandled, lastReload, fresh, loaded, watching, now, handledAt, crowded>>

TypeOK ==
  /\ file \in Content
  /\ active \in Content /\ active.kind \in Loads
  /\ unhandled \in 0..MaxContents
  /\ lastReload \in -Debounce..MaxTime
  /\ fresh \subseteq 0..MaxTime
  /\ loaded \subseteq [by : 0..MaxTime, policy : Content]
  /\ \A l \in loaded : l.policy.kind \in Loads
  /\ watching \in BOOLEAN
  /\ now \in 0..MaxTime
  /\ handledAt \in -Debounce..MaxTime
  /\ crowded \in BOOLEAN

Init ==
  /\ file = [no |-> 0, kind |-> "policy"] /\ active = file
  /\ unhandled = 0 /\ lastReload = -Debounce
  /\ fresh = {} /\ loaded = {}
  /\ watching = TRUE
  /\ now = 0 /\ handledAt = -Debounce
  /\ crowded = FALSE

(* Nothing is under way: what is active stays active until the next write. *)
Idle == unhandled = 0 /\ fresh = {} /\ loaded = {}

Tick ==
  /\ now < MaxTime /\ now' = now + 1
  /\ UNCHANGED <<file, active, unhandled, lastReload, fresh, loaded, watching, handledAt, crowded>>

(* A write keeps its distance when the file is watched, the write before   *)
(* was dealt with, and its notification handled a debounce ago.            *)
Write(kind) ==
  /\ file.no < MaxContents
  /\ file' = [no |-> file.no + 1, kind |-> kind]
  /\ crowded' = ~(watching /\ Idle /\ now - handledAt >= Debounce)
  /\ unhandled' = IF watching THEN unhandled + 1 ELSE unhandled
  /\ UNCHANGED <<active, lastReload, fresh, loaded, watching, now, handledAt>>

(* Seeded fault: a reload exactly one debounce after the last is refused.  *)
DebouncedInclusive == now - lastReload <= Debounce

Debounced == now - lastReload < Debounce

(* on_modified, in the observer's thread.                                  *)
OnModified ==
  /\ unhandled > 0
  /\ unhandled' = unhandled - 1
  /\ handledAt' = now
  /\ IF Debounced THEN UNCHANGED <<lastReload, fresh>>
     ELSE lastReload' = now /\ fresh' = fresh \cup {now}
  /\ UNCHANGED <<file, active, loaded, watching, now, crowded>>

(* Seeded fault: a file that does not validate is taken as it is.          *)
LoadableAny == TRUE

Loadable == file.kind \in Loads

(* _reload: read and validate; an exception ends the thread.               *)
LoadPolicy ==
  \E t \in fresh :
    /\ fresh' = fresh \ {t}
    /\ loaded' = IF Loadable THEN loaded \cup {[by |-> t, policy |-> file]} ELSE loaded
    /\ UNCHANGED <<file, active, unhandled, lastReload, watching, now, handledAt, crowded>>

(* _reload: on_reload.                                                     *)
OnReload ==
  \E l \in loaded :
    /\ active' = l.policy
    /\ loaded' = loaded \ {l}
    /\ UNCHANGED <<file, unhandled, lastReload, fresh, watching, now, handledAt, crowded>>

(* stop() ends and joins the observer's thread.                            *)
Stop ==
  /\ watching /\ watching' = FALSE /\ unhandled' = 0
  /\ UNCHANGED <<file, active, lastReload, fresh, loaded, now, handledAt, crowded>>

Next ==
  \/ Tick \/ (\E kind \in Kinds : Write(kind))
  \/ OnModified \/ LoadPolicy \/ OnReload \/ Stop

Spec == Init /\ [][Next]_vars

-----------------------------------------------------------------------------
(* PROPERTIES *)

(* "Edit and save while the process is running; the next call picks up the *)
(* new policy" (README.md:40): once every notification was handled and every     *)
(* reload has ended, the policy in force is that of the file, unless the   *)
(* file is not a policy.                                                   *)
EditPickedUp ==
  Idle /\ watching /\ file.kind \in Loads => active = file

(* What the watcher does guarantee: an edit that finds the watcher idle, a *)
(* debounce after the notification before it, is picked up, whatever came  *)
(* before: burst writes, files read half-written, reloads that failed or   *)
(* overtook each other.                                                    *)
SpacedEditPickedUp == ~crowded => EditPickedUp

(* Why it is inductive: after such an edit exactly one of its notification,*)
(* its reload thread and its policy is under way until it is in force, and *)
(* the debounce lets that notification through.                            *)
StampHandled == lastReload <= handledAt /\ handledAt <= now

EditUnderWay ==
  ~crowded /\ watching =>
    \/ unhandled = 1 /\ fresh = {} /\ loaded = {} /\ now - lastReload >= Debounce
    \/ unhandled = 0 /\ loaded = {} /\ \E t \in fresh : fresh = {t}
    \/ unhandled = 0 /\ fresh = {} /\ \E l \in loaded : loaded = {l} /\ l.policy = file
    \/ unhandled = 0 /\ fresh = {} /\ loaded = {} /\ (Loadable => active = file)

(* Every write sends at most one notification.                             *)
NotificationsBounded == unhandled <= file.no

WatcherInv == TypeOK /\ NotificationsBounded /\ StampHandled /\ EditUnderWay
=============================================================================
