------------------------------- MODULE Alarms --------------------------------
(***************************************************************************)
(* What the timers of the controllers promise, whatever keeps them: an     *)
(* alarm is set for a time, may follow its owner to another zone, and      *)
(* rings once, not before its time, while its own zone is being served.    *)
(***************************************************************************)
EXTENDS Integers

CONSTANTS Owners, AlarmZones, Ids, Nowhere

VARIABLES
  clock,
  alarms,      \* the alarms that have not rung: [id, owner, zone, at]
  serving      \* the zone being served, or Nowhere
vars == <<clock, alarms, serving>>

Alarm == [id : Ids, owner : Owners, zone : AlarmZones, at : Nat]

Init == clock = 0 /\ alarms = {} /\ serving = Nowhere

Elapse == clock' > clock /\ UNCHANGED <<alarms, serving>>

Serve == /\ serving' \in AlarmZones \cup {Nowhere}
         /\ UNCHANGED <<clock, alarms>>

\* At most one alarm rings in a step, and the one it leads to may be set.
Ring(a) == /\ a.zone = serving /\ a.at <= clock
           /\ a \in alarms /\ a \notin alarms'
           /\ alarms \ {a} \subseteq alarms'
           /\ UNCHANGED <<clock, serving>>

Set == /\ alarms \subseteq alarms'
       /\ UNCHANGED <<clock, serving>>

\* The alarms of an owner follow it.
Follow(o, z) ==
  /\ alarms' = {IF a.owner = o THEN [a EXCEPT !.zone = z] ELSE a : a \in alarms}
  /\ UNCHANGED <<clock, serving>>

Next == \/ Elapse \/ Serve \/ Set
        \/ \E a \in alarms : Ring(a)
        \/ \E o \in Owners, z \in AlarmZones : Follow(o, z)

Spec == Init /\ [][Next]_vars
==============================================================================
