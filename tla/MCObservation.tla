----------------------------- MODULE MCObservation -----------------------------
EXTENDS Observation

CONSTANT Width                        \* a corridor of this many tiles

Corridor == {[x |-> i, y |-> 0] : i \in 0 .. Width - 1}
EastWest == {[x |-> 1, y |-> 0], [x |-> -1, y |-> 0]}

Acting  == {"step", "teleport", "spawn", "remove"}     \* around a standing player
Walking == {"walk", "spawn", "update"}                  \* the player walks
Carried == {"carry", "spawn"}                           \* others teleport the player
Rarely  == {"step", "spawn", "remove", "throttle"}      \* redrawn rarely
MCScenarios == {Acting, Walking, Carried, Rarely}
MCLiving    == {{"step", "spawn", "remove"}, {"step", "remove", "throttle"}}
===============================================================================
