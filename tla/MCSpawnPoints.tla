---------------------------- MODULE MCSpawnPoints ----------------------------
\* Two zones with a static point in the first, and one spawner object.
EXTENDS SpawnPoints

CONSTANTS z1, z2, p1, s1

MCHome == [p \in Points |-> z1]
Scene(a, zs) == [acts |-> a, zones |-> zs]
MCScenarios == {Scene({"die", "restart"}, {z1, z2}), Scene({"die", "spawner"}, {z1}), Scene({"spawner", "restart"}, {z1}),
                Scene({"die", "load", "torn"}, {z1, z2}), Scene({"leave", "restart", "torn"}, {z1, z2}),
                Scene({"spawner", "carry"}, {z1, z2})}
=============================================================================
