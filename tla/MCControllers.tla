---------------------------- MODULE MCControllers ----------------------------
(* Scenarios of Controllers: each run of the system allows what its scenario *)
(* names; those that leave timers behind have one creature.                  *)
EXTENDS Controllers

CONSTANTS a, b

Scene(acts, cast) == [acts |-> acts, cast |-> cast]

MCScenarios ==
  {Scene({"replace", "remove"}, {a}), Scene({"replace", "overtake"}, {a}), Scene({"load"}, {a}),
   Scene({"transfer", "stale"}, {a}), Scene({"transfer", "overtake"}, {a}),
   Scene({"remove", "transfer"}, {a, b}), Scene({"hit", "kill"}, {a}), Scene({"spawner", "script"}, {a, b}),
   Scene({"melee", "transfer"}, {a, b}), Scene({"poison", "kill"}, {a})}

==============================================================================
