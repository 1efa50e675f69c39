------------------------------ MODULE MCItems ------------------------------
(***************************************************************************)
(* Instances of Items for TLC: two players, two zones, and who has what at *)
(* the start of each scenario.  Serials 1 .. 5 exist, the others are fresh.*)
(***************************************************************************)
EXTENDS Items

MCSerials   == 1 .. 8
MCKinds     == {"coin", "bag", "gear", "charm", "corpse", "shroud"}
MCStackable == {"coin"}
MCNewbie    == {"charm"}
MCLayers    == {"backpack", "robe"}

It(k, n)      == [kind |-> k, amount |-> n]
One(i, it)    == [j \in {i} |-> it]
On(l, k)      == [layer |-> l, kind |-> k]
Bare0         == [z \in Zones |-> Empty]

Stacks ==
  [acts |-> {"consume", "leave"}, mortals |-> {}, lifts |-> 3, fresh |-> {6}, spent |-> {5, 7, 8},
   ground |-> [Bare0 EXCEPT !["here"] = Put(One(2, It("coin", 1)), 3, It("bag", 1))],
   boxes |-> [Bare0 EXCEPT !["here"] = Put(One(1, One(4, It("coin", 2))), 3, Empty)],
   worn |-> [a |-> One(1, On("backpack", "bag")), b |-> Empty],
   place |-> [a |-> "here", b |-> "here"]]

Death ==
  [acts |-> {}, mortals |-> {"a"}, lifts |-> 2, fresh |-> 6 .. 7, spent |-> {3, 8},
   ground |-> Bare0,
   boxes |-> [Bare0 EXCEPT !["here"] = One(1, Put(One(2, It("charm", 1)), 4, It("coin", 2)))],
   worn |-> [a |-> Put(One(1, On("backpack", "bag")), 5, On("robe", "gear")), b |-> Empty],
   place |-> [a |-> "here", b |-> "here"]]

Travel ==
  [acts |-> {"travel", "leave"}, mortals |-> {}, lifts |-> 2, fresh |-> {}, spent |-> {2, 6, 7, 8},
   ground |-> Bare0,
   boxes |-> [Bare0 EXCEPT !["here"] = Put(Put(One(1, One(3, It("bag", 1))), 3, One(4, It("coin", 1))), 5, Empty)],
   worn |-> [a |-> One(1, On("backpack", "bag")), b |-> One(5, On("backpack", "bag"))],
   place |-> [a |-> "here", b |-> "here"]]

Errand == [Death EXCEPT !.acts = {"travel"}, !.lifts = 1]

Cutoff == [Errand EXCEPT !.acts = {"hangup"}]

MCScenes   == {Stacks, Death, Travel, Errand, Cutoff}
MCBarePack == {[Death EXCEPT !.acts = {"barepack"}]}
=============================================================================
