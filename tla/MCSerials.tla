----------------------------- MODULE MCSerials -----------------------------
\* Three mobiles and one item, with a boundary between that is neither.
EXTENDS Serials

MCFirst == [k \in Kinds |-> IF k = "mobile" THEN 1 ELSE 5]
MCLast  == [k \in Kinds |-> IF k = "mobile" THEN 4 ELSE 6]

MCScenarios == {{"scripts"}, {"transfer", "keep"}, {"load"},
                {"scripts", "alongside", "meanwhile"}, {"scripts", "load"}, {"scripts", "transfer", "keep"},
                {"scripts", "clear"}}
MCAlongside == {{"scripts", "alongside"}}
=============================================================================
