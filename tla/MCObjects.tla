----------------------------- MODULE MCObjects -----------------------------
\* A small world for Objects: a torch, and a lamp that weighs something in its
\* second state only and keeps its flame from state to state; whatever is in the
\* first state burns.  A small lit room and a dark one.
EXTENDS Objects

MCObjs      == {"torch", "lamp"}
MCNstates   == [o \in MCObjs |-> IF o = "lamp" THEN 2 ELSE 1]
MCWeightOf  == [n \in 0 .. 1 |-> n]
MCStartsLit == [n \in 0 .. 1 |-> n = 0]
MCShowFire  == {"lamp"}
MCRooms     == {0, 1}
MCDark      == {1}
MCSmall     == {0}
=============================================================================
