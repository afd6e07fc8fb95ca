------------------------------ MODULE MCRanks ------------------------------
(***************************************************************************)
(* Five ranks, so that a demotion can pass two ranks and climb again below *)
(* the top one.  Rank 2 and the top rank ask for a task, as the upper      *)
(* ranks of the test game do.                                              *)
(***************************************************************************)
EXTENDS Ranks

MCScore      == [r \in 0 .. 4 |-> r]
MCTask       == [r \in 0 .. 4 |-> CASE r = 2 -> 1 [] r = 4 -> 2 [] OTHER -> 0]
MCExperience == [r \in 0 .. 4 |-> r \div 2]
MCStats      == [r \in 0 .. 4 |-> [n \in StatNames |->
                    CASE n = "stamina" -> 1 [] n = "wisdom" -> 0
                      [] OTHER -> IF r = 0 THEN 0 ELSE 1]]
=============================================================================
