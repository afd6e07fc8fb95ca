----------------------------- MODULE MCInterpreter -----------------------------
(* Games for Interpreter. *)
EXTENDS Interpreter, TLC

Do(c, op, arg) == [cond |-> c, not |-> FALSE, op |-> op, arg |-> arg]
Verb(travel, syntaxes) == [travel |-> travel, syntaxes |-> syntaxes]
Go(verb, c, op, arg) == [verb |-> verb, line |-> Do(c, op, arg)]

Rooms ==
  [hall |-> <<Go("north", "test", "goto", "cave"), Go("south", "always", "skip", 1),
              Go("south", "always", "goto", "cave"), Go("north", "always", "failparse", 0)>>,
   cave |-> <<Go("south", "spell", "goto", "hall"), Go("south", "test", "abortparse", 0),
             Go("north", "always", "goto", "hall")>>,
   pit  |-> <<>>]

North == Verb(TRUE, << >>)
South == Verb(TRUE, <<<<Do("test", "reply", 0), Do("and", "quit", 0)>>,
                      <<Do("test", "travel", 0), Do("always", "reply", 0)>>>>)

\* Every action but treatas and start, in verbs of one and two syntaxes.
Plainest ==
  [rooms |-> Rooms,
   verbs |-> [north |-> North, south |-> South,
              act |-> Verb(FALSE, <<<<Do("test", "skip", 2), Do("else", "endparse", 0),
                                      [Do("and", "reply", 0) EXCEPT !.not = TRUE],
                                      Do("test", "abortparse", 0)>>,
                                    <<Do("test", "travel", 0), Do("always", "hurt", 0),
                                      Do("else", "failparse", 0)>>,
                                    <<Do("test", "kill", 0), Do("test", "check", 0), Do("and", "move", "cave"),
                                      Do("always", "skip", 1)>>>>)]]

\* The same with verbs of the game's own for speech, travel and the start of the world.
Quoted ==
  [Plainest EXCEPT !.verbs =
     @ @@ [speech |-> Verb(FALSE, <<<<Do("always", "reply", 0), Do("test", "endparse", 0)>>>>),
           travel |-> Verb(FALSE, <<<<Do("test", "failparse", 0), Do("else", "quit", 0)>>>>),
           boot   |-> Verb(FALSE, <<<<Do("always", "reply", 0)>>>>)]]

\* A travel table that starts a verb, and one that looks into the travel table again.
Halls ==
  [Rooms EXCEPT !.pit = <<Go("omen", "test", "start", "omen")>>,
                !.cave = <<Go("north", "test", "travel", 0), Go("north", "test", "endparse", 0),
                           Go("north", "always", "goto", "pit")>>]

Starts ==
  [rooms |-> Halls,
   verbs |-> [north |-> North, south |-> North,
              pray |-> Verb(FALSE, <<<<Do("test", "start", "omen"), Do("always", "reply", 0)>>>>),
              omen |-> Verb(FALSE, <<<<Do("test", "endparse", 0)>>, <<Do("test", "reply", 0)>>,
                                     <<Do("test", "travel", 0), Do("else", "failparse", 0)>>>>)]]

\* precious/lang.txt:659-678, glow: what comes before the treatas is done first.
Treats ==
  [rooms |-> Rooms,
   verbs |-> [north |-> North, south |-> North, left |-> Verb(FALSE, <<<<Do("always", "treatas", "north")>>>>),
              glow |-> Verb(FALSE, <<<<Do("test", "reply", 0), Do("always", "treatas", "glowing")>>>>),
              glowing |-> Verb(FALSE, <<<<Do("always", "reply", 0)>>>>)]]

MCGames == {Plainest, Quoted, Starts, Treats}
MCTreats == {Treats}
MCSpecial == {Quoted}
================================================================================
