------------------------------- MODULE Opcodes -------------------------------
(***************************************************************************)
(* The instruction set of the game language: the conditions and actions of *)
(* constants.cpp with the kinds of their parameters, and the labels by     *)
(* which a line of the language names a word of the player's command or a  *)
(* property of the player (amul.acts.h).  A kind is a word type            *)
(* (parser.wtype.h) or one of the special parameter types of ptype.h.      *)
(***************************************************************************)
EXTENDS Sequences, TLC

\* Names with the given parameters, with one parameter of the given kind, and with none.
Many(kinds, names) == [names |-> names, kinds |-> kinds]
One(kind, names) == Many(<<kind>>, names)
Bare(names) == Many(<<>>, names)

\* The parameters of each name of a table.
Parameters(table) ==
  [op \in UNION {row.names : row \in table} |-> (CHOOSE row \in table : op \in row.names).kinds]

\* The table conditions[].
conditionRows ==
  {Bare({"&", "-", "else", "always", "light", "asleep", "sitting", "lying", "onlyuser", "alone",
        "gotnothing", "hidden", "toprank", "->", "&>", "gothelp", "givinghelp", "else>",
        "autoexits", "debug"}),
   One("noun", {"ishere", "opens", "carrying", "nearto", "someonehas", "burns", "container",
                  "empty", "objinv", "noun1", "noun2", "dec", "inc", "lit", "fire", "exists"}),
   One("number", {"myrank", "taskdone", "time"}),
   One("verb", {"lastverb", "lastdir"}),
   One("room", {"lastroom", "inroom"}),
   One("player", {"sameroom", "helping", "fighting", "cansee", "visibleto"}),
   One("gender", {"mysex"}), One("rdmode", {"rdmode"}), One("daemon", {"active"}),
   Many(<<"noun", "number">>, {"state", "gota", "objsin"}),
   Many(<<"number", "number">>, {"rand"}), Many(<<"noun", "player">>, {"cangive"}),
   Many(<<"player", "spell">>, {"infl", "inflicted"}), Many(<<"daemon", "number">>, {"timer"}),
   Many(<<"player", "number">>, {"health", "spell"}), Many(<<"stat", "player">>, {"full"}),
   Many(<<"stat", "player", "number">>, {"stat"}), Many(<<"room", "noun">>, {"in"}),
   Many(<<"number", "number", "number">>, {"magic"})}
conditions == Parameters(conditionRows)

\* The table actions[].
actionRows ==
  {Bare({"quit", "save", "look", "what", "endparse", "killme", "finishparse", "abortparse",
        "failparse", "whereami", "invent", "sleep", "wake", "sit", "stand", "lie", "reset",
        "travel", "stophelp", "flee", "combat", "lose", "stopfollow", "exits", "showtasks", "toprank"}),
   One("noun", {"where", "get", "drop", "addval", "checknear", "checkget", "destroy", "recover",
                  "contents", "objinvis", "objvis", "wield", "burn", "douse", "inc", "dec"}),
   One("text", {"message", "reply", "log", "respond", "error"}),
   One("number", {"skip", "wait", "bleep", "settask"}), One("verb", {"treatas", "do"}),
   One("room", {"goto", "move"}), One("verbosity", {"score", "who"}),
   One("player", {"changesex", "summon", "help", "fight", "follow", "interact"}),
   One("rdmode", {"rdmode"}), One("onoff", {"autoexits"}),
   One("daemon", {"cancel", "begin", "showtimer"}),
   Many(<<"noun", "number">>, {"state", "damage", "repair"}), Many(<<"noun", "room">>, {"send"}),
   Many(<<"announce", "text">>, {"announce", "action"}),
   Many(<<"room", "text">>, {"announceto", "actionto"}),
   Many(<<"noun", "text">>, {"announcefrom", "actionfrom", "objannounce", "objaction"}),
   Many(<<"player", "text">>, {"tell", "force", "setpre", "setpost", "setarr", "setdep"}),
   Many(<<"noun", "player">>, {"give"}), Many(<<"player", "spell">>, {"inflict", "cure"}),
   Many(<<"number", "stat", "player">>, {"add", "sub"}), Many(<<"stat", "player">>, {"fix"}),
   Many(<<"daemon", "number">>, {"start", "gstart"}), Many(<<"real", "real">>, {"syntax"}),
   Many(<<"player", "number">>, {"deduct"}),
   Many(<<"player", "daemon", "number">>, {"senddaemon"})}
actions == Parameters(actionRows)

\* Labels of words of the command: which of the words (0 the adjective, 1 the noun, 2 the
\* preposition, 3 and 4 the second adjective and noun).
SlotLabels ==
  [l \in {"adj", "adj1"} |-> 0] @@ [l \in {"adj2"} |-> 3] @@ [l \in {"prep"} |-> 2]
  @@ [l \in {"noun", "noun1", "player", "player1", "text", "text1", "room", "room1", "number", "number1"} |-> 1]
  @@ [l \in {"noun2", "player2", "text2", "room2"} |-> 4]

\* Labels that end in 1: they never stand for the second word.
FirstOnly == {"adj1", "noun1", "player1", "text1", "room1", "number1"}

\* Labels of properties of the player, with the type of word they stand for.
OwnLabels ==
  [l \in {"locate", "weapon"} |-> "noun"] @@ [l \in {"me", "friend", "helper", "enemy"} |-> "player"]
  @@ [l \in {"here", "lastroom"} |-> "room"] @@ [l \in {"lastdir", "lastverb"} |-> "verb"]
  @@ [l \in {"myrank", "myscore", "mysctg", "mystr"} |-> "number"]
=============================================================================
