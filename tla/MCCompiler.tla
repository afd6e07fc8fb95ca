----------------------------- MODULE MCCompiler -----------------------------
\* Small text files for Compiler: for each phase a file or two without errors and a few that
\* have one.  Two system messages; two rooms, one of them deadly; a box with things inside.
EXTENDS Compiler

Text(label) == [label |-> label, more |-> FALSE]

Titles == {DefaultTitleTxt, <<[settings |-> [i \in 1..7 |-> IF i = 2 THEN "bad" ELSE "ok"]]>>}

SysMsgs == {<<Text("$1"), Text("$2")>>, <<Text("$2"), Text("$1")>>, <<Text("$1")>>}

UMsgs == {<<Text("hint")>>, <<Text("hint"), Text("hint")>>}

ObDescs == {<<Text("boxed")>>, <<Text("$1")>>}

Hall == [id |-> "hall", desc |-> <<"shortDesc", "longDesc">>,
         words |-> <<Flag("startloc"), [key |-> "dmove", val |-> "pit"]>>]
Pit == [id |-> "pit", desc |-> <<>>, words |-> <<Flag("death")>>]

RoomFiles == {<<Hall, Pit>>, <<Pit, Hall, Pit>>, <<Hall>>, <<Hall, Pit, Hall>>}

RankLine(bad) == [id |-> "novice", words |-> [i \in 1..14 |-> IF i = bad THEN "bad" ELSE "ok"]]
RankFiles == {<<RankLine(0)>>, <<RankLine(3), RankLine(0)>>}

Texts(names) == [i \in DOMAIN names |-> [key |-> NpcTexts[i], arg |-> Name(names[i])]]
Rat(texts, dmove) ==
  [id |-> "rat", stats |-> "ok", texts |-> Texts(texts), words |-> <<[key |-> "dmove", val |-> dmove]>>]
NpcFiles ==
  {<<Rat(<<"hint", "none", "none", "none", "none", "none">>, "hall")>>,
   <<Rat(<<"hint">>, "hall"), Rat(<<>>, "hell")>>}

Is(desc, flags) == [stats |-> "numbers", desc |-> <<desc>>, flags |-> flags]
Box(holds) ==
  [id |-> "box", words |-> <<[key |-> "holds", val |-> holds], Flag("opens")>>, rooms |-> <<"hall", "pit">>,
   states |-> <<Is(Name("boxed"), <<"open">>)>>]
Coin(start) ==
  [id |-> "coin", words |-> <<[key |-> "start", val |-> start], [key |-> "npc", val |-> "rat"]>>,
   rooms |-> <<"box">>, states |-> <<Is(Quoted("a coin"), <<>>), Is(Name("hint"), <<"lit">>)>>]

ObjectFiles == {<<Box(5), Coin(1)>>, <<Box(0), Coin(1)>>, <<Box(5), Coin(2)>>}

Typed(types) == [i \in DOMAIN types |-> [type |-> types[i], tag |-> NoTag]]
Verb(id, flags, syntaxes) ==
  [type |-> "verb", id |-> id, words |-> flags, syntaxes |-> syntaxes,
   body |-> IF syntaxes = <<>> THEN "blank" ELSE "syntax"]
Under(types, lines) == [words |-> Typed(types), lines |-> [i \in DOMAIN lines |-> Names(lines[i])]]

North == [type |-> "travel", words |-> <<"north">>]
Move == Verb("north", <<>>, <<Under(<<"none">>, <<<<"hall">>, <<"not", "light", "goto", "pit">>, <<ALWAYSEP>>>>)>>)

\* Labels for the first and the second word of the command.
Give ==
  Verb("give", <<"travel", "?chae">>,
       <<Under(<<"noun", "player">>, <<<<"carrying", "noun1", "give", "noun", "to", "player">>>>),
         Under(<<"noun", "prep", "noun">>, <<<<"if", "carrying", "noun2", "get", "noun">>, <<"goto", "hall">>>>)>>)

\* A verb that is defined under travel= and once more; a state set without a condition; a
\* label of a word that is not there; no number where one is due.
LangFiles ==
  {<<North, Move>>, <<North, Give>>,
   <<North, Verb("open", <<>>, <<Under(<<"noun">>, <<<<"state", "noun", "1">>>>)>>)>>,
   <<North, Verb("open", <<>>, <<Under(<<"noun">>, <<<<"get", "noun2">>, <<"myrank", ">5", "goto", "hall">>>>)>>)>>,
   <<North, Verb("wait", <<>>, <<Under(<<"none">>, <<<<"wait">>>>)>>)>>}

Going(verb, words) == [id |-> "hall", entries |-> <<[key |-> "verbs", names |-> <<verb>>], [key |-> "line", words |-> words]>>]

TravelFiles ==
  {<<Going("north", Names(<<"not", "carrying", "box", "goto", "pit">>))>>,
   <<Going("north", <<Name("then"), Name("error"), Quoted("closed")>>), [Going("north", <<>>) EXCEPT !.id = "pit"]>>,
   <<Going("give", Names(<<"pit">>))>>,
   <<Going("north", Names(<<"look">>)), Going("north", Names(<<"get", "noun">>))>>}

Synonyms == {<<[id |-> "box", words |-> <<"crate", "case">>], [id |-> "north", words |-> <<"n">>]>>,
             <<[id |-> "door", words |-> <<"gate">>], [id |-> "box", words |-> <<>>]>>,
             <<[id |-> "box", words |-> <<TooLong, "crate", TooLong>>], [id |-> "north", words |-> <<"n">>]>>}

MCSources ==
  [title |-> Titles, sysmsg |-> SysMsgs, umsg |-> UMsgs, obdescs |-> ObDescs, rooms |-> RoomFiles,
   ranks |-> RankFiles, npcs |-> NpcFiles, objects |-> ObjectFiles, lang |-> LangFiles,
   travel |-> TravelFiles, syns |-> Synonyms]

MCMissing == {{}}
MCAllMissing == {DOMAIN MCSources}
=============================================================================
