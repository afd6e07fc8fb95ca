----------------------------- MODULE DefaultGame -----------------------------
(***************************************************************************)
(* The files CreateDefaultFiles writes into a game directory that has none *)
(* (filedefaults.cpp), as the sequences of blocks the compiler reads in    *)
(* them.  A text in quotes is named for what it says.                      *)
(***************************************************************************)
EXTENDS Language

Flag(name) == [key |-> "flag", val |-> name]

\* A line that is the given names.
Names(names) == [i \in DOMAIN names |-> Name(names[i])]

DefaultTitleTxt == <<[settings |-> [i \in 1..7 |-> "ok"]]>>

DefaultRanksTxt ==
  [i \in 1..3 |-> [id |-> <<"adventurer", "hero", "legend">>[i], words |-> [n \in 1..14 |-> "ok"]]]

DefaultUmsgTxt == <<[label |-> "hint", more |-> FALSE]>>
DefaultObDescsTxt == <<>>
DefaultNPCsTxt == <<>>

DefaultSynsTxt ==
  LET line(verb, alias) == [id |-> verb, words |-> <<alias>>] IN
  <<line("north", "n"), line("northeast", "ne"), line("east", "e"), line("southeast", "se"),
    line("south", "s"), line("southwest", "sw"), line("west", "w"), line("northwest", "nw")>>

Directions ==
  <<"north", "northeast", "east", "southeast", "south", "southwest", "west", "northwest", "up",
    "down", "in", "out">>

DefaultLangTxt ==
  <<[type |-> "travel", words |-> Directions],
    [type |-> "verb", id |-> "quit", words |-> <<>>, body |-> "syntax",
     syntaxes |-> <<[words |-> <<[type |-> "none", tag |-> NoTag]>>,
                     lines |-> <<<<Name("reply"), Quoted("sure")>>, Names(<<"quit">>)>>]>>]>>

DefaultRoomsTxt ==
  LET room(id, flags, desc) == [id |-> id, desc |-> desc, words |-> [i \in DOMAIN flags |-> Flag(flags[i])]]
      both == <<"shortDesc", "longDesc">>
  IN <<room("beginning", <<"startloc", "light">>, both), room("adventure", <<"light">>, both),
       room("destiny", <<"light", "hide", "hideaway", "noexits", "nolook">>, both),
       room("secretstore", <<"dark", "nolook", "hide", "hideaway", "noexits", "nogo", "death">>, <<>>)>>

DefaultTravelTxt ==
  LET verbs(names) == [key |-> "verbs", names |-> names]
      line(words) == [key |-> "line", words |-> words]
  IN <<[id |-> "beginning", entries |-> <<verbs(<<"north", "out">>), line(Names(<<"adventure">>))>>],
       [id |-> "adventure", entries |->
          <<verbs(<<"south", "in">>), line(Names(<<"beginning">>)),
            verbs(<<"southwest", "west", "northwest", "north", "northeast", "east", "southeast",
                    "up", "down", "out">>),
            line(<<Name("error"), Quoted("unwritten")>>)>>]>>

\* In the states of the torch every figure has its name in front of it, which the parser does
\* not take off: "bad".
DefaultObjectsTxt ==
  LET state(stats, text, flags) == [stats |-> stats, desc |-> <<Quoted(text)>>, flags |-> flags] IN
  <<[id |-> "rain", words |-> <<Flag("scenery")>>, rooms |-> <<"beginning", "adventure">>,
     states |-> <<state("none", "", <<>>), state("none", "raining", <<>>)>>],
    [id |-> "torch", rooms |-> <<"adventure">>,
     words |-> <<[key |-> "adj", val |-> [name |-> "silver", fits |-> TRUE]], Flag("shines")>>,
     states |-> <<state("bad", "torch_unlit", <<>>),
                  state("bad", "torch_lit", <<"lit">>)>>]>>

DefaultSysMsgTxt == [n \in 1..75 |-> [label |-> Sys(n), more |-> FALSE]]

\* The phases of the compiler, with the file each reads.
DefaultFiles ==
  [title |-> DefaultTitleTxt, sysmsg |-> DefaultSysMsgTxt, umsg |-> DefaultUmsgTxt,
   obdescs |-> DefaultObDescsTxt, rooms |-> DefaultRoomsTxt, ranks |-> DefaultRanksTxt,
   npcs |-> DefaultNPCsTxt, objects |-> DefaultObjectsTxt, lang |-> DefaultLangTxt,
   travel |-> DefaultTravelTxt, syns |-> DefaultSynsTxt]
=============================================================================
