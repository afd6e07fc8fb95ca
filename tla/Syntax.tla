-------------------------------- MODULE Syntax --------------------------------
(***************************************************************************)
(* How the compiler reads a syntax line (amulcom.main.cpp): the words of   *)
(* the line are placed in the five slots of vbslot, adjective, noun,       *)
(* preposition, adjective, noun; and how it resolves the arguments of a    *)
(* condition or action, where a label such as "noun2" stands for what the  *)
(* player will say in a slot.                                              *)
(*                                                                         *)
(* A word of a syntax line is a record [type, tag]: noun=lamp has the type *)
(* "noun" and the tag "lamp", noun alone has no tag.  An argument is a     *)
(* record [mod, name]: the figure of the name it asks for (value, damage,  *)
(* weight, place, rank, random, around), "quoted" for a text in quotes,    *)
(* or "" for the name alone.  A compiled argument is a tuple: what kind of *)
(* thing it refers to, and which.                                          *)
(***************************************************************************)
EXTENDS Opcodes, Integers, FiniteSets, SequencesExt

Slots == 0..4
NoTag == ""
NoSlot == -1

\* The argument that is just a name, and a text in quotes.
Name(name) == [mod |-> "", name |-> name]
Quoted(text) == [mod |-> "quoted", name |-> text]

\* Every word of a command but the preposition is a noun phrase of one of these types.
NounTypes == {"noun", "player", "room", "syn", "text", "verb", "class", "number"}
WTypes == NounTypes \cup {"none", "any", "adj", "prep"}

\* vbslot after setslots(i): the adjectives are free to be anything.
setslots(i) ==
  [wtype |-> [j \in Slots |-> IF j \in {0, 3} THEN "any" ELSE i], slot |-> [j \in Slots |-> "any"],
   errors |-> 0, done |-> FALSE]

Empty(v, j) == v.wtype[j] = "none"

\* The slot the next word of type t goes to; NoSlot when the arrangement is refused.
FreeSlot(v, t) ==
  CASE t = "adj" ->
         IF \/ ~Empty(v, 1) /\ (~Empty(v, 4) \/ ~Empty(v, 3))
            \/ ~Empty(v, 0) /\ ~Empty(v, 3)
         THEN NoSlot
         ELSE IF Empty(v, 0) THEN 0 ELSE 3
    [] t = "prep" -> IF Empty(v, 2) THEN 2 ELSE NoSlot
    [] t \in NounTypes -> IF Empty(v, 1) THEN 1 ELSE IF Empty(v, 4) THEN 4 ELSE NoSlot
    [] OTHER -> 1

Problem(v) == [v EXCEPT !.errors = @ + 1]

\* The word of type t, which stands for value, goes into its slot.
Place(v, t, value) ==
  IF FreeSlot(v, t) = NoSlot THEN Problem(v)
  ELSE [v EXCEPT !.wtype[FreeSlot(v, t)] = t, !.slot[FreeSlot(v, t)] = value]

\* Which tags may not be given at all: they end the line.
TagRefused(w) ==
  /\ w.tag # NoTag
  /\ \/ w.type \in {"none", "any"}
     \/ w.type = "player" /\ w.tag \notin {"me", "myself"}

\* One word of the line.  known: the words whose tag is a noun, room, verb, ... of the game.
SyntaxWord(v, w, known) ==
  IF v.done THEN v
  ELSE IF w.type \notin WTypes \/ TagRefused(w) THEN [Problem(v) EXCEPT !.done = TRUE]
  ELSE IF w.tag = NoTag \/ w.type \in {"syn", "class"} THEN Place(v, w.type, "any")
  ELSE Place(IF w.type = "adj" \/ w \notin known THEN Problem(v) ELSE v, w.type, w.tag)

SyntaxWords(v, words, known) == FoldLeft(LAMBDA x, w : SyntaxWord(x, w, known), v, words)

\* The whole line.
SyntaxLine(words, known) ==
  IF words = <<[type |-> "any", tag |-> NoTag]>> THEN setslots("any")
  ELSE SyntaxWords(setslots("none"), words, known)

Refused == <<"refused">>
NotALabel == <<"literal">>
ArgSlot(j) == <<"slot", j>>
ArgOwn(name) == <<"own", name>>

\* The plain label name, where a word of type n is wanted.
SlotValue(v, name, n) ==
  LET j == SlotLabels[name] IN
  IF j = 2 THEN Refused
  ELSE IF v.wtype[j] = n THEN ArgSlot(j)
  ELSE IF j < 2 /\ name \notin FirstOnly /\ v.wtype[j + 3] = n THEN ArgSlot(j + 3)
  ELSE IF n = "real" THEN ArgSlot(j)
  ELSE Refused

PlainValue(v, name, n) ==
  CASE name = "verb" -> IF n \in {"verb", "real"} THEN <<"verb_of_the_command">> ELSE Refused
    [] name \in DOMAIN SlotLabels -> SlotValue(v, name, n)
    [] name \in DOMAIN OwnLabels -> IF n \in {OwnLabels[name], "real"} THEN ArgOwn(name) ELSE Refused
    [] OTHER -> NotALabel

\* A label with one of the characters ? % ^ * # in front, a figure of what it stands for, or
\* a number with ~ or the backquote in front.  A name that is no label passes as one: its code
\* is all ones, so every test of its bits succeeds.
ModifiedValue(v, arg, n) ==
  LET plain == PlainValue(v, arg.name, "real")
      mayHaveRank == plain[1] = "own" /\ plain[2] \notin {"locate", "myscore"}
  IN CASE n # "number" /\ ~(n = "room" /\ arg.mod = "place") -> Refused
       [] arg.mod \in {"random", "around"} -> <<arg.mod, arg.name>>
       [] \/ plain = NotALabel
          \/ plain[1] \in {"slot", "verb_of_the_command"}
          \/ (arg.mod = "rank" /\ mayHaveRank) -> <<"figure", arg.mod, plain>>
       [] OTHER -> Refused

actualval(v, arg, n) ==
  IF arg.mod = "quoted" \/ (arg.mod # "" /\ n = "real") THEN NotALabel
  ELSE IF arg.mod # "" THEN ModifiedValue(v, arg, n)
  ELSE PlainValue(v, arg.name, n)
=============================================================================
