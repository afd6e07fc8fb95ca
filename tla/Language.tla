------------------------------- MODULE Language -------------------------------
(***************************************************************************)
(* What the compiler of amulcom.main.cpp makes of lang.txt (the verbs,     *)
(* their syntax lines and the lines of conditions and actions under each), *)
(* travel.txt (the same lines per room and travel verb) and syns.txt.      *)
(*                                                                         *)
(* A line of the language is a sequence of arguments (module Syntax).  A   *)
(* compiled line is [not, condition, action], an operation [op, args]; the *)
(* arguments nothing was compiled into are zeroes.                         *)
(***************************************************************************)
EXTENDS Tables

ALWAYSEP == "---"
Zero == <<"zero">>
Operation(op, args) == [op |-> op, args |-> args]

\* An operation whose arguments were never set.
Unset(op, params) == Operation(op, [i \in DOMAIN params |-> Zero])

Always == Operation("always", <<>>)

\* How a compilation of part of a line goes on: the game, the words left, what was compiled.
Compiled(g, rest, args, ok) == [g |-> g, rest |-> rest, args |-> args, ok |-> ok]

\* The words after those of the given set at the start.
Leading(words, skipped) ==
  LET first == SelectInSeq(words, LAMBDA w : ~(w.mod = "" /\ w.name \in skipped)) IN
  IF first = 0 THEN <<>> ELSE SubSeq(words, first, Len(words))

OptionalPrefixes ==
  {"the", "of", "are", "is", "has", "next", "with", "to", "set", "from", "for", "by", "and", "was",
   "i", "am", "as"}

\* The words of which a parameter of these kinds must be one.  Genders, verbosities and room
\* modes go by their first letter: one word stands for each.
Vocabulary ==
  [kind \in {"announce", "stat", "spell", "gender", "verbosity", "rdmode"} |->
     CASE kind = "announce" -> {"global", "everyone", "outside", "here", "others", "all", "cansee", "notsee"}
       [] kind = "stat" ->
            {"sctg", "score", "points", "str", "strength", "sta", "stamina", "dex", "dexterity", "wis",
             "wisdom", "exp", "experience", "mag", "magic"}
       [] kind = "spell" ->
            {"glow", "invis", "deaf", "dumb", "blind", "cripple", "sleep", "sinvis", "superinvis"}
       [] kind = "gender" -> {"male", "female"}
       [] kind = "verbosity" -> {"verbose", "brief"}
       [] kind = "rdmode" -> {"rc", "verbose", "brief"}]

\* The words chknum takes for numbers, of those the sources use.
Numerals == {"0", "1", "2", "5", "-1", "<5", ">5", "=5"}

\* Names of daemons begin with a full stop.
Daemons == {".daemon"}

Found(kind, index) == IF index < 0 THEN Refused ELSE <<kind, index>>

\* The switch over parameter types: [g, value].
Literal(g, arg, kind) ==
  LET found(value) == [g |-> g, value |-> value]
      known(words) == found(IF arg.name \in words THEN <<kind, arg.name>> ELSE Refused)
      text == getTextString(g, arg)
  IN CASE kind = "onoff" -> found(<<kind, arg.name \in {"on", "yes"}>>)
       [] kind = "announce" /\ arg.name \notin Vocabulary[kind] -> [g |-> LogError(g), value |-> Refused]
       [] kind \in DOMAIN Vocabulary -> known(Vocabulary[kind])
       [] kind = "room" -> found(Found(kind, isRoomName(g, arg.name)))
       [] kind = "verb" -> found(Found(kind, IsVerb(g, arg.name)))
       [] kind = "daemon" -> found(IF arg.name \in Daemons THEN Found(kind, IsVerb(g, arg.name)) ELSE Refused)
       [] kind = "real" /\ arg = Name("none") -> found(<<"noun", -1>>)
       [] kind \in {"noun", "real"} -> found(Found("noun", isNoun(g, arg.name)))
       [] kind = "text" -> [g |-> text.g, value |-> Found(kind, text.id)]
       [] kind = "number" -> known(Numerals)
       [] OTHER -> found(Refused)

badParameter(r) == [r EXCEPT !.g = IF r.value = Refused THEN LogError(@) ELSE @]

\* One parameter of the given kind: [g, value].  Only the types of words can be labels.
checkParameter(g, arg, kind) ==
  LET label == IF kind \in WTypes \cup {"real"} THEN actualval(g.vbslot, arg, kind) ELSE NotALabel
  IN badParameter(IF label = NotALabel THEN Literal(g, arg, kind) ELSE [g |-> g, value |-> label])

\* No word left for a parameter.  In lang.txt the empty word goes through checkParameter all the
\* same: as a number it is taken for a label with a character in front of it, and cutting
\* that off throws; the switch alone lets it pass.
Missing(a, kind, inLang) ==
  CASE ~inLang -> Compiled(LogError(a.g), <<>>, a.args, FALSE)
    [] kind = "number" -> Compiled(Crash(LogError(a.g)), <<>>, a.args, FALSE)
    [] kind = "onoff" -> Compiled(LogError(a.g), <<>>, Append(a.args, <<kind, FALSE>>), TRUE)
    [] OTHER -> Compiled(Errors(a.g, 2), <<>>, a.args, FALSE)

\* The parameters a, and one more with the result r.
Checked(a, rest, r) == Compiled(r.g, rest, Append(a.args, r.value), r.value # Refused)

\* The next parameter, of the given kind.
CheckNext(a, kind, inLang) ==
  LET rest == Leading(a.rest, OptionalPrefixes)
  IN IF ~a.ok THEN a
     ELSE IF rest = <<>> THEN Missing(a, kind, inLang)
     ELSE Checked(a, Tail(rest), checkParameter(a.g, rest[1], kind))

\* All the parameters of an operation.
checkParameters(g, words, params, inLang) ==
  FoldLeft(LAMBDA a, kind : CheckNext(a, kind, inLang), Compiled(g, words, <<>>, TRUE), params)

----------------------------------------------------------------------------
(* The lines under a syntax line *)

Negations == {"not", "!"}
PreConditionWords == {"if", "the", "i", "am"}
PreActionWords == {"then", "goto", "go to", "set"}

\* What compiling a line comes to: the game, and the line when there is one.
NoLine(g) == [g |-> g, lines |-> <<>>]
Line(g, not, condition, action) ==
  [g |-> g, lines |-> <<[not |-> not, condition |-> condition, action |-> action]>>]

\* The line of a syntax line's code, and the line of a room's travel table.
CodeLine(line, of) == [not |-> line.not, condition |-> line.condition, action |-> line.action, of |-> of]
TravelTableLine(line, verb, of) ==
  [not |-> line.not, condition |-> line.condition, action |-> line.action, verb |-> verb, of |-> of]

GotoRoom(g, not, condition, name) ==
  Line(g, not, condition, Operation("goto", <<<<"room", isRoomName(g, name)>>>>))

\* The line of action op with the parameters a.
Acting(a, not, condition, op) ==
  IF a.ok THEN Line(a.g, not, condition, Operation(op, a.args)) ELSE NoLine(a.g)

\* The action and its parameters.
ActionLine(g, not, condition, words) ==
  LET op == words[1].name
  IN Acting(checkParameters(g, Tail(words), actions[op], TRUE), not, condition, op)

\* What follows a condition.
AfterCondition(g, not, condition, words) ==
  CASE words = <<>> -> NoLine(LogError(g))
    [] words[1].name \in DOMAIN actions -> ActionLine(g, not, condition, words)
    [] isRoomName(g, words[1].name) # -1 -> GotoRoom(g, not, condition, words[1].name)
    [] OTHER -> NoLine(LogError(g))

\* The line of condition op with the parameters a.  With nothing after it, it is taken for the
\* action of the same name.
Conditional(a, not, op) ==
  CASE ~a.ok -> NoLine(a.g)
    [] a.rest = <<>> /\ op \in DOMAIN actions -> Line(a.g, not, Always, Unset(op, actions[op]))
    [] a.rest = <<>> -> NoLine(LogError(a.g))
    [] OTHER -> AfterCondition(a.g, not, Operation(op, a.args), Leading(a.rest, PreActionWords))

\* The condition, its parameters and what follows them.
ConditionLine(g, not, words) ==
  LET op == words[1].name
  IN Conditional(checkParameters(g, Tail(words), conditions[op], TRUE), not, op)

\* A line of conditions and actions.
langLine(g, words) ==
  LET rest == Leading(words, PreConditionWords \cup Negations)
      negations == SelectSeq(SubSeq(words, 1, Len(words) - Len(rest)), LAMBDA w : w.name \in Negations)
      not == Len(negations) % 2 = 1
      op == rest[1].name
  IN CASE rest = <<>> -> NoLine(LogError(g))
       [] op = ALWAYSEP -> Line(g, not, Always, Operation("endparse", <<>>))
       [] op \in DOMAIN conditions -> ConditionLine(g, not, rest)
       [] op \in DOMAIN actions -> ActionLine(g, not, Always, rest)
       [] isRoomName(g, op) # -1 -> GotoRoom(g, not, Always, op)
       [] OTHER -> NoLine(LogError(g))

----------------------------------------------------------------------------
(* Verbs and their syntax lines *)

VB_TRAVEL == 1
VB_DREAM == 2
IsTravelVerb(verb) == verb.flags % 2 = 1

\* Orders of preference: a figure or ?, then four of the letters c, h, a and e.
chae == {"?chae", "10hcae"}

NewVerb(id, flags) == [id |-> id, flags |-> flags, ents |-> 0, slotOffset |-> 0]

\* A word of the travel= line.
registerTravelVerb(g, word) ==
  LET extant == IsVerb(g, word) IN
  CASE extant = -1 -> Counted(push_back(g, "verbs", NewVerb(word, VB_TRAVEL)), "verbs")
    [] IsTravelVerb(g.tab["verbs"][extant + 1]) -> LogError(g)
    [] OTHER -> [g EXCEPT !.tab["verbs"][extant + 1].flags = @ + VB_TRAVEL]

registerTravelVerbs(g, words) == FoldLeft(registerTravelVerb, g, words)

\* A word after the verb; a is [g, flags, precedence, stop].  The word travel clears every flag.
VerbFlag(a, word) ==
  CASE a.stop -> a
    [] word = "travel" -> [a EXCEPT !.flags = 0]
    [] word = "dream" -> [a EXCEPT !.flags = @ + VB_DREAM]
    [] a.precedence = 2 -> [a EXCEPT !.g = LogError(@)]
    [] word \in chae -> [a EXCEPT !.precedence = @ + 1]
    [] OTHER -> [a EXCEPT !.g = LogError(@), !.stop = TRUE]

VerbFlags(a, words) == FoldLeft(VerbFlag, a, words)

getVerbFlags(g, verbId, words) ==
  LET a == VerbFlags([g |-> g, flags |-> VB_TRAVEL, precedence |-> 0, stop |-> FALSE], words)
  IN [a.g EXCEPT !.tab["verbs"][verbId + 1].flags = a.flags]

\* The verb a verb= line names: a new one, or a travel verb without syntax lines; -1 is an error.
getLangVerb(g, id) ==
  LET extant == IsVerb(g, id)
      verb == g.tab["verbs"][extant + 1]
      at(h, verbId) == [g |-> [h EXCEPT !.tab["verbs"][verbId + 1].slotOffset = Size(h, "syntax_lines")],
                        verbId |-> verbId]
  IN CASE id = NoTag -> [g |-> LogError(g), verbId |-> -1]
       [] extant = -1 -> at(push_back(g, "verbs", NewVerb(id, 0)), Size(g, "verbs"))
       [] ~IsTravelVerb(verb) \/ verb.ents # 0 -> [g |-> LogError(g), verbId |-> -1]
       [] OTHER -> at([g EXCEPT !.twice = TRUE], extant)

\* What a tag on a syntax line may be.
KnownTag(g, type, tag) ==
  CASE type = "noun" -> isNoun(g, tag) # -1
    [] type = "prep" -> tag \in {"in", "on", "behind", "under", "from", "with"}
    [] type = "room" -> isRoomName(g, tag) # -1
    [] type = "text" -> tag \in DOMAIN g.labels
    [] type = "verb" -> IsVerb(g, tag) # -1
    [] type = "number" -> tag \in Numerals
    [] OTHER -> TRUE

\* The compiled line r of the syntax line that comes next in its table.
Coded(r) ==
  LET lines == [i \in DOMAIN r.lines |-> CodeLine(r.lines[i], Size(r.g, "syntax_lines"))]
  IN [r.g EXCEPT !.tab["language_code"] = @ \o lines, !.num["language_code"] = @ + Len(lines)]

\* A line under the syntax line slot of the verb; a is [g, slot].  It counts even if it is no good.
SyntaxEntry(a, words) ==
  IF a.g.fate # "alive" THEN a
  ELSE [slot |-> [a.slot EXCEPT !.ents = @ + 1], g |-> Coded(langLine(a.g, words))]

SyntaxEntries(a, lines) == FoldLeft(SyntaxEntry, a, lines)

\* The end of a syntax line's lines.
EndSyntax(a) ==
  IF a.g.fate # "alive" THEN a.g ELSE Counted(push_back(a.g, "syntax_lines", a.slot), "syntax_lines")

\* A syntax line of the verb with the lines under it.
SyntaxBlock(g, verbId, s) ==
  LET v == SyntaxLine(s.words, {w \in ToSet(s.words) : KnownTag(g, w.type, w.tag)})
      slot == [wtype |-> v.wtype, slot |-> v.slot, ents |-> 0, of |-> verbId,
               lineOffset |-> Size(g, "language_code")]
      begun == [Errors(g, v.errors) EXCEPT !.tab["verbs"][verbId + 1].ents = @ + 1, !.vbslot = v]
  IN EndSyntax(SyntaxEntries([g |-> begun, slot |-> slot], s.lines))

SyntaxBlocks(g, verbId, syntaxes) == FoldLeft(LAMBDA h, s : SyntaxBlock(h, verbId, s), g, syntaxes)

\* A verb= block.  Its first line after the verb is missing, or no syntax line, or there are
\* syntax lines; the end of the file is read through a null pointer.
VerbBlock(g, b) ==
  LET named == getLangVerb(g, b.id)
      verbId == named.verbId
      flagged == getVerbFlags(named.g, verbId, b.words)
      written == SyntaxBlocks(flagged, verbId, b.syntaxes)
  IN CASE verbId = -1 -> named.g
       [] b.body = "eof" -> Crash(LogError(flagged))
       [] b.body = "stray" -> LogError(flagged)
       [] OTHER -> Counted(written, "verbs")

lang_proc(g, b) ==
  IF b.type = "travel" THEN registerTravelVerbs(g, b.words) ELSE VerbBlock(g, b)

----------------------------------------------------------------------------
(* Travel tables and synonyms *)

\* Action op with the parameters a; words after them are an error.
TravelActing(a, condition, op) ==
  CASE ~a.ok -> NoLine(a.g)
    [] a.rest # <<>> -> NoLine(LogError(a.g))
    [] OTHER -> Line(a.g, FALSE, condition, Operation(op, a.args))

\* A line of a travel table: the word not is read and forgotten, words after a room are not
\* looked at.
TravelAction(g, condition, words) ==
  LET op == words[1].name
  IN CASE words = <<>> -> NoLine(LogError(g))
       [] isRoomName(g, op) # -1 -> GotoRoom(g, FALSE, condition, op)
       [] op \notin DOMAIN actions \/ op = "travel" -> NoLine(LogError(g))
       [] OTHER -> TravelActing(checkParameters(g, Tail(words), actions[op], FALSE), condition, op)

TravelPreActionWords == {"then", "go", "to", "goto", "set"}

\* Condition op with the parameters a.
TravelConditional(a, op) ==
  IF ~a.ok THEN NoLine(a.g)
  ELSE TravelAction(a.g, Operation(op, a.args), Leading(a.rest, TravelPreActionWords))

processTravelCnALine(g, line) ==
  LET words == Leading(line, PreConditionWords \cup {"is"} \cup Negations)
      op == words[1].name
  IN CASE words = <<>> -> NoLine(LogError(g))
       [] op = ALWAYSEP -> Line(g, FALSE, Always, Operation("endparse", <<>>))
       [] op \notin DOMAIN conditions -> TravelAction(g, Always, Leading(words, TravelPreActionWords))
       [] OTHER -> TravelConditional(checkParameters(g, Tail(words), conditions[op], FALSE), op)

\* A verb= or verbs= line: every verb must exist; one that is no travel verb is an error, but
\* goes on.
getTravelVerbs(a, names) ==
  LET unknown == SelectInSeq(names, LAMBDA n : IsVerb(a.g, n) = -1)
      read == IF unknown = 0 THEN names ELSE SubSeq(names, 1, unknown - 1)
      others == {i \in DOMAIN read : ~IsTravelVerb(a.g.tab["verbs"][IsVerb(a.g, read[i]) + 1])}
  IN IF unknown > 0 \/ names = <<>> THEN [a EXCEPT !.g = Errors(@, Cardinality(others) + 1), !.ok = FALSE]
     ELSE [a EXCEPT !.g = Errors(@, Cardinality(others)),
                    !.verbs = Ascending({IsVerb(a.g, n) : n \in ToSet(names)})]

\* The compiled line r goes into the room's table once for each verb.
TravelLine(a, r, room) ==
  LET lines == [i \in DOMAIN a.verbs |-> TravelTableLine(r.lines[1], a.verbs[i], room)]
  IN IF r.lines = <<>> THEN [a EXCEPT !.g = r.g, !.ok = FALSE]
     ELSE [a EXCEPT !.g = [r.g EXCEPT !.tab["travel"] = @ \o lines,
                                      !.num["travel"] = @ + Len(lines),
                                      !.tab["rooms"][room + 1].ttlines = @ + Len(lines)]]

\* A line below the room's name; a is [g, verbs, ok].
TravelEntry(a, entry, room) ==
  CASE ~a.ok \/ a.g.fate # "alive" -> a
    [] entry.key = "verbs" -> getTravelVerbs(a, entry.names)
    [] a.verbs = <<>> -> [a EXCEPT !.g = LogError(@), !.ok = FALSE]
    [] OTHER -> TravelLine(a, processTravelCnALine(a.g, entry.words), room)

TravelEntries(a, entries, room) == FoldLeft(LAMBDA x, entry : TravelEntry(x, entry, room), a, entries)

\* The travel table of a room.
trav_proc(g, b) ==
  LET room == isRoomName(g, b.id)
      record == g.tab["rooms"][room + 1]
      begun == [g EXCEPT !.tab["rooms"][room + 1].ttOffset = Size(g, "travel")]
  IN IF room = -1 \/ (room # -1 /\ (record.ttlines # 0 \/ "death" \in record.flags)) THEN LogError(g)
     ELSE TravelEntries([g |-> begun, verbs |-> <<>>, ok |-> TRUE], b.entries, room).g

\* An alias that is longer than a word of the game can be.
TooLong == "too_long"

\* A line of syns.txt: a noun or a verb and the words that stand for it, which may be none.
syn_proc(g, b) ==
  LET noun == isNoun(g, b.id)
      type == IF noun # -1 THEN "noun" ELSE "verb"
      aliases == IF noun # -1 THEN noun ELSE IsVerb(g, b.id)
      fitting == {i \in DOMAIN b.words : b.words[i] # TooLong}
      words == [k \in 1..Cardinality(fitting) |-> b.words[Ascending(fitting)[k]]]
      entries == [k \in DOMAIN words |-> [word |-> words[k], type |-> type, aliases |-> aliases]]
  IN IF aliases = -1 THEN LogError(g)
     ELSE [Errors(g, Cardinality(DOMAIN b.words \ fitting)) EXCEPT !.tab["synonyms"] = @ \o entries]

\* At the end of syns.txt.
syn_end(g) == [g EXCEPT !.num["synonyms"] = Size(g, "synonyms")]
=============================================================================
