-------------------------------- MODULE Tables --------------------------------
(***************************************************************************)
(* What the compiler of amulcom.main.cpp makes of the blocks of the text   *)
(* files that describe a game's texts, rooms, ranks, NPC classes and       *)
(* objects.  Every handler is a function from the game as compiled so far  *)
(* and the block it reads to the game after it; the language of lang.txt,  *)
(* travel.txt and syns.txt is in module Language.                          *)
(*                                                                         *)
(* A word "key=value" is a record [key, val], a flag has the key "flag".   *)
(* Texts are the labels they are given, or what was written in quotes.     *)
(* The game g keeps                                                        *)
(*   tab      the tables, by the name under which Save writes them;        *)
(*   num      the counters of GameConfig, which the server believes;       *)
(*   labels   stringMap, roomIdx s_roomIdx, dmoves s_dmoveLookups;         *)
(*   vbslot   the syntax line that was read last;                          *)
(*   errors   the error count of the log, quiet: the log drops errors;     *)
(*   skip     a SkipBlock that eats the block after;                       *)
(*   fate     "alive", "fatal" (LogFatal) or "crash";                      *)
(*   twice    a history variable: a verb that was there has been defined    *)
(*            again; so are the fields "of" of the entries, their owners.   *)
(* Indices of the tables are C's, from 0.                                  *)
(***************************************************************************)
EXTENDS Syntax

CONSTANTS
  NSMSGS,      \* how many system messages there are
  MAXU         \* how many players there can be

ASSUME LimitsAssumption == NSMSGS \in Nat /\ MAXU \in Nat

\* The tables, by their labels, in the order in which Save writes them and Load reads them.
Sections ==
  <<"string_index", "ranks", "rooms", "travel", "adjectives", "objects", "object_locations",
    "object_states", "synonyms", "verbs", "syntax_lines", "language_code", "npc_classes">>

NewGame(quiet) ==
  [tab |-> [s \in ToSet(Sections) |-> <<>>], num |-> [s \in ToSet(Sections) |-> 0],
   labels |-> <<>>, roomIdx |-> <<>>, dmoves |-> <<>>, vbslot |-> setslots("none"),
   errors |-> 0, quiet |-> quiet, skip |-> FALSE, fate |-> "alive", twice |-> FALSE]

\* LogError: counted unless the log level is above errors.
Errors(g, n) == [g EXCEPT !.errors = IF g.quiet THEN @ ELSE @ + n]
LogError(g) == Errors(g, 1)
LogFatal(g) == [g EXCEPT !.fate = "fatal"]
Crash(g) == [g EXCEPT !.fate = "crash"]

push_back(g, s, entry) == [g EXCEPT !.tab[s] = Append(@, entry)]
Counted(g, s) == [g EXCEPT !.num[s] = @ + 1]
Size(g, s) == Len(g.tab[s])

\* The first entry of the table with that id, -1 when there is none.
IndexOfId(g, s, id) == SelectInSeq(g.tab[s], LAMBDA entry : entry.id = id) - 1

\* The function f with value at arg.
Bind(f, arg, value) == [x \in DOMAIN f \cup {arg} |-> IF x = arg THEN value ELSE f[x]]

\* The numbers of a set, the least first.
Ascending(S) == [i \in 1..Cardinality(S) |-> CHOOSE x \in S : Cardinality({y \in S : y < x}) = i - 1]

isRoomName(g, name) == IF name \in DOMAIN g.roomIdx THEN g.roomIdx[name] ELSE -1
isNoun(g, name) == IF name = "none" THEN -2 ELSE IndexOfId(g, "objects", name)
IsVerb(g, name) == IndexOfId(g, "verbs", name)

\* Mutant: whatever can hold things or not.
isContainerNoun(g, name) == IndexOfId(g, "objects", name)

isContainer(g, name) ==
  SelectInSeq(g.tab["objects"], LAMBDA o : o.contains > 0 /\ o.id = name) - 1

----------------------------------------------------------------------------
(* Texts *)

AddTextString(g, text) == push_back(g, "string_index", text)

RegisterTextString(g, label) ==
  IF label \in DOMAIN g.labels THEN g
  ELSE AddTextString([g EXCEPT !.labels = Bind(@, label, Size(g, "string_index"))], label)

\* The string a text argument refers to: [g, id].
getTextString(g, arg) ==
  IF arg.mod = "quoted"
  THEN [g |-> AddTextString(g, arg.name), id |-> Size(g, "string_index")]
  ELSE [g |-> g, id |-> IF arg.name \in DOMAIN g.labels THEN g.labels[arg.name] ELSE -1]

\* System message number n, "$n".
Sys(n) == "$" \o ToString(n)

\* sysmsg.txt: check_smsg lets only $1 to $NSMSGS be labels.
check_smsg(label) == label \in {Sys(n) : n \in 1..NSMSGS}

\* The label of the title is none of the messages'.
ASSUME LabelsAssumption == ~check_smsg(Sys(0))

\* A block of a message file.
consumeMessage(g, b, allowed) ==
  IF ~allowed \/ b.more \/ b.label \in DOMAIN g.labels THEN LogError(g)
  ELSE RegisterTextString(g, b.label)

smsg_proc(g, b) == consumeMessage(g, b, check_smsg(b.label))

\* At the end of sysmsg.txt: every message must be there.
smsg_end(g) == Errors(g, Cardinality({n \in 1..NSMSGS : Sys(n) \notin DOMAIN g.labels}))

\* umsg.txt and obdescs.txt: labels that begin with $ are the system's.
IsSystemLabel(label) == label \in {Sys(n) : n \in 0..NSMSGS + 1}
umsg_proc(g, b) == consumeMessage(g, b, ~IsSystemLabel(b.label))

\* title.txt: seven settings in their order, of which all but the first are numbers, and
\* the text after [title], which becomes $title.
title_proc(g, b) ==
  IF \E i \in 1..7 : b.settings[i] # "ok" THEN LogFatal(g) ELSE RegisterTextString(g, Sys(0))

----------------------------------------------------------------------------
(* Rooms *)

rflag ==
  {"light", "dmove", "startloc", "randobjs", "dark", "small", "death", "nolook", "silent", "hide",
   "sanctuary", "hideaway", "peaceful", "noexits", "anteroom", "nogo"}

\* A word after the room's name; a is [g, room, stop].
RoomWord(a, w) ==
  CASE a.stop -> a
    [] w.key = "dmove" /\ w.val = "" -> [a EXCEPT !.g = LogError(@)]
    [] w.key = "dmove" /\ a.room.id \in DOMAIN a.g.dmoves ->
         [a EXCEPT !.g = LogError(@), !.stop = TRUE]
    [] w.key = "dmove" -> [a EXCEPT !.g.dmoves = Bind(@, a.room.id, w.val)]
    [] w.val \notin rflag -> [a EXCEPT !.g = LogError(@)]
    [] OTHER -> [a EXCEPT !.room.flags = @ \cup ({w.val} \ {"light"})]

RoomWords(a, words) == FoldLeft(RoomWord, a, words)

\* The short description is the line after the name, the long one the lines after that.
DescribedBy(a, d) ==
  [a EXCEPT !.g = AddTextString(@, a.room.id), !.room[d] = Size(a.g, "string_index")]

Described(a, desc) == FoldLeft(DescribedBy, a, desc)

room_proc(g, b) ==
  LET room == [id |-> b.id, flags |-> {}, dmove |-> -1, shortDesc |-> -1, longDesc |-> -1,
               ttlines |-> 0, ttOffset |-> 0]
      a == Described(RoomWords([g |-> g, room |-> room, stop |-> FALSE], b.words), b.desc)
      indexed == [a.g EXCEPT !.roomIdx = Bind(@, b.id, Size(g, "rooms"))]
  IN Counted(push_back(indexed, "rooms", a.room), "rooms")

\* At the end of rooms.txt the names after dmove= are looked up.
room_end(g) ==
  LET found == {rm \in DOMAIN g.dmoves : g.dmoves[rm] \in DOMAIN g.roomIdx}
      moved(i) == \E rm \in found : g.roomIdx[rm] = i
      target(i) == g.roomIdx[g.dmoves[g.tab["rooms"][i + 1].id]]
  IN Errors([g EXCEPT !.tab["rooms"] =
               [i \in DOMAIN @ |-> IF moved(i - 1) THEN [@[i] EXCEPT !.dmove = target(i - 1)]
                                   ELSE @[i]]],
            Cardinality(DOMAIN g.dmoves \ found))

----------------------------------------------------------------------------
(* Ranks and NPC classes *)

\* A line of ranks.txt has thirteen words, the first two of them the titles, and a prompt.
rank_proc(g, b) ==
  LET fault == SelectInSeq(b.words, LAMBDA w : w # "ok") IN
  CASE fault = 0 -> Counted(push_back(g, "ranks", b.id), "ranks")
    [] fault \in {1, 2} /\ b.words[fault] = "bad" -> LogFatal(g)
    [] OTHER -> LogError(g)

\* A word after the name of an NPC; a is [g, npc].
NpcWord(a, w) ==
  CASE w.key = "dead" /\ a.npc.deadstate = -1 /\ w.val \in 0..127 -> [a EXCEPT !.npc.deadstate = w.val]
    [] w.key = "dmove" /\ a.npc.dmove = -1 /\ isRoomName(a.g, w.val) # -1 ->
         [a EXCEPT !.npc.dmove = isRoomName(a.g, w.val)]
    [] OTHER -> [a EXCEPT !.g = LogError(@)]

NpcWords(a, words) == FoldLeft(NpcWord, a, words)

consumeNpcIDLine(g, b) ==
  LET npc == [id |-> b.id, deadstate |-> -1, dmove |-> -1, texts |-> <<>>] IN
  NpcWords([g |-> g, npc |-> npc], b.words)

NpcTexts == <<"arrive", "depart", "flee", "strike", "miss", "dies">>

\* The text lines of an NPC in their order; a is [g, npc, ok].
NpcText(a, w) ==
  LET text == getTextString(a.g, w.arg) IN
  CASE ~a.ok -> a
    [] w.key # NpcTexts[Len(a.npc.texts) + 1] -> [a EXCEPT !.ok = FALSE]
    [] w.arg = Name("none") -> [a EXCEPT !.npc.texts = Append(@, -1)]
    [] OTHER -> [g |-> text.g, ok |-> text.id # -1,
                 npc |-> [a.npc EXCEPT !.texts = Append(@, text.id)]]

NpcTextLines(a, texts) == FoldLeft(NpcText, a, texts)

\* Speed, four percentages that must add up to 100, and three more figures; then the texts.
\* Commands after them are skipped.  Errors in the first line do not stop the class.
npc_proc(g, b) ==
  LET named == consumeNpcIDLine(g, b)
      a == NpcTextLines([g |-> named.g, npc |-> named.npc, ok |-> TRUE], b.texts)
      ends == b.stats = "missing" \/ (b.stats = "ok" /\ a.ok)  \* the block ended too early
  IN IF b.stats = "ok" /\ a.ok /\ Len(b.texts) = Len(NpcTexts)
     THEN Counted(push_back(a.g, "npc_classes", a.npc), "npc_classes")
     ELSE [LogError(IF b.stats = "ok" THEN a.g ELSE named.g) EXCEPT !.skip = ends]

----------------------------------------------------------------------------
(* Objects *)

obflags1 == {"opens", "scenery", "counter", "flammable", "shines", "fire", "invis", "smell"}
obflags2 == {"lit", "open", "closed", "weapon", "opaque", "scaled", "alive"}
obputs == {"In", "On", "Behind", "Under"}

INS == MAXU + 10

\* The entry of a location list that says: inside object i.
Inside(i) == -(INS + i)

\* adj=: the adjective joins the table, every time it is used.
processObjectAdj(a, w) ==
  IF ~w.val.fits THEN [a EXCEPT !.g = LogError(@)]
  ELSE [a EXCEPT !.g = Counted(push_back(@, "adjectives", w.val.name), "adjectives")]

\* npc=: the class the object is of.
processObjectMob(a, w) ==
  LET class == IndexOfId(a.g, "npc_classes", w.val) IN
  IF class = -1 THEN [a EXCEPT !.g = LogError(@)] ELSE [a EXCEPT !.obj.npc = class]

\* What an object can hold at most.
MaxContains == 1000000

\* Word after the object's name; a is [g, obj, ok].  A bad parameter is an error but
\* the object goes on, a bad flag ends it.
ObjectWord(a, w) ==
  CASE ~a.ok -> a
    [] w.key = "flag" /\ w.val \in obflags1 -> [a EXCEPT !.obj.flags = @ \cup {w.val}]
    [] w.key = "adj" -> processObjectAdj(a, w)
    [] w.key = "npc" -> processObjectMob(a, w)
    [] w.key = "start" /\ w.val >= 0 -> [a EXCEPT !.obj.state = w.val]
    [] w.key = "holds" /\ w.val \in 0..MaxContains -> [a EXCEPT !.obj.contains = w.val]
    [] w.key = "put" /\ w.val \in obputs -> [a EXCEPT !.obj.putto = w.val]
    [] w.key \in {"start", "holds", "put"} -> [a EXCEPT !.g = LogError(@)]
    [] OTHER -> [a EXCEPT !.g = LogError(@), !.ok = FALSE]

ObjectWords(a, words) == FoldLeft(ObjectWord, a, words)

\* Where the object starts: a room, or inside a container among the objects before it.
Location(g, name) ==
  IF isRoomName(g, name) # -1 THEN isRoomName(g, name)
  ELSE IF isContainer(g, name) # -1 THEN Inside(isContainer(g, name))
  ELSE -1

processObjectRooms(a, names) ==
  LET places == [i \in DOMAIN names |-> Location(a.g, names[i])]
      locations == Ascending(ToSet(places) \ {-1})
      unknown == Cardinality({i \in DOMAIN names : places[i] = -1})
      entries == [i \in DOMAIN locations |-> [place |-> locations[i], of |-> Size(a.g, "objects")]]
      problems == unknown + IF locations = <<>> THEN 1 ELSE 0
  IN IF problems > 0 THEN [a EXCEPT !.g = Errors(@, problems), !.ok = FALSE]
     ELSE [a EXCEPT !.obj.nrooms = Len(locations),
                    !.g.tab["object_locations"] = @ \o entries,
                    !.g.num["object_locations"] = @ + Len(locations)]

\* A state line: weight, value, health and damage unless the object is scenery, then its
\* description and flags.  A description that is no label passes, with the string -1.
parseObjectState(a, line) ==
  LET figures == IF "scenery" \in a.obj.flags THEN "none" ELSE "numbers"
      text == getTextString(a.g, line.desc[1])
      flagsFit == ToSet(line.flags) \subseteq obflags2
      state == [description |-> text.id, flags |-> ToSet(line.flags), of |-> Size(a.g, "objects")]
  IN CASE line.stats # figures \/ line.desc = <<>> -> [a EXCEPT !.g = LogError(@)]
       [] ~flagsFit -> [a EXCEPT !.g = LogError(text.g)]
       [] OTHER -> [a EXCEPT !.g = Counted(push_back(text.g, "object_states", state), "object_states"),
                             !.obj.nstates = @ + 1]

parseObjectStates(a, lines) == FoldLeft(parseObjectState, a, lines)

\* Mutant: nor is obj.roomsOffset.
NewObjectNoOffset(g, b) ==
  [id |-> b.id, npc |-> -1, state |-> 0, nrooms |-> 0, nstates |-> 0, contains |-> 0, flags |-> {},
   putto |-> "In", roomsOffset |-> 0, stateOffset |-> 0]

\* obj.stateOffset is never assigned.
NewObject(g, b) ==
  [id |-> b.id, npc |-> -1, state |-> 0, nrooms |-> 0, nstates |-> 0, contains |-> 0, flags |-> {},
   putto |-> "In", roomsOffset |-> Size(g, "object_locations"), stateOffset |-> 0]

\* The whole object; it joins the table when its start state is one of its states.
objs_proc(g, b) ==
  LET a == ObjectWords([g |-> g, obj |-> NewObject(g, b), ok |-> TRUE], b.words)
      placed == IF a.ok THEN processObjectRooms(a, b.rooms) ELSE a
      stated == parseObjectStates(placed, b.states)
  IN CASE ~a.ok -> a.g
       [] a.ok /\ b.rooms = <<>> -> [LogError(a.g) EXCEPT !.skip = TRUE]
       [] a.ok /\ b.rooms # <<>> /\ ~placed.ok -> placed.g
       [] placed.ok /\ stated.obj.state >= stated.obj.nstates -> LogError(stated.g)
       [] OTHER -> Counted(push_back(stated.g, "objects", stated.obj), "objects")
=============================================================================
