-------------------------- MODULE CompilerInvariants --------------------------
(***************************************************************************)
(* What is true of Compiler at every step, for any sources: RunInv (the    *)
(* game is Sound, and its file holds what it says), Orderly (where the run *)
(* is in the list of modules) and Referring (what the game refers to is    *)
(* there).  RunInv is inductive, and so are Orderly and Referring together *)
(* with it: CompilerProofs shows it.  The loops over blocks, words and     *)
(* lines have invariants of their own, Kept and (by round) Reached.        *)
(***************************************************************************)
EXTENDS Compiler

-----------------------------------------------------------------------------
(* The loops of the compiler.  A loop is FoldLeft over a list; Round is    *)
(* what one round makes of what the rounds before have made.               *)

Round(loop, a, x) ==
  CASE loop.kind = "syntax_words" -> SyntaxWord(a, x, loop.known)
    [] loop.kind = "room_words" -> RoomWord(a, x)
    [] loop.kind = "descriptions" -> DescribedBy(a, x)
    [] loop.kind = "npc_words" -> NpcWord(a, x)
    [] loop.kind = "npc_texts" -> NpcText(a, x)
    [] loop.kind = "object_words" -> ObjectWord(a, x)
    [] loop.kind = "object_states" -> parseObjectState(a, x)
    [] loop.kind = "parameters" -> CheckNext(a, x, loop.inLang)
    [] loop.kind = "travel_verbs" -> registerTravelVerb(a, x)
    [] loop.kind = "verb_flags" -> VerbFlag(a, x)
    [] loop.kind = "syntax_entries" -> SyntaxEntry(a, x)
    [] loop.kind = "syntax_blocks" -> SyntaxBlock(a, loop.verbId, x)
    [] loop.kind = "travel_entries" -> TravelEntry(a, x, loop.room)

\* What FoldLeft computes for the set s of places of the list.
Folded(loop, base, list, h, s) ==
  IF s = {} THEN base ELSE Round(loop, h[s \ {Max(s)}], list[Max(s)])

Folds(loop, base, list, h) ==
  h = [s \in SUBSET DOMAIN list |-> IF s = {} THEN base ELSE Round(loop, h[s \ {Max(s)}], list[Max(s)])]

\* The rounds of a loop, from its start to what FoldLeft returns.
Rounds(loop, base, list, result) ==
  \E p : /\ p[0] = base
         /\ \A i \in DOMAIN list : p[i] = Round(loop, p[i - 1], list[i])
         /\ result = p[Len(list)]

-----------------------------------------------------------------------------
(* The game as it is compiled.                                             *)

GameFields ==
  {"tab", "num", "labels", "roomIdx", "dmoves", "vbslot", "errors", "quiet", "skip", "fate", "twice"}

TableNames ==
  {"string_index", "ranks", "rooms", "travel", "adjectives", "objects", "object_locations",
   "object_states", "synonyms", "verbs", "syntax_lines", "language_code", "npc_classes"}

IsGame(h) ==
  /\ DOMAIN h = GameFields /\ DOMAIN h.tab = TableNames /\ DOMAIN h.num = TableNames
  /\ \A s \in TableNames : h.num[s] \in Nat /\ IsList(h.tab[s])
  /\ h.errors \in Nat /\ h.quiet \in BOOLEAN /\ (h.quiet => h.errors = 0)
  /\ IsFiniteSet(DOMAIN h.dmoves) /\ h.fate \in {"alive", "fatal", "crash"}

\* The game cannot become a clean one: CleanSourceOnly is about the others.
Failed(h) == h.quiet \/ h.errors > 0 \/ h.fate # "alive"

\* What h may become where only the tables of T change: errors stay, whatever they are about.
Evolves(h, k, T) ==
  /\ IsGame(k)
  /\ k.quiet = h.quiet /\ k.errors >= h.errors
  /\ h.fate # "alive" => k.fate # "alive"
  /\ h.twice => k.twice
  /\ k.roomIdx = h.roomIdx
  /\ \A s \in TableNames \ T : k.tab[s] = h.tab[s] /\ k.num[s] = h.num[s]

-----------------------------------------------------------------------------
(* What is true of the tables as long as nothing has failed.               *)

\* The counters are the lengths of their tables.  The strings and the synonyms are counted at the
\* end, a verb after its syntax lines.
Counts(h) == \A s \in TableNames \ {"string_index", "synonyms", "verbs"} : h.num[s] = Len(h.tab[s])
VerbsCounted(h) == h.twice \/ h.num["verbs"] = Len(h.tab["verbs"])

\* All entries of the table belong to one of the first count owners.
Belong(t, count) == \A i \in DOMAIN t : t[i].of \in 0..(count - 1)

VerbFields == {"id", "flags", "ents", "slotOffset"}

VerbsOwn(h) ==
  /\ \A i \in DOMAIN h.tab["verbs"] :
       /\ DOMAIN h.tab["verbs"][i] = VerbFields
       /\ h.tab["verbs"][i].ents \in Nat /\ h.tab["verbs"][i].slotOffset \in Nat
       /\ Owned(h.tab["syntax_lines"], h.tab["verbs"][i].slotOffset, h.tab["verbs"][i].ents, i - 1)
  /\ Belong(h.tab["syntax_lines"], Len(h.tab["verbs"]))

SyntaxOwn(h) ==
  /\ \A i \in DOMAIN h.tab["syntax_lines"] :
       /\ h.tab["syntax_lines"][i].ents \in Nat /\ h.tab["syntax_lines"][i].lineOffset \in Nat
       /\ Owned(h.tab["language_code"], h.tab["syntax_lines"][i].lineOffset,
                h.tab["syntax_lines"][i].ents, i - 1)
  /\ Belong(h.tab["language_code"], Len(h.tab["syntax_lines"]))

RoomFields == {"id", "flags", "dmove", "shortDesc", "longDesc", "ttlines", "ttOffset"}

RoomsOwn(h) ==
  /\ \A i \in DOMAIN h.tab["rooms"] :
       /\ DOMAIN h.tab["rooms"][i] = RoomFields
       /\ h.tab["rooms"][i].ttlines \in Nat /\ h.tab["rooms"][i].ttOffset \in Nat
       /\ Owned(h.tab["travel"], h.tab["rooms"][i].ttOffset, h.tab["rooms"][i].ttlines, i - 1)
  /\ Belong(h.tab["travel"], Len(h.tab["rooms"]))
  /\ \A name \in DOMAIN h.roomIdx : h.roomIdx[name] \in 0..(Len(h.tab["rooms"]) - 1)

ObjectsOwn(h) ==
  /\ \A i \in DOMAIN h.tab["objects"] :
       /\ h.tab["objects"][i].nrooms \in Nat /\ h.tab["objects"][i].roomsOffset \in Nat
       /\ Owned(h.tab["object_locations"], h.tab["objects"][i].roomsOffset,
                h.tab["objects"][i].nrooms, i - 1)
  /\ Belong(h.tab["object_locations"], Len(h.tab["objects"]))

Whole(h) == Counts(h) /\ VerbsOwn(h) /\ SyntaxOwn(h) /\ RoomsOwn(h) /\ ObjectsOwn(h)

Sound(h) == Failed(h) \/ (Whole(h) /\ VerbsCounted(h))

\* The tables of which nothing but their length matters.
SideTables == {"string_index", "ranks", "adjectives", "npc_classes", "object_states", "synonyms"}

-----------------------------------------------------------------------------
(* What the rounds of each loop keep.                                      *)

\* If the table was counted it still is.
CountKept(h, k, s) == h.num[s] = Len(h.tab[s]) => k.num[s] = Len(k.tab[s])

\* A syntax line of which words have been read.
LineRead(v) == DOMAIN v = {"wtype", "slot", "errors", "done"} /\ v.errors \in Nat

\* A room that is being read.
RoomRead(h, a, T) ==
  /\ DOMAIN a = {"g", "room", "stop"} /\ Evolves(h, a.g, T)
  /\ DOMAIN a.room = RoomFields /\ a.room.ttlines = 0 /\ a.room.ttOffset = 0

ObjectFields ==
  {"id", "npc", "state", "nrooms", "nstates", "contains", "flags", "putto", "roomsOffset", "stateOffset"}

\* An object that is being read: how many places it has, and where they begin.
ObjectRead(a, offset, nrooms) ==
  /\ DOMAIN a = {"g", "obj", "ok"} /\ a.ok \in BOOLEAN /\ DOMAIN a.obj = ObjectFields
  /\ a.obj.roomsOffset = offset /\ a.obj.nrooms = nrooms

WordsRead(h, a) ==
  Evolves(h, a.g, {"adjectives"}) /\ CountKept(h, a.g, "adjectives") /\ (~a.ok => Failed(a.g))

StatesRead(h, a) ==
  Evolves(h, a.g, {"string_index", "object_states"}) /\ CountKept(h, a.g, "object_states")

\* The syntax lines of the verb that is being compiled are the last ones of their table, and the
\* verb is not counted yet.
InVerb(h, verbId) ==
  /\ verbId \in 0..(Len(h.tab["verbs"]) - 1)
  /\ h.tab["verbs"][verbId + 1].slotOffset + h.tab["verbs"][verbId + 1].ents = Len(h.tab["syntax_lines"])
  /\ h.twice \/ h.num["verbs"] + 1 = Len(h.tab["verbs"])

VerbRead(h, verbId) == IsGame(h) /\ (Failed(h) \/ (Whole(h) /\ InVerb(h, verbId)))

SlotFields == {"wtype", "slot", "ents", "of", "lineOffset"}

\* The lines of the syntax line that is being compiled are the last ones of their table.
InSyntax(h, slot) ==
  /\ slot.ents \in Nat /\ slot.lineOffset \in Nat
  /\ slot.lineOffset + slot.ents = Len(h.tab["language_code"])
  /\ Owned(h.tab["language_code"], slot.lineOffset, slot.ents, Len(h.tab["syntax_lines"]))
  /\ \A i \in DOMAIN h.tab["syntax_lines"] :
       /\ h.tab["syntax_lines"][i].ents \in Nat /\ h.tab["syntax_lines"][i].lineOffset \in Nat
       /\ Owned(h.tab["language_code"], h.tab["syntax_lines"][i].lineOffset,
                h.tab["syntax_lines"][i].ents, i - 1)
  /\ Belong(h.tab["language_code"], Len(h.tab["syntax_lines"]) + 1)

SyntaxRead(h, a, slot) ==
  /\ DOMAIN a = {"g", "slot"} /\ DOMAIN a.slot = SlotFields
  /\ a.slot.of = slot.of
  /\ Evolves(h, a.g, {"string_index", "language_code"})
  /\ CountKept(h, a.g, "language_code")
  /\ Failed(a.g) \/ InSyntax(a.g, a.slot)

\* The travel lines of the room that is being compiled are the last ones of their table.
InRoom(h, room) ==
  /\ room \in 0..(Len(h.tab["rooms"]) - 1)
  /\ h.tab["rooms"][room + 1].ttOffset + h.tab["rooms"][room + 1].ttlines = Len(h.tab["travel"])

TravelRead(a, room) ==
  /\ DOMAIN a = {"g", "verbs", "ok"} /\ IsList(a.verbs)
  /\ IsGame(a.g) /\ Sound(a.g) /\ (Failed(a.g) \/ InRoom(a.g, room))

\* loop.from is the game before the loop, or what is known of it.
Kept(loop, a) ==
  CASE loop.kind = "syntax_words" -> LineRead(a)
    [] loop.kind = "room_words" -> RoomRead(loop.from, a, {})
    [] loop.kind = "descriptions" -> RoomRead(loop.from, a, {"string_index"})
    [] loop.kind = "npc_words" -> DOMAIN a = {"g", "npc"} /\ Evolves(loop.from, a.g, {})
    [] loop.kind = "npc_texts" -> DOMAIN a = {"g", "npc", "ok"} /\ Evolves(loop.from, a.g, {"string_index"})
    [] loop.kind = "object_words" ->
         ObjectRead(a, loop.offset, 0) /\ WordsRead(loop.from, a)
    [] loop.kind = "object_states" ->
         ObjectRead(a, loop.offset, loop.nrooms) /\ StatesRead(loop.from, a)
    [] loop.kind = "parameters" ->
         Evolves(loop.from, a.g, {"string_index"}) /\ (~a.ok => Failed(a.g))
    [] loop.kind = "travel_verbs" -> IsGame(a) /\ Sound(a)
    [] loop.kind = "verb_flags" ->
         DOMAIN a = {"g", "flags", "precedence", "stop"} /\ Evolves(loop.from, a.g, {})
    [] loop.kind = "syntax_entries" -> SyntaxRead(loop.from, a, loop.slot)
    [] loop.kind = "syntax_blocks" -> VerbRead(a, loop.verbId)
    [] loop.kind = "travel_entries" -> TravelRead(a, loop.room)

\* The object a with one more state.
Stated(a, k, state) ==
  [a EXCEPT !.g = Counted(push_back(k, "object_states", state), "object_states"), !.obj.nstates = @ + 1]

\* A table that gains several entries and is counted.
Appended(h, s, list) == [h EXCEPT !.tab[s] = @ \o list, !.num[s] = @ + Len(list)]

\* Where an object with these names of places starts.
Starts(h, names) == ToSet([i \in DOMAIN names |-> Location(h, names[i])]) \ {-1}

StartsAt(h, names, entries) ==
  /\ IsFiniteSet(Starts(h, names)) /\ Len(entries) = Cardinality(Starts(h, names))
  /\ \A i \in DOMAIN entries : entries[i].place = Ascending(Starts(h, names))[i]

\* Parameters of which some have been read.
ParametersRead(h, a) == Evolves(h, a.g, {"string_index"}) /\ (~a.ok => Failed(a.g))

\* What a line comes to: there is one, or there is an error.
Coming(h, r) ==
  /\ Evolves(h, r.g, {"string_index"}) /\ IsList(r.lines)
  /\ Len(r.lines) = 1 \/ (r.lines = <<>> /\ Failed(r.g))

\* The verbs when one of them has one syntax line more.
Grown(verbs, verbId) == [verbs EXCEPT ![verbId + 1].ents = @ + 1]

\* The game with another table.
Edited(h, s, t) == [h EXCEPT !.tab[s] = t]

\* Every verb finds its syntax lines.
VerbsHave(verbs, syntax) ==
  \A i \in DOMAIN verbs :
    /\ DOMAIN verbs[i] = VerbFields /\ verbs[i].ents \in Nat /\ verbs[i].slotOffset \in Nat
    /\ Owned(syntax, verbs[i].slotOffset, verbs[i].ents, i - 1)

\* One without syntax lines may begin anywhere.
Started(verbs, verbId, offset) == [verbs EXCEPT ![verbId + 1].slotOffset = offset]

\* Flags are about nothing else.
Flagged(verbs, verbId, flags) == [verbs EXCEPT ![verbId + 1].flags = flags]

TravelFields == {"g", "verbs", "ok"}

\* Every room finds its travel lines.
RoomsHave(rooms, travel) ==
  \A i \in DOMAIN rooms :
    /\ DOMAIN rooms[i] = RoomFields /\ rooms[i].ttlines \in Nat /\ rooms[i].ttOffset \in Nat
    /\ Owned(travel, rooms[i].ttOffset, rooms[i].ttlines, i - 1)

\* The rooms when one of them has more travel lines.
Lined(rooms, room, count) == [rooms EXCEPT ![room + 1].ttlines = @ + count]

\* The rooms when one of them has its travel lines at the offset.
Placed(rooms, room, offset) == [rooms EXCEPT ![room + 1].ttOffset = offset]

-----------------------------------------------------------------------------
(* The list of modules.                                                    *)

\* The first k + 1 of the nodes y, as a walk along them.
Path(y, k) == [i \in 1..(k + 1) |-> y[i]]

\* The nodes y are what a walk along the k links of a list comes by, and then Null.
Nodes(y, k, links) ==
  /\ \A i \in 1..(k + 1) : y[i] \in ModuleIDs \cup {Null}
  /\ \A i \in 1..k : y[i] # Null /\ links[y[i]] = y[i + 1]
  /\ y[k + 1] = Null

\* The first k modules are on the list, in their order, and none of them is freed.
Linked(r, k) ==
  /\ DOMAIN r = {"head", "tail", "next", "prev", "freed", "closed"}
  /\ DOMAIN r.next = ModuleIDs /\ DOMAIN r.prev = ModuleIDs
  /\ r.head = IF k = 0 THEN Null ELSE ModuleOrder[1]
  /\ r.tail = IF k = 0 THEN Null ELSE ModuleOrder[k]
  /\ \A i \in 1..k : /\ r.next[ModuleOrder[i]] = IF i = k THEN Null ELSE ModuleOrder[i + 1]
                     /\ r.prev[ModuleOrder[i]] = IF i = 1 THEN Null ELSE ModuleOrder[i - 1]
                     /\ ModuleOrder[i] \notin r.freed

-----------------------------------------------------------------------------
(* The run.                                                                *)

\* Nothing stands against the game.
Good(h) == h.errors = 0 /\ h.fate = "alive" /\ ~h.skip

\* The file holds the counters of the game and the first of its tables.
Saving ==
  /\ DOMAIN gameFile = {"by", "config", "tables"} /\ gameFile.config = Config(g)
  /\ IsList(gameFile.tables) /\ Len(gameFile.tables) <= Len(Sections)
  /\ \A i \in DOMAIN gameFile.tables : /\ gameFile.tables[i].label = Sections[i]
                                       /\ gameFile.tables[i].entries = g.tab[Sections[i]]

\* The game is sound in every phase, and nothing of it is written before it is complete.
RunInv ==
  /\ IsGame(g) /\ Sound(g)
  /\ pc \in {"register", "start", "open", "read", "save", "close", "end"}
  /\ pc \in {"register", "start", "open", "save"} => Good(g)
  /\ pc = "open" => n \in 1..(Len(phases) + 1)
  /\ pc = "read" => n \in 1..Len(phases) /\ g.fate = "alive" /\ IsFile(Phase, src)
  /\ pc = "save" => /\ n \in 1..(Len(Sections) + 1) /\ gameFile.by = "this_run"
                    /\ Len(gameFile.tables) = n - 1
  /\ pc = "open" /\ n > Len(phases) => g.num["synonyms"] = Len(g.tab["synonyms"])
  /\ gameFile.by = "this_run" =>
       pc \in {"save", "close", "end"} /\ Good(g) /\ Saving /\ g.num["synonyms"] = Len(g.tab["synonyms"])
  /\ server # "off" => pc = "end" /\ gameFile.by = "this_run"
  /\ server = "up" => Len(gameFile.tables) = Len(Sections)

\* What the phases compile.
PhaseNames ==
  {"title", "sysmsg", "umsg", "obdescs", "rooms", "ranks", "npcs", "objects", "lang", "travel", "syns"}

-----------------------------------------------------------------------------
(* The run's place in the list of modules.                                 *)

\* How long the list of modules is, at each point of the run.
Stage(k) ==
  /\ pc = "register" => n \in 1..4 /\ k = n - 1 /\ m.freed = {}
  /\ pc \in {"start", "open", "read", "save"} => k = 4
  /\ pc = "close" => cur = IF k = 0 THEN Null ELSE ModuleOrder[k]

Orderly ==
  /\ n \in 1..14 /\ cur \in ModuleIDs \cup {Null} /\ exiting \in BOOLEAN
  /\ outcome = "running" <=> pc # "end"
  /\ \E k \in 0..4 : Linked(m, k) /\ Stage(k)

-----------------------------------------------------------------------------
(* What the entries of the tables refer to.                                *)

Top(h, s) == Len(h.tab[s]) - 1

\* What an argument that was compiled for a parameter of a kind names is there.
ArgRight(h, arg, kind) ==
  /\ arg[1] = "room" => arg[2] \in 0..Top(h, "rooms")
  /\ arg[1] = "noun" => arg[2] \in (IF kind = "real" THEN -1 ELSE 0)..Top(h, "objects")
  /\ arg[1] \in {"verb", "daemon"} => arg[2] \in 0..Top(h, "verbs")
  /\ arg[1] = "text" => arg[2] \in 0..Top(h, "string_index")

\* A label stands for a word of the type that is wanted, below a syntax line with these types.
ArgFits(arg, kind, wtype) == arg[1] = "slot" => kind \in {"real", wtype[arg[2]]}

OperationRight(h, op, params) ==
  /\ DOMAIN op.args = DOMAIN params /\ Len(op.args) = Len(params)
  /\ \A i \in DOMAIN params : ArgRight(h, op.args[i], params[i])
OperationFits(op, params, wtype) == \A i \in DOMAIN params : ArgFits(op.args[i], params[i], wtype)

LineRight(h, line) ==
  /\ OperationRight(h, line.condition, conditions[line.condition.op])
  /\ OperationRight(h, line.action, actions[line.action.op])
LineFits(line, wtype) ==
  /\ OperationFits(line.condition, conditions[line.condition.op], wtype)
  /\ OperationFits(line.action, actions[line.action.op], wtype)

\* The types of the words of syntax line number of: the one being compiled is not in the table yet.
Types(h, of) ==
  IF of < Len(h.tab["syntax_lines"]) THEN h.tab["syntax_lines"][of + 1].wtype ELSE h.vbslot.wtype

\* The object starts in a room, or inside a container before it.
PlaceRight(h, e) ==
  \/ e.place \in 0..Top(h, "rooms")
  \/ \E j \in 0..Top(h, "objects") :
       j < e.of /\ e.place = Inside(j) /\ h.tab["objects"][j + 1].contains > 0

EntryRight(h, s, e) ==
  /\ s = "rooms" => DOMAIN e = RoomFields /\ e.dmove \in -1..Top(h, "rooms")
  /\ s = "npc_classes" => /\ e.dmove \in -1..Top(h, "rooms")
                          /\ ToSet(e.texts) \subseteq -1..Top(h, "string_index")
  /\ s = "objects" => e.npc \in -1..Top(h, "npc_classes")
  /\ s = "object_locations" => PlaceRight(h, e)
  /\ s = "language_code" => e.of \in Nat /\ LineRight(h, e) /\ LineFits(e, Types(h, e.of))
  /\ s = "travel" => e.verb \in 0..Top(h, "verbs") /\ LineRight(h, e)
  /\ s = "synonyms" => e.aliases \in -2..Top(h, IF e.type = "noun" THEN "objects" ELSE "verbs") \ {-1}

\* Labels and names of rooms lead into their tables, the names to the rooms of that name.
IndexRight(h) ==
  /\ \A label \in DOMAIN h.labels : h.labels[label] \in 0..Top(h, "string_index")
  /\ \A name \in DOMAIN h.roomIdx : /\ h.roomIdx[name] \in 0..Top(h, "rooms")
                                    /\ h.tab["rooms"][h.roomIdx[name] + 1].id = name

NamesKept(h, k) ==
  \A i \in DOMAIN h.tab["rooms"] : i \in DOMAIN k.tab["rooms"] /\ k.tab["rooms"][i].id = h.tab["rooms"][i].id

Refs(h) == IndexRight(h) /\ \A s \in TableNames : \A i \in DOMAIN h.tab[s] : EntryRight(h, s, h.tab[s][i])

\* No line waits for its syntax line.
Calm(h) == Belong(h.tab["language_code"], Len(h.tab["syntax_lines"]))

\* The game grows: nothing that may be referred to goes away or becomes something else.
LabelsKept(h, k) ==
  \A label \in DOMAIN h.labels : label \in DOMAIN k.labels /\ k.labels[label] = h.labels[label]

\* Only rooms that are there have a name after dmove=.
Moves(h) == DOMAIN h.dmoves \subseteq DOMAIN h.roomIdx

Grows(h, k) ==
  /\ IsGame(k) /\ k.quiet = h.quiet /\ LabelsKept(h, k) /\ (Moves(h) => Moves(k))
  /\ \A s \in TableNames : Len(h.tab[s]) <= Len(k.tab[s])
  /\ \A i \in DOMAIN h.tab["objects"] : k.tab["objects"][i] = h.tab["objects"][i]

\* The syntax lines and the lines under them stay as they are.
SyntaxKept(h, k) ==
  /\ k.vbslot = h.vbslot
  /\ k.tab["syntax_lines"] = h.tab["syntax_lines"] /\ k.tab["language_code"] = h.tab["language_code"]

Extends(h, k) == Grows(h, k) /\ SyntaxKept(h, k) /\ Refs(k)

\* Only the counters, the errors, and what nothing refers to may differ.
Alike(h, k) ==
  /\ k.tab = h.tab /\ k.labels = h.labels /\ k.roomIdx = h.roomIdx
  /\ k.vbslot = h.vbslot /\ k.quiet = h.quiet /\ k.dmoves = h.dmoves

-----------------------------------------------------------------------------
(* How far a loop has come after a number of rounds.                       *)

\* The room that is being read is not there yet, but its name after dmove= is: without that the
\* game extends the one before.
Unmoved(h, k) == [k EXCEPT !.dmoves = h.dmoves]

RoomReached(h, a, id, T) ==
  /\ RoomRead(h, a, T) /\ Extends(h, Unmoved(h, a.g)) /\ DOMAIN a.g.dmoves \subseteq DOMAIN h.dmoves \cup {id}
  /\ a.room.dmove = -1 /\ a.room.id = id

NpcFields == {"id", "deadstate", "dmove", "texts"}

NpcReached(h, a) ==
  /\ Extends(h, a.g)
  /\ DOMAIN a.npc = NpcFields /\ IsList(a.npc.texts) /\ EntryRight(a.g, "npc_classes", a.npc)

ObjectReached(h, a) == Extends(h, a.g) /\ a.obj.npc \in -1..Top(a.g, "npc_classes")

\* The first count parameters have arguments.
ArgumentsReached(h, a, params, count) ==
  /\ Extends(h, a.g)
  /\ a.ok => /\ IsList(a.args) /\ Len(a.args) = count
             /\ \A i \in 1..count : /\ ArgRight(a.g, a.args[i], params[i])
                                    /\ ArgFits(a.args[i], params[i], h.vbslot.wtype)

\* Below a syntax line no line is compiled once the run is over.
SyntaxReached(h, a, slot) ==
  IF h.fate # "alive" THEN a.g = h
  ELSE /\ Grows(h, a.g) /\ Refs(a.g) /\ a.g.vbslot = h.vbslot
       /\ a.g.tab["syntax_lines"] = h.tab["syntax_lines"]
       /\ DOMAIN a = {"g", "slot"} /\ DOMAIN a.slot = SlotFields /\ a.slot.wtype = slot.wtype
       /\ Belong(a.g.tab["language_code"], Len(h.tab["syntax_lines"]) + 1)

BlocksReached(h, k) == IsGame(k) /\ (k.fate = "alive" => Grows(h, k) /\ Refs(k) /\ Calm(k))

TravelReached(h, a) ==
  /\ DOMAIN a = TravelFields /\ Extends(h, a.g)
  /\ IsList(a.verbs) /\ ToSet(a.verbs) \subseteq 0..Top(a.g, "verbs")

Reached(loop, a, count) ==
  CASE loop.kind = "room_words" -> RoomReached(loop.from, a, loop.id, {})
    [] loop.kind = "descriptions" -> RoomReached(loop.from, a, loop.id, {"string_index"})
    [] loop.kind = "npc_words" -> DOMAIN a = {"g", "npc"} /\ NpcReached(loop.from, a)
    [] loop.kind = "npc_texts" -> DOMAIN a = {"g", "npc", "ok"} /\ NpcReached(loop.from, a)
    [] loop.kind = "object_words" ->
         ObjectRead(a, loop.offset, 0) /\ WordsRead(loop.from, a) /\ ObjectReached(loop.from, a)
    [] loop.kind = "object_states" ->
         ObjectRead(a, loop.offset, loop.nrooms) /\ StatesRead(loop.from, a) /\ ObjectReached(loop.from, a)
    [] loop.kind = "parameters" -> ArgumentsReached(loop.from, a, loop.params, count)
    [] loop.kind = "travel_verbs" -> Extends(loop.from, a)
    [] loop.kind = "verb_flags" ->
         DOMAIN a = {"g", "flags", "precedence", "stop"} /\ Extends(loop.from, a.g)
    [] loop.kind = "syntax_entries" -> SyntaxReached(loop.from, a, loop.slot)
    [] loop.kind = "syntax_blocks" -> BlocksReached(loop.from, a)
    [] loop.kind = "travel_entries" -> TravelReached(loop.from, a)

\* An operation with these parameters may go into a line.
OperationReady(h, k, op, params) == OperationRight(k, op, params) /\ OperationFits(op, params, h.vbslot.wtype)

ParametersReady(h, a, params) ==
  Extends(h, a.g) /\ (a.ok => \A op : OperationReady(h, a.g, Operation(op, a.args), params))

\* What a line comes to: the operations of the line are right.
LineReached(h, r) ==
  /\ Extends(h, r.g)
  /\ \A i \in DOMAIN r.lines : LineRight(r.g, r.lines[i]) /\ LineFits(r.lines[i], h.vbslot.wtype)

\* The texts of the system: none; the title and some of the messages; all of them, each
\* where its number says if they came in their order.
Blank(h) == DOMAIN h.labels = {} /\ Len(h.tab["string_index"]) = 0
Messages(h) ==
  /\ Sys(0) \in DOMAIN h.labels /\ h.labels[Sys(0)] = 0
  /\ \A label \in DOMAIN h.labels : label = Sys(0) \/ (check_smsg(label) /\ h.labels[label] >= 1)
  /\ IsFiniteSet(DOMAIN h.labels)
  /\ Len(h.tab["string_index"]) = Cardinality(DOMAIN h.labels)
InPlace(h) ==
  /\ \A i \in 0..NSMSGS : Sys(i) \in DOMAIN h.labels
  /\ (\A i, j \in 1..NSMSGS : i < j => h.labels[Sys(i)] < h.labels[Sys(j)])
       => \A i \in 0..NSMSGS : h.labels[Sys(i)] = i

\* What is compiled refers to what is there, in every phase.
Referring ==
  /\ g.fate = "alive" => Refs(g) /\ Calm(g) /\ Moves(g)
  /\ pc \in {"register", "start"} \/ (pc = "open" /\ n = 1) => Blank(g)
  /\ pc = "read" /\ n = 1 => (Blank(g) /\ src # <<>> /\ ~g.skip) \/ Messages(g)
  /\ pc \in {"open", "read"} /\ n = 2 => Messages(g)
  /\ (pc \in {"open", "read"} /\ n > 2) \/ pc = "save" \/ gameFile.by = "this_run" => g.quiet \/ InPlace(g)
=============================================================================
