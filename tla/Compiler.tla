------------------------------- MODULE Compiler -------------------------------
(***************************************************************************)
(* A run of the game compiler amulcom (amulcom.main.cpp), from main to     *)
(* exit, and the server's reading of the file it leaves (amul.server.cpp). *)
(*                                                                         *)
(* The run registers its modules (logging, the command line, compiler,     *)
(* strings), starts them, which gives the game directory the default text  *)
(* files it lacks, compiles the files phase by phase, saves the game       *)
(* table by table and closes the modules.  A LogFatal anywhere exits on    *)
(* the spot: no module is closed.                                          *)
(*                                                                         *)
(* What a text file holds is chosen when its phase opens it; a block is    *)
(* compiled in one step by the operators of Tables and Language.           *)
(***************************************************************************)
EXTENDS DefaultGame, Modules

CONSTANTS
  Sources,     \* for each phase, the contents its file may have
  Missing0,    \* the files the game directory may lack, as sets
  ErrorLimit   \* errors at which reading stops: 30

IsList(x) == x \in Seq(ToSet(x))

\* What the readers of each file make of a block of it: the words and the lines are lists, and
\* what the optional lines of a room are is known.
IsBlock(phase, b) ==
  CASE phase = "rooms" -> IsList(b.words) /\ b.desc \in Seq({"shortDesc", "longDesc"})
    [] phase = "npcs" -> IsList(b.words) /\ IsList(b.texts)
    [] phase = "objects" -> IsList(b.words) /\ IsList(b.rooms) /\ IsList(b.states)
    [] phase = "lang" ->
         /\ IsList(b.words)
         /\ b.type # "travel" => /\ IsList(b.syntaxes)
                                 /\ \A s \in ToSet(b.syntaxes) : IsList(s.words) /\ IsList(s.lines)
    [] phase = "travel" ->
         IsList(b.entries) /\ \A e \in ToSet(b.entries) : e.key = "verbs" => IsList(e.names)
    [] phase = "syns" -> IsList(b.words)
    [] OTHER -> TRUE

IsFile(phase, content) == IsList(content) /\ \A b \in ToSet(content) : IsBlock(phase, b)

ASSUME SourcesAssumption ==
  /\ ErrorLimit \in Nat
  /\ \A phase \in DOMAIN DefaultFiles : \A content \in Sources[phase] : IsFile(phase, content)

VARIABLES
  pc,          \* "register", "start", "open", "read", "save", "close", "end"
  n,           \* which module, phase or table is next
  cur,         \* module that is being started or closed
  m,           \* registry of modules
  g,           \* game as compiled so far
  src,         \* what is left of the file being read
  lacking,     \* text files the directory lacks
  gameFile,    \* compiled game on disk: [by, config, tables]
  exiting,     \* compilation is complete
  outcome,     \* how the run ended
  server       \* a server started on the file: "off", "up" or "refused"

vars == <<pc, n, cur, m, g, src, lacking, gameFile, exiting, outcome, server>>

ModuleOrder == <<"logging", "cmdline", "compiler", "strings">>

phases ==
  <<"title", "sysmsg", "umsg", "obdescs", "rooms", "ranks", "npcs", "objects", "lang", "travel", "syns">>

\* The game file before this run, and one of which nothing has been written yet.
OldFile == [by |-> "earlier_run", config |-> <<>>, tables |-> <<>>]
NoFile == [by |-> "nobody", config |-> <<>>, tables |-> <<>>]

Init ==
  /\ pc = "register" /\ n = 1 /\ cur = Null /\ m = NoModules
  /\ g = NewGame(FALSE) /\ src = <<>> /\ lacking \in Missing0
  /\ gameFile \in {OldFile, NoFile} /\ exiting = FALSE /\ outcome = "running" /\ server = "off"

\* exit(): the run ends here.
Exit(how) == outcome' = how /\ pc' = "end"

(***************************************************************************)
(* main, up to StartModules                                                *)
(***************************************************************************)
Registers ==
  /\ m' = NewModule(m, ModuleOrder[n])
  /\ n' = n + 1
  /\ IF n = Len(ModuleOrder) THEN pc' = "start" /\ cur' = m'.head ELSE UNCHANGED <<pc, cur>>

\* InitLogging, InitCompilerModule, InitStrings.
RegisterModule ==
  /\ pc = "register" /\ ModuleOrder[n] # "cmdline"
  /\ Registers
  /\ UNCHANGED <<g, src, lacking, gameFile, exiting, outcome, server>>

\* InitCommandLine: two -q raise the level of the log above errors.
ParseCommandLine ==
  /\ pc = "register" /\ ModuleOrder[n] = "cmdline"
  /\ \E quiet \in BOOLEAN : g' = NewGame(quiet)
  /\ Registers
  /\ UNCHANGED <<src, lacking, gameFile, exiting, outcome, server>>

\* -help exits; a wrong option or directory fails the module, which is fatal.
CommandLineExits ==
  /\ pc = "register" /\ ModuleOrder[n] = "cmdline"
  /\ m' = NewModule(m, "cmdline")
  /\ \E how \in {"usage", "fatal"} : Exit(how)
  /\ UNCHANGED <<n, cur, g, src, lacking, gameFile, exiting, server>>

\* The logging module insists that the command line has been read: else Terminate.
StartLogging ==
  /\ pc = "start" /\ cur = "logging"
  /\ IF GetModule(m, "cmdline") THEN cur' = m.next[cur] /\ UNCHANGED <<pc, outcome>>
     ELSE cur' = m.tail /\ pc' = "close" /\ outcome' = "terminating"
  /\ UNCHANGED <<n, m, g, src, lacking, gameFile, exiting, server>>

\* compilerModuleStart: default files, the data directory; each may be impossible to write.
StartCompiler ==
  /\ pc = "start" /\ cur = "compiler"
  /\ \/ cur' = m.next[cur] /\ UNCHANGED <<pc, outcome>>
     \/ Exit("fatal") /\ UNCHANGED cur
  /\ UNCHANGED <<n, m, g, src, lacking, gameFile, exiting, server>>

\* The modules without a start handler, and the strings.
StartOther ==
  /\ pc = "start" /\ cur \notin {"logging", "compiler"}
  /\ IF cur = Null THEN pc' = "open" /\ n' = 1 /\ UNCHANGED cur
     ELSE cur' = m.next[cur] /\ UNCHANGED <<pc, n>>
  /\ UNCHANGED <<m, g, src, lacking, gameFile, exiting, outcome, server>>

(***************************************************************************)
(* compileGame                                                             *)
(***************************************************************************)
Phase == phases[n]

\* Files that must hold something: these handlers begin with nextc(true), or need the title.
NeedsData == {"title", "ranks", "lang"}

\* compilePhase opens the file.
OpenPhase ==
  /\ pc = "open" /\ n <= Len(phases)
  /\ \E content \in (IF Phase \in lacking THEN {DefaultFiles[Phase]} ELSE Sources[Phase]) :
       IF content = <<>> /\ Phase \in NeedsData THEN Exit("fatal") /\ UNCHANGED src
       ELSE src' = content /\ pc' = "read" /\ UNCHANGED outcome
  /\ UNCHANGED <<n, cur, m, g, lacking, gameFile, exiting, server>>

OpenFails ==
  /\ pc = "open" /\ n <= Len(phases)
  /\ Exit("fatal")
  /\ UNCHANGED <<n, cur, m, g, src, lacking, gameFile, exiting, server>>

Handler(h, b) ==
  CASE Phase = "title" -> title_proc(h, b)
    [] Phase = "sysmsg" -> smsg_proc(h, b)
    [] Phase \in {"umsg", "obdescs"} -> umsg_proc(h, b)
    [] Phase = "rooms" -> room_proc(h, b)
    [] Phase = "ranks" -> rank_proc(h, b)
    [] Phase = "npcs" -> npc_proc(h, b)
    [] Phase = "objects" -> objs_proc(h, b)
    [] Phase = "lang" -> lang_proc(h, b)
    [] Phase = "travel" -> trav_proc(h, b)
    [] Phase = "syns" -> syn_proc(h, b)

\* What a handler does once it has read its file.
AtEnd(h) ==
  CASE Phase = "sysmsg" -> smsg_end(h)
    [] Phase = "rooms" -> room_end(h)
    [] Phase = "syns" -> syn_end(h)
    [] OTHER -> h

\* One block: handlers look at the number of errors before each, npc_proc, objs_proc, smsg_proc
\* and room_proc also on their way, which only shows in how many errors are reported.
CompileBlock ==
  /\ pc = "read" /\ src # <<>> /\ g.errors <= ErrorLimit
  /\ src' = Tail(src)
  /\ g' = IF g.skip THEN [g EXCEPT !.skip = FALSE] ELSE Handler(g, Head(src))
  /\ IF g'.fate = "alive" THEN UNCHANGED <<pc, outcome>> ELSE Exit(g'.fate)
  /\ UNCHANGED <<n, cur, m, lacking, gameFile, exiting, server>>

\* CheckErrorCount.
TooManyErrors ==
  /\ pc = "read" /\ src # <<>> /\ g.errors > ErrorLimit
  /\ Exit("fatal")
  /\ UNCHANGED <<n, cur, m, g, src, lacking, gameFile, exiting, server>>

\* Mutant: the limit for reading on is the limit for going on.
PhasePassesLimit(h) == h.errors <= ErrorLimit

\* Errors are fatal at the end of their phase.
PhasePasses(h) == h.errors = 0

EndPhase ==
  /\ pc = "read" /\ src = <<>>
  /\ g' = [AtEnd(g) EXCEPT !.skip = FALSE]
  /\ IF PhasePasses(g') THEN pc' = "open" /\ n' = n + 1 /\ UNCHANGED outcome
     ELSE Exit("fatal") /\ UNCHANGED n
  /\ UNCHANGED <<cur, m, src, lacking, gameFile, exiting, server>>

(***************************************************************************)
(* Game::Save and the end of main                                          *)
(***************************************************************************)
\* The number of strings is taken from the table, the other counters are what the phases counted.
Config(h) == [h.num EXCEPT !["string_index"] = Size(h, "string_index")]

\* fopenw cuts the old file off; the counters are written first.
OpenGameFile ==
  /\ pc = "open" /\ n > Len(phases)
  /\ gameFile' = [by |-> "this_run", config |-> Config(g), tables |-> <<>>]
  /\ pc' = "save" /\ n' = 1
  /\ UNCHANGED <<cur, m, g, src, lacking, exiting, outcome, server>>

\* It cannot be opened: an error, and then the counters are written through a null pointer.
OpenGameFileFails ==
  /\ pc = "open" /\ n > Len(phases)
  /\ Exit("crash")
  /\ UNCHANGED <<n, cur, m, g, src, lacking, gameFile, exiting, server>>

\* checkedSave.
SaveTable ==
  /\ pc = "save" /\ n <= Len(Sections)
  /\ gameFile' = [gameFile EXCEPT !.tables =
                    Append(@, [label |-> Sections[n], entries |-> g.tab[Sections[n]]])]
  /\ n' = n + 1
  /\ UNCHANGED <<pc, cur, m, g, src, lacking, exiting, outcome, server>>

\* The disk is full.
SaveFails ==
  /\ pc = "save" /\ n <= Len(Sections)
  /\ Exit("fatal")
  /\ UNCHANGED <<n, cur, m, g, src, lacking, gameFile, exiting, server>>

\* Mutant: the modules are closed from the head of their list.
SavedFromHead ==
  /\ pc = "save" /\ n > Len(Sections)
  /\ exiting' = TRUE /\ cur' = m.head /\ pc' = "close"
  /\ UNCHANGED <<n, m, g, src, lacking, gameFile, outcome, server>>

\* Execution finished normally.
Saved ==
  /\ pc = "save" /\ n > Len(Sections)
  /\ exiting' = TRUE /\ cur' = m.tail /\ pc' = "close"
  /\ UNCHANGED <<n, m, g, src, lacking, gameFile, outcome, server>>

\* compilerModuleClose deletes the game of a compilation that was not completed.
Unlinks == cur = "compiler" /\ (outcome = "terminating" \/ ~exiting)

CloseNext ==
  /\ pc = "close"
  /\ IF cur = Null THEN Exit(IF outcome = "running" THEN "finished" ELSE outcome) /\ UNCHANGED <<cur, m>>
     ELSE cur' = m.prev[cur] /\ m' = CloseModule(m, cur) /\ UNCHANGED <<pc, outcome>>
  /\ gameFile' = IF Unlinks THEN NoFile ELSE gameFile
  /\ UNCHANGED <<n, g, src, lacking, exiting, server>>

(***************************************************************************)
(* A server on what this run left: Game::Load                              *)
(***************************************************************************)
\* Mutant: the end of the file is the end of the game.
LoadsCutShort(file) ==
  \A i \in DOMAIN file.tables : /\ file.tables[i].label = Sections[i]
                                /\ Len(file.tables[i].entries) = file.config[Sections[i]]

Loads(file) ==
  /\ Len(file.tables) = Len(Sections)
  /\ \A i \in DOMAIN Sections : /\ file.tables[i].label = Sections[i]
                                /\ Len(file.tables[i].entries) = file.config[Sections[i]]

StartServer ==
  /\ pc = "end" /\ gameFile.by = "this_run" /\ server = "off"
  /\ server' = IF Loads(gameFile) THEN "up" ELSE "refused"
  /\ UNCHANGED <<pc, n, cur, m, g, src, lacking, gameFile, exiting, outcome>>

Done == pc = "end" /\ (server # "off" \/ gameFile.by # "this_run") /\ UNCHANGED vars

Runs ==
  \/ RegisterModule \/ ParseCommandLine \/ CommandLineExits
  \/ StartLogging \/ StartCompiler \/ StartOther
  \/ OpenPhase \/ OpenFails \/ CompileBlock \/ TooManyErrors \/ EndPhase
  \/ OpenGameFile \/ OpenGameFileFails \/ SaveTable \/ SaveFails \/ Saved
  \/ CloseNext

Next == Runs \/ StartServer \/ Done

\* The process is scheduled until it exits, as one step of Runs is possible until then: this is
\* WF_vars(Runs), with pc # "end" for ENABLED <<Runs>>_vars.
KeepsRunning == []<>(pc = "end") \/ []<><<Runs>>_vars

Spec == Init /\ [][Next]_vars /\ KeepsRunning

----------------------------------------------------------------------------
(* Properties *)

Complete == gameFile.by = "this_run" /\ Len(gameFile.tables) = Len(Sections)

\* A complete game of a compiler whose log counts errors.
Clean == Complete /\ ~g.quiet

MaxIndex(s) == Len(g.tab[s]) - 1

\* The registry of modules is one list in both directions, and the module that is started or
\* closed is on it (modules.cpp).
Registered ==
  /\ Tail(Reverse(Walk(m.tail, m.prev))) = Front(Walk(m.head, m.next))
  /\ pc \in {"start", "close"} /\ cur # Null => GetModule(m, cur) /\ cur \notin m.freed

\* The state of the run is well formed: the tables are lists, the registry holds together.
TypeOK ==
  /\ pc \in {"register", "start", "open", "read", "save", "close", "end"}
  /\ n \in 1..(Len(Sections) + 1)
  /\ cur \in ModuleIDs \cup {Null} /\ exiting \in BOOLEAN
  /\ g.errors \in Nat /\ (g.quiet => g.errors = 0)
  /\ \A s \in ToSet(Sections) : g.num[s] \in Nat /\ IsList(g.tab[s])
  /\ outcome = "running" <=> pc # "end"
  /\ server # "off" => gameFile.by = "this_run"
  /\ Registered

\* Only a source without errors becomes a game, whatever the phase the error is in: Save runs
\* after all of them (compilePhase, compileGame).
CleanSourceOnly == Clean => g.errors = 0 /\ g.fate = "alive" /\ ~g.skip

\* The entries of table t that belong to owner are those the owner's offset and count say.
Owned(t, offset, count, owner) ==
  {i \in DOMAIN t : t[i].of = owner} = (offset + 1)..(offset + count)

\* What a verb, a syntax line, a room or an object finds at its offset are its own entries: the
\* server makes pointers of the offsets (lang_proc, trav_proc, objs_proc).
SlicesRight ==
  Clean =>
    /\ \A i \in DOMAIN g.tab["verbs"] :
         Owned(g.tab["syntax_lines"], g.tab["verbs"][i].slotOffset, g.tab["verbs"][i].ents, i - 1)
    /\ \A i \in DOMAIN g.tab["syntax_lines"] :
         Owned(g.tab["language_code"], g.tab["syntax_lines"][i].lineOffset,
               g.tab["syntax_lines"][i].ents, i - 1)
    /\ \A i \in DOMAIN g.tab["rooms"] :
         Owned(g.tab["travel"], g.tab["rooms"][i].ttOffset, g.tab["rooms"][i].ttlines, i - 1)
    /\ \A i \in DOMAIN g.tab["objects"] :
         Owned(g.tab["object_locations"], g.tab["objects"][i].roomsOffset,
               g.tab["objects"][i].nrooms, i - 1)

\* The states an object finds at its offset are its own (objs_proc, server.cpp:598).
StatesOwned ==
  Clean => \A i \in DOMAIN g.tab["objects"] :
             Owned(g.tab["object_states"], g.tab["objects"][i].stateOffset, g.tab["objects"][i].nstates, i - 1)

\* All compiled lines, and the operations with the kinds of their parameters.
Lines == ToSet(g.tab["language_code"] \o g.tab["travel"])
Operations(line) == {<<line.condition, conditions[line.condition.op]>>, <<line.action, actions[line.action.op]>>}

\* How many things of a kind there are.
Limit(kind) ==
  CASE kind = "room" -> MaxIndex("rooms") [] kind = "noun" -> MaxIndex("objects")
    [] kind \in {"verb", "daemon"} -> MaxIndex("verbs") [] kind = "text" -> MaxIndex("string_index")

\* The parameters of a compiled operation something was compiled into.  A condition with nothing
\* after it is taken for the action of its name, and none of its words is (Unset).
Given(op) == {i \in DOMAIN op.args : op.args[i] # Zero}

\* The rooms, nouns, verbs and texts that were compiled into arguments are there.  Nothing is said of
\* the other arguments: the server takes the zero left in them for the first room, noun, verb or
\* text, which is not what the line names, and in a game without any it is not there.
ArgumentsResolve ==
  \A line \in Lines : \A op \in Operations(line) : \A i \in Given(op[1]) :
    op[1].args[i][1] \in {"room", "noun", "verb", "daemon", "text"} =>
      op[1].args[i][2] \in (IF op[2][i] = "real" THEN -1 ELSE 0)..Limit(op[1].args[i][1])

\* A label in a line below a syntax line names a word that syntax line has, of the type
\* the parameter wants.  Nothing is said of labels in travel.txt: they are looked up in vbslot,
\* where the last syntax line of lang.txt still is, and may name a word no command for the travel
\* verb has.
LabelsFit ==
  \A line \in ToSet(g.tab["language_code"]) : \A op \in Operations(line) :
    /\ Len(op[1].args) = Len(op[2])
    /\ \A i \in DOMAIN op[2] :
         op[1].args[i][1] = "slot" =>
           op[2][i] \in {"real", g.tab["syntax_lines"][line.of + 1].wtype[op[1].args[i][2]]}

\* The indexes in the entries of the tables lead to entries.
EntriesResolve ==
  /\ \A room \in ToSet(g.tab["rooms"]) : room.dmove \in -1..MaxIndex("rooms")
  /\ \A entry \in ToSet(g.tab["travel"]) : entry.verb \in 0..MaxIndex("verbs")
  /\ \A npc \in ToSet(g.tab["npc_classes"]) :
       npc.dmove \in -1..MaxIndex("rooms") /\ ToSet(npc.texts) \subseteq -1..MaxIndex("string_index")
  /\ \A o \in ToSet(g.tab["objects"]) : o.npc \in -1..MaxIndex("npc_classes")
  /\ \A syn \in ToSet(g.tab["synonyms"]) :
       syn.aliases \in -2..MaxIndex(IF syn.type = "noun" THEN "objects" ELSE "verbs") \ {-1}

\* What starts inside something starts in an earlier object that can hold things: so the server
\* counts it inside a container, and nothing is inside itself.
StartsInContainers ==
  \A entry \in ToSet(g.tab["object_locations"]) :
    \/ entry.place \in 0..MaxIndex("rooms")
    \/ \E j \in 0..(entry.of - 1) : entry.place = Inside(j) /\ g.tab["objects"][j + 1].contains > 0

\* The server prints system message k as string k: so it is, if sysmsg.txt is in order.
MessagesInPlace ==
  (\A i, j \in 1..NSMSGS : i < j => g.labels[Sys(i)] < g.labels[Sys(j)]) =>
    \A k \in 0..NSMSGS : Sys(k) \in DOMAIN g.labels /\ g.labels[Sys(k)] = k

\* What the text files name is there in a complete game: an index in an entry, and an argument
\* that was compiled from a word, are in their table and lead to a thing of the right kind; a label
\* below a syntax line fits that line.  (Descriptions of states and the names of synonyms have a
\* -1 or -2 of their own.)  Two kinds of reference are not covered, and go wrong: the arguments
\* of an action nothing was compiled into, and labels in travel.txt (ArgumentsResolve, LabelsFit).
ReferencesResolve ==
  Clean => /\ ArgumentsResolve /\ LabelsFit /\ EntriesResolve
           /\ StartsInContainers /\ MessagesInPlace

\* A server that comes up has every table of the compilation, entry by entry: a file that was cut
\* short is refused; and a game that compiles is accepted, unless a verb was defined twice
\* (Game::Save, Game::Load).
ServerGetsWhole ==
  /\ server = "up" => /\ Len(gameFile.tables) = Len(Sections)
                      /\ \A i \in DOMAIN Sections : gameFile.tables[i].entries = g.tab[Sections[i]]
  /\ Clean /\ ~g.twice => Loads(gameFile)

\* The files that are written for a new game directory compile (CreateDefaultFiles).
DefaultsCompile == pc = "end" => outcome # "fatal" \/ g.errors = 0

\* Compilation always ends, and a run that finishes has closed all of its modules, the last one
\* first (compileGame, CloseModules).
CompileEnds == <>(pc = "end" /\ (outcome = "finished" => m.closed = Reverse(ModuleOrder)))
=============================================================================
