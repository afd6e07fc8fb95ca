# A verification project for AMUL

AMUL is a multi-user adventure engine: a compiler (`amulcom`) turns the text
files of a game into binary tables, and a server (`amul`) loads the tables and
lets players walk, talk and fight in the game. The server is one process with
several threads that talk through message ports and share the tables and the
players' state in memory. This directory models the parts of both whose
correctness depends on order, on interleaving or on what many small steps leave
behind for each other, checks the models with TLC and proves the central ones
with TLAPS.

All paths below are relative to the repository; most files are in `src/`.

## 1. Inventory

### Processes, threads and shared state

| Thread | Started by | Runs | Ends |
| --- | --- | --- | --- |
| main | the system | `main`: modules, `ConsoleMain`, `CloseModules` | returns from `main` |
| server | `serverModuleStart` | `serverMain`, `kernel` | when `m_runMode` is not `Normal` |
| demon worker (slot 14) | `clientModuleStart` | `startThread`, `demonMain` | when `m_runMode` is not `Normal` |
| npc worker (slot 15) | `clientModuleStart` | `startThread`, `npcMain` | when `m_runMode` is not `Normal` |
| player (slot 0) | the console's `play` | `startThread`, `playerMain`, `amul_main` | when the player leaves |

They share `g_game` (tables, avatars, characters, `m_runMode`), the registry of
ports, the list of messages of each port, `g_busy`, `bid`, `demons` and
`online`. Ports and the registry are guarded by spin locks. `CriticalSection`,
one global spin lock, guards a few of the writes to the game's state; most
reads and writes of that state have no lock.

### Components

| Component | State | Operations | What makes it correct |
| --- | --- | --- | --- |
| spin lock (`spinlock.*`) | a flag; the guard's `m_held` | `TryLock`, `Lock`, `Unlock`, `Acquire`, `Release` | one thread inside; no lost release; progress of the threads together |
| message ports (`msgports.*`) | registry by name and by address, `m_open`, `m_msgList` | `CreatePort`, `FindPort`, `Close`, `Put`, `Get`, `Wait`, `Clear`, `ReplyMsg` | the registry lists exactly the open ports; one open port per name; each message received once and in order or dropped with its port; closing releases waiters |
| server (`amul.server.cpp`) | `m_runMode`, slots, `g_busy`, `online`, demons, reset time | startup with ping and pong, `kernel`, `Dispatch` of each message, `resetTicker`, `demonTicker` | slots are handed out once, held while used and given back; requests are answered; shutdown ends |
| workers (`amul.client.cpp`) | `s_workers`, each thread's reply port | `StartClient`, `JoinClient`, `KillClients`, `startThread` | each waits for its own answer on a port that is open; joins return |
| console and main (`amul.console.cpp`, `amul.main.cpp`) | `s_consoleShutdown` | `play`, `quit`, `help`, `stats` | `quit` shuts down, `play` can be repeated |
| module registry (`modules.cpp`) | a doubly linked list | `NewModule`, `StartModules`, `CloseModules`, `Terminate` | started in order, closed in reverse, each once |
| score, rank, statistics (`amul.wholeoriginal.cpp`) | a character's score, rank, experience, task; an avatar's stamina, strength... | `aadd`, `asub`, `newrank`, `PromoteToTopRank`, `calcdext`, `damage`, `repair` | the rank is the one deserved; limits of the rank hold; values keep their ranges |
| movement, following, helping (`amul.wholeoriginal.cpp`, `amul.actions.cpp`) | `room`, `following`/`followed`, `helping`/`helped` | `MovePlayerTo`, `ActionGoToRoom`, `AHELP`, `CancelHelp`, `StopFollowing`, disconnection | the two ends of a pair agree; nobody is paired with an empty slot |
| objects, inventory, light (`amul.wholeoriginal.cpp`, `amul.members.cpp`) | an object's room list, state and flags; `wield`, `numObjects`, `light` | `add_obj`, `rem_obj`, `Owner`, `adestroy`, `arecover`, `lighting`, `lit` | an object has one owner; counts agree with it; who asks for light does not wait for himself |
| fights and spells (`amul.wholeoriginal.cpp`) | `fighting`, `PFFIGHT`, spell flags | `fight`, `finishfight`, `clearfight`, `inflict`, `cure`, `akillme` | both sides of a fight agree; a fight ends with its victim |
| interpreter and parser (`amul.wholeoriginal.cpp`, `amul.actions.cpp`, `parser.context.cpp`) | the thread's `iverb`, `vbptr`, `donet`, `ml`, `skip`, `inc`, `failed`, `exeunt` | `parser`, `lang_proc`, `ttproc`, `cond`, `executeAction`, `EndParse`, `AbortParse`, `FailParse` | a command ends; what ends a parse ends all of it; the lines executed are those of the verb |
| login (`users.cpp`) | the characters and their index | name, password and creation dialogue | a character is played by one slot |
| game compiler (`amulcom.*`, `filedefaults.cpp`) | tables, counters, labels, the last syntax line, the error count | one phase for each file of the game, `Save` | references resolve; offsets and counts say what is where; errors stop the build; the server gets all of a game or nothing |
| string table (`amulcom.strings.cpp`) | text, index by label | `AddTextString`, `RegisterTextString`, `TextStringFromFile` | each label leads to its own text |
| source reading (`sourcefile.cpp`, `buffer.h`, `amulcom.fileparser.cpp`, `amulcom.msgfile.cpp`) | a mapped file, the cursor, the terms of a line and their rewritten copies | `Open`, `GetLine`, `GetLineTerms`, `GetIDLine` and the two loops over blocks | no line lost, moved or read twice; the end is found; words stay what they are |
| logging, file system, strings, command line | little | wrappers around the C++ library | nothing to check that a test does not reach |

### How they interact

- Calls: the console calls `StartClient` and `JoinClient`; `CloseModules` calls
  `serverModuleClose`, which joins the server and calls `KillClients`.
- Messages: a worker puts `MsgConnectClient`, `MsgSetBusy` and
  `MsgDisconnectClient` on the manager port; the kernel dispatches them and
  replies to the worker's own port, which is found under the slot's number.
- Files: `amulcom` reads eleven text files, in one order, and writes one game
  file; `Game::Load` believes its counters and offsets and turns the offsets
  into pointers.
- Calls within a player's thread: the parser calls `lang_proc`, whose lines call
  `ttproc` (`travel`, `goto`), the parser's own functions, and `lang_proc` again
  (`start`); they return to each other through the thread's global variables.
- Shared state: `m_runMode` is the only signal from the console to the server
  and its workers and it is written by three threads. Avatars are written by
  the server (slots) and by every player's thread.

### What is hard

Interleavings of the ports' two-phase operations; the order of connections and
disconnections of the same slot; the last round of a kernel that is told to
stop; leftover ports and replies; joins that wait for each other; locks that
are not recursive below functions that call each other; score loops at the
limits of the ranks; handlers of the compiler that fail half-way, with offsets
taken before and errors counted after; loops of the interpreter whose variables
are changed by what they call. `PROJECT.json` lists each under `hazards` at its
line. Smaller ones without a property: `CancelHelp` removes a helper with a bit
mask of its slot where `AHELP` stores the slot's number (`amul.actions.cpp:53`);
a disconnection clears the leaver's `helping` and not the other's `helped`
(`amul.server.cpp:416`); the third change of state of one carried object writes
behind the avatars (`amul.wholeoriginal.cpp:1140`); a demotion takes statistics
below zero (`:1656`); at the end of standard input the console loops
(`amul.console.cpp:66`); `skipNoiseWords` moves its own copy of a pointer
(`parser.context.cpp:36`).

## 2. What is modelled now

| Module | Models | Checked by | Proved in |
| --- | --- | --- | --- |
| `Mutex` | what a lock promises | | `SpinLockProofs` (implemented) |
| `SpinLock` | `spinlock.h`, `spinlock.cpp` | run `spinlock` | `SpinLockProofs` |
| `Mailbox` | what ports promise | | `MsgPortProofs` (implemented) |
| `MsgPort` | `msgports.h`, `msgports.cpp` | run `msgport` | `MsgPortProofs` |
| `Session` | the life of the process: main, console, server, workers | `session`, `session_quit` | `SessionProofs` |
| `Ranks` | `aadd`, `asub`, `afix`, `newrank`, `PromoteToTopRank`, `ATASK`, `createCharacter` | `ranks`, `ranks_reached` | `RanksProofs` |
| `Objects` | who has which object, its state and light, and a player's moves | `objects`, `objects_move` | `ObjectsProofs` |
| `Opcodes` | the conditions, actions and labels of the game language (`constants.cpp`, `amul.acts.h`) | with `Compiler` | `CompilerProofs` |
| `Syntax` | a syntax line's five slots and what an argument refers to (`setslots`, `actualval`) | with `Compiler` | `CompilerProofs` |
| `Tables` | the handlers of texts, title, rooms, ranks, NPC classes and objects | with `Compiler` | `CompilerProofs` |
| `Language` | `lang_proc` of the compiler, `trav_proc`, `syn_proc` | with `Compiler` | `CompilerProofs` |
| `DefaultGame` | the files of `CreateDefaultFiles` | `MCCompilerDefaults.cfg` | |
| `Modules` | the registry of modules (`modules.cpp`) | with `Compiler` | `CompilerProofs` |
| `Compiler` | a run of `amulcom` from `main` to `exit`, and `Game::Load` on its file | `compiler` | `CompilerProofs` |
| `CompilerInvariants` | what holds of `Compiler` at every step and in every round of its loops | | `CompilerProofs` |
| `Reading` | `SourceFile`, `Buffer::ReadLine`, the loops of `FileParser` and of the message files | `reading` | `ReadingProofs` |
| `Interpreter` | a command from the prompt to its actions: `parser`, `lang_proc`, `ttproc` | `interpreter`, `interpreter_treatas` | `InterpreterProofs` |

`Compiler` EXTENDS `DefaultGame`, `Language`, `Tables`, `Syntax`, `Opcodes` and
`Modules`. Module `MCx` is the instance of `x` for TLC.

### SpinLock

One shared lock and one guard for each thread. `m_lock` is the atomic flag,
`m_held[t]` the guard's member, and `pc[t]` separates the exchange from the
later write of `m_held`: a thread is inside from its successful exchange, and
`m_held` becomes true one step later. `TryFails` keeps the two loops of
`Lock()` apart, the counted burst and the yielding one. The guard's destructor
is a `Release`. `ImplementsMutex` is the refinement: `holder` is the thread
that is inside. A thread has one guard here; that a thread spins on a lock it holds
through another guard is the subject of `Objects` (finding 3).

### MsgPort and Mailbox

Every lock is taken in one step, as the `Mutex` that `SpinLock` implements. A
guarded section that touches shared state once is one step that needs the lock
free; `CreatePort` (look up, construct, emplace), `Put` (look at `m_open`,
append) and `Get`/`Wait` (swap the front out, pop it) hold the lock over two
steps, so other threads run in between and only the lock protects them. `Close`
is two sections under two locks. `Wait` looks at `m_open` outside any lock.
A moved-from front is the value `NoMsg`, as `std::swap` leaves it. `hand[t]` is
the `unique_ptr` the caller got, `arg[t]` the one it is passing.

`Mailbox` has the same operations as indivisible steps. `ImplementsMailbox`
says the locked implementation takes effect as those steps: a port counts as
unmade until `CreatePort` has put it in its table, and a moved-from front has
already left the list.

### Session

Each thread has a program counter (`mpc`, `spc`, `wpc[w]`) whose values are the
places in the code listed in the module's header. Ports are the mailboxes of
`Mailbox`: a call on a port is one step. A port object is named by the session
it was created for, because a later worker of the same slot may be given an
earlier one's port by `CreatePort`, and that is what several properties are
about. `runMode` is `g_game.m_runMode` with its plain stores. A reset ends in
`LogFatal`, which calls `exit` on the server thread (`KernelResets`). Only messages
that live code sends are there: `MsgPingServer`, `MsgConnectClient`,
`MsgDisconnectClient`, `MsgSetBusy`. `MsgLockUser`, `MsgLoggedIn`, `MsgLog` and
all messages to players have handlers and no sender; `Demon::Start` has no
caller, so the kernel's demon list is always empty.

The clock is abstract: a reset may fall due in any round of the kernel once
startup is over (a game lasts 15 minutes or more, startup gives up after 10
seconds), and a 20 ms poll of the startup is a step. The field `session` of a message is not in
the code; it lets a property say whose message it is.

### Ranks

The character and avatar of one slot, which only the slot's own thread changes.
The rank table is a constant: `scoreOf`, `taskOf` (0 for none), `experienceOf`
and `statOf`; `tasks` is the set of the bits of `Character::tasks`. `newrank` is
an operator used by both callers. `aadd`'s loop stops at the first rank it
finds, so `Settle` is one step that names that rank. `asub`'s loop goes on after
`newrank`; it is one step (`LossLoop`) for each rank it does not skip, with the
loop's variable in `loop`, so that a property can speak of what happens inside
one call. The document's limits are not assumed: neither that scores ascend nor
that rank 0 asks for no task.

### Objects

Objects with one location, which is a room, nowhere, or the mark `add_obj`
leaves. The avatars are those of slot 0, where the one live player is, and of
slot 10, because `Owner` names slot 10 for what slot 0 has taken. `add_obj`,
`rem_obj` and `lighting` are operators on the avatars that every action calls
where the code does. Each verb's action is one step of the player's thread,
which is the only one that changes objects; the exceptions hold the critical
section: `ActionGoToRoom` is `SetOff` and `Arrive`, with the question `isVisible`
asks in between, and `adestroy` may stop half-way, waiting for the section it
holds itself. `critical` stays true then, and the thread does nothing more.

What C++ leaves open is open here: `m_rooms[-1]` and `m_avatars[-1]` hold
anything. A write behind the last avatar (`RunsWild`) ends what the model says.
Both avatars' characters have the same rank: the model does not promote.

No action asks what a line before it has found: `Get` is all of `agive` for the
player himself, wherever the object is, and `Drop` and `Recover` take any object, as
`adrop` and `arecover` do. `CHECKGET` and `CARRYING` are lines of their own, which
a verb may have or not; what `CHECKGET` does to the parse is in `Interpreter`.

`HandsBooked` is stated for the two avatars together, because with `Owner` as it
is no single avatar's books agree with what it has. It says that they still
move in step with the objects, through every step but those it names: `adrop` of
what nobody holds (`DropsUnheld`) takes off the books what was not on them, and
`arecover` of what somebody holds (`RecoversHeld`) leaves it on them. Light has two
exceptions more: `arecover` books it for what it puts on the floor
(`RecoversLoose`), and a flag belongs to a state's number, so one object lights all
others in that state. What is in their hands is a sum over the owned objects
(`Owned`, with the library's `SumFunctionOnSet`), which is why the objects are
assumed to be finitely many.

### The compiler: Compiler, Tables, Language, Syntax, Opcodes, Modules, DefaultGame

`Compiler` is the state machine. It registers the modules, starts them, goes
through the eleven phases, saves table by table and closes the modules; any
`LogFatal` ends it on the spot, as `LogFinish` calls `exit`. The contents of a
file are chosen when its phase opens it, from a constant that gives a few files
for each phase; writing may fail at any table. `Loads` is the server's
`Game::Load` on the file that is left.

A block of a file is compiled in one step. The handlers are operators from the
game compiled so far, a record, to the game after the block: `Tables` has those
that describe things, `Language` those of the game language, `Syntax` what they
share. A handler that returns early with its table half filled does so here: the
entries stay, the counter does or does not, `skip` says that the next block
will be eaten. `actualval` looks labels up in `vbslot`, which is part of the
record because it stays from one phase to the next. The tables are sequences in
the order of `Save`; each entry has a field `of`, which is not in the code and
says whose it is, so that `SlicesRight` can compare it with offset and count.

Words are names and texts are the labels they have or what was written in
quotes. Whether a number is well formed is a choice of the file, and values that
nothing else depends on are left out, as are the bytes of the texts, which
`Save` writes as one more section.

`Modules` keeps the links of the list both ways, and the order in which the
close handlers ran.

### Reading

The cursor is the number of the line it is in front of. A line is known by its
kind: empty, without words (a comment), with words, continued by a `+`, or with
a first word that is no id. One step of `ReadTerms` is one round of the loop of
`GetLineTerms`, that is one line. `alterations`, the vector of rewritten words,
has its capacity as a variable (it doubles, as in the GNU and LLVM libraries):
when it grows while a line is read, the short words it holds move and the views
of them become `"garbage"`. No bound is put on it: `Doubled[n]` is the least
power of two that holds `n` words. `FilesAssumption` says what a file is: lines
of words, of which an empty line has none.

### Interpreter

One thread, the player's or the demon's at its boot. `stack` holds the calls of
`lang_proc` and `ttproc` under way; `t` the thread's global variables, which
they share and which no call saves unless the code does. Which syntax of a verb
fits and whether a condition is true are open, so every path of the loops is
there. Actions that only touch the world are `reply`. A move (`ActionGoToRoom`,
`MovePlayerTo`) may be refused by a small room, or kill on arrival, which ends
the parse; a `check` stands for `CHECKNEAR` and `CHECKGET`, which end it unless all
is well. A thread begins as `startThread` leaves it, after `AbortParse`: at the boot
`iverb` is -1. `stray` and `crash` are
what follows a look through a `vbptr` that is stale, or null. `acts` and `ended`
are not in the code: they record that an action was executed and that the parse
of a call was ended.

`WellFormed` is what the compiler lets a game be, and `GamesAssumption` asks it
of every game: the names a line uses are there, and no syntax or travel table is
longer than `MaxLines`, no `skip` longer than `MaxSkip`. `MaxDepth` bounds the
calls that nest; the code has no bound, and a game that starts verbs in a circle
overflows the thread's stack. A frame of `ttproc` keeps `base`, the depth of the
`lang_proc` it works for, since an action executed from a travel table ends that
one. A verb started from a travel table leaves the table its own `donet` and
`ml`; when that is past the table's end, `Overrun` is the read behind it.

## 3. Runs

| Run | Bounds | Shows |
| --- | --- | --- |
| `spinlock` | 3 threads, burst of 2 | mutual exclusion, exact flag, refinement of `Mutex`, progress |
| `msgport` | 2 threads, 2 ports, 1 name and the empty one, 2 messages | exact registry, one open port per name, no moved-from message, one owner per message, refinement of `Mailbox`, `Close` releases the threads in `Wait` |
| `session` | 2 plays, 2 polls at startup, rounds of 2 messages | slots and ports are handled right through every order of events; connections are answered, `quit` ends |
| `session_quit` | no play | violation: `quit` can hang |
| `ranks` | 5 ranks, 2 of them with a task, amounts 1 and 3, scores to 6, statistics to 2 | no rank without its task, gains settle the rank, losses make no wizard and leave a deserved rank alone |
| `ranks_reached` | the same | violation: a demotion is followed by promotions |
| `objects` | 2 objects, one of 2 states and weights; a lit small room and a dark one; 1 login; before a step counts are from -1 to 1, the books right (`MaxWrong` = 0), 1 object at most marked as destroyed | books follow the objects but for the steps `HandsBooked` names, nothing is lost |
| `objects_move` | the same | violation: leaving a dark room never ends |
| `compiler` | 2 to 5 files a phase, of 1 or 2 blocks, right and wrong; 1 error stops a phase; 2 system messages; any write may fail | only a clean source becomes a game; offsets, counts and references are right but for the two kinds `ReferencesResolve` names; a server gets all of a game or nothing; compilation ends with its modules closed |
| `reading` | all files of up to 4 lines of 7 kinds, with and without a last newline; 1 error stops | paragraphs become blocks, whole and in order; words are lost only as described; reading ends |
| `interpreter` | 4 games of 2 to 6 verbs with up to 3 syntaxes of up to 4 lines, 3 rooms; skips of up to 2 lines; calls nest 5 deep | what ends a parse ends all of it; a command ends |
| `interpreter_treatas` | one of these games | violation: `treatas` never ends |

Further configurations, each for a disagreement described under Findings:
`MCSessionPlay.cfg`, `MCObjectsOwner.cfg`, `MCCompilerStates.cfg`,
`MCCompilerDefaults.cfg` and `MCInterpreterSpecial.cfg`. TLC finds a violation
with each of them.

Why the bounds are enough. Three threads are a holder and two contenders; two
are enough for the ports, whose locks are single steps and whose hazard is
always one thread between two steps of another. A burst of two tries enters,
repeats and leaves the counted loop. Two ports with one name give a successor under the name of a closed port, and two messages
give an order to keep. Ports and messages are never reused, so two of them also
bound how often each is constructed. Two plays give a session that follows
another in its slot, which is where slots, ports and replies can be mixed up; a
third meets the same state as the second. Rounds of two messages split a
session's messages over rounds, as ten do. Five ranks are the fewest in which a
loss passes two ranks and the loop climbs again below the top one; amounts of 1
and 3 reach a rank exactly, pass it, and skip one.

The files of `compiler` hold what makes one phase depend on another: a room
defined twice or missing, a container before and after what it holds, labels
that fit the first, the second or no word, a verb of `travel=` defined again,
synonyms of a noun, of a verb and of nothing. With one error as the limit a
phase stops at its first error or reports it at its end; 30 errors add only
more of the same. Four lines give `reading` a block, its body, a blank line and
another block, or a word with capitals after a line with more and fewer of them.
`Objects` asks its bounds of the state before a step. With `MaxWrong` = 0 every
step from right books is taken and checked, the ones that put them wrong too,
but none after those: what a step books does not depend on the totals, only
whether a light is seen to does. The theorem `BooksFollowObjects` has no such
limit, for `MaxCount` and `MaxWrong` are any numbers there.
Five nested calls are a verb, its travel table, a started verb, and its own.

Deadlock checking is off in the Session runs: the process stops when it ends,
and it really hangs in the case `session_quit` shows. It is off in the Objects
runs too, where a thread that waits for its own lock is the end, or a state
beyond the bounds, and in the
Interpreter runs, where the player leaves, the demon thread has booted or the
program crashes. In the other runs it is on; `Compiler` and `Reading` stutter
once they are done (`Done`). No run uses symmetry: where
the constants are interchangeable there are liveness properties to check.

### Fairness

- `SpinLock`: a thread inside the lock's code keeps running and a holder
  releases. No fairness between contenders: `SomebodyGetsIn` speaks of them
  together, a single one may starve.
- `MsgPort`: a thread inside a call keeps running (weak fairness of its next
  step). Nothing makes a thread call anything, and a thread at a lock that
  others keep taking may never get it: weak fairness demands a step only
  while it stays enabled.
- `Session`: main, the server and each worker keep running. Typing a command
  and a player's leaving are not fair: a console may stay silent and a player
  may stay for ever.
- `Objects` (`LiveSpec`): a player who has set off goes on to arrive.
- `Compiler` (`KeepsRunning`), `Reading` and `Interpreter`: the one thread keeps
  running, which is all they need, as each is a sequential program. In
  `Interpreter` typing the next command is not fair.

### Findings

1. `session_quit`. The kernel leaves its loop as soon as `m_runMode` changes. A
   worker whose connection was not served yet waits on its reply port for ever,
   and `KillClients` joins it. `quit` does not shut the server down. The comment
   at `amul.server.cpp:797` suspects as much; `QuitEnds` shows that an
   unanswered worker is the only way it happens. `ConsoleMain` sleeps a second
   before its first prompt, so the kernel must have fallen behind by that much.
2. `ranks_reached`. `asub`'s loop over the ranks lacks the `break` that `aadd`'s
   has after `newrank`: a player who loses enough points to fall is then made
   every rank above the right one in turn, up to the one below the top.
3. `objects_move`. `ActionGoToRoom` asks `isVisible` while it holds the critical
   section; in a dark room `lit` takes it again and the thread spins for ever.
   The same lock stops every later `lit` in a dark room, and `quit` with it, as
   the worker never ends.
4. `interpreter_treatas`. `treatas` sets `donet` back to the start of the lines,
   and what would switch to the other verb is compiled out
   (`amul.actions.cpp:319`): the verb's own lines run again, for ever. The
   shipped game has such verbs (`precious/lang.txt:659`, `glow`).

With a configuration of their own:

5. `MCSessionPlay`. `JoinClient` joins all workers that ever had slot 0
   (`amul.client.cpp:194`). The second `play` joins the first thread again,
   `std::thread::join` throws and the server aborts.
6. `MCObjectsOwner`. `Owner` subtracts the offset that `add_obj` added
   (`amul.members.cpp:23`): what slot 0 takes is owned by slot 10, and after a
   change of its state by slot 20, which does not exist. `CARRYING` is never
   true.
7. `MCCompilerStates`. `objs_proc` never sets `stateOffset`
   (`amulcom.main.cpp:1632`): every object finds its states at offset 0, those of
   the first object, where `Objects.Doc.txt:41` gives each object states of its
   own.
8. `MCCompilerDefaults`. The `objects.txt` that is written for a new game
   (`filedefaults.cpp:181`; `README.md:156` has the same form) does not compile:
   `parseObjectStateAttribute` (`amulcom.main.cpp:1334`) never takes the prefix
   off its values.
9. `MCInterpreterSpecial`. The verbs for speech, travel and boot run with the
   `vbptr` of whatever verb was typed last, or none (`amul.wholeoriginal.cpp:3248`;
   `Special.Doc.txt:51`).

Where the models follow the code without a property of their own:

- Server: `LogFatal` on the server thread, which is how a reset ends, calls
  `exit` under the other threads and closes no module.
- Ranks: `newrank` adds the difference in experience twice
  (`amul.wholeoriginal.cpp:1663`, `1676`); `PromoteToTopRank` does not promote a
  player who has the top rank's score already.
- Objects: `adrop` takes what is not held off the player's books, so that the
  count of his objects falls below zero and his light, if the object burns, to
  65535 (`amul.wholeoriginal.cpp:606`, `2558`); `arecover` leaves what it takes from a
  hand on the books (`:1555`); `arecover` counts the light of an object it puts on the floor; as
  `dropall` is compiled out, what a dead player carried stays in the hands of an
  empty slot.
- Compiler: a condition without an action becomes the action of the same name
  with no arguments (`amulcom.main.cpp:2365`; `state gates 2`,
  `precious/lang.txt:105`). A verb of `travel=` that is defined again is counted
  twice (`:2016`, `:2409`), and the server refuses the game. The flag
  `travel` of a verb means the contrary of what `AMULDoc.txt:434` says
  (`:1966`). `adj` on a syntax line is always
  refused (`:2240`). A label behind a modifier is not checked (`:680`). Labels in
  `travel.txt` are looked up in the last syntax line of `lang.txt` (`:816`). A
  `lang.txt` that ends right after `verb=`, and a missing number, crash the
  compiler. `travel.txt` drops `not`. A failed compilation leaves its partial
  game file, as `LogFatal` exits before the file is removed (`:2821`). In quiet
  mode errors are not counted, and a source with errors becomes a game. A
  synonym line without aliases is not reported (`:2439`).
- Messages: system message k is printed as string k, so a `sysmsg.txt` in
  another order compiles and prints other texts.
- Reading: a last line without a newline is read for ever unless it is refused
  often enough (`buffer.h:54`); short words with capitals dangle when a line has
  more of them than any before it (`sourcefile.cpp:113`); a capital as the only
  one and first letter of a word is not lowered; `*bcur + 1` never finds an
  escaped quote (`sourcefile.cpp:103`).
- Interpreter: a `skip` that is not used up goes on in the next command; after a
  `goto` the remaining lines of the travel table run as well; `start` overwrites
  `donet` and `ml` of the line that starts it, and when that line is in a travel
  table `ttproc` goes on by them, past the end of a shorter table
  (`amul.wholeoriginal.cpp:3137`); `->`, `&>` and `else>` do not end
  the parse (`Func.Doc.txt:152`), as `tt.condition` is never set.
- Login (`users.cpp:344`), read but not modelled: a right password does not copy
  the stored character into the slot, and a refused creation leaves its name
  there.

## 4. Proofs

`SpinLockProofs` (any number of threads and tries). The inductive invariant adds
to `TypeOK` what each program counter says of `m_held`, and that the flag is set
iff some thread is inside, and at most one is. `TypeCorrect`,
`AtMostOneInside` and `FlagIsExact` follow from it,
and `SpinLockIsAMutex` maps each step to a `Lock`, an `Unlock` or a stutter.

`MsgPortProofs` (any threads, ports, names, messages). The invariant is built in
layers, each shown inductive from the ones below: `TypeOK`; `Locks` ties the
holder of each lock to a thread at a point where the code holds it; `Registry`
says where each made port is listed, and under which name, at each point of
`CreatePort` and `Close`; `Lists` says a moved-from front exists only while its
port's lock is held by the thread about to pop it. `RegistryIsExact`,
`NamesAreUnique` and `ReceivedIsAMessage` follow. `Registry` needs its form
because `RegistryExact` alone is not inductive: nothing in it keeps the port of
one `CreatePort` out of another's table entry.

`RanksProofs` (any rank table, amounts and tasks). `TypeOK` and `TaskNeeded` are
inductive together. The loops stop at the greatest and the least member of a set
of ranks, which exist because `<` is well founded on the naturals (`MaxOfRanks`,
`MinOfRanks`); `NewrankKeeps` and `SettleKeeps` say what one promotion does;
`Step` says of every action that it keeps the invariant, settles a rising score
and makes no wizard otherwise. All five properties of the run `ranks` follow,
none of them from the order of the scores in the table.

The second part of `MsgPortProofs` adds two layers to the invariant. `Owned`: a
message is in one caller's hand, or one argument, or at one place of one list,
and nothing is there that was not constructed; it is wider than `SoleOwner`,
because a message that moves leaves a `NoMsg` behind, and a list may hold one
while its port is locked. `MessagesHaveOneOwner` counts it. `Sections` says what
holds between the two steps of a guarded section: the port a message is appended
to is still open, who waits has nothing in hand yet, what is popped was moved
from. `PortsImplementMailbox` then shows for each step that it is one operation
of the mailboxes or none: `CreatePort` takes effect when it writes its table
entry, `Get` and `Wait` when they swap the front out, `Put` when it appends.

`SessionProofs` (any number of plays, any startup timeout, any batch). The
argument is the order of the manager port. `Crew` says which sessions have been
started and how far each is: one player at a time, because the console joins
before it reads on. `Berths`: whose port is under which name, and open. `Post`:
the manager's list holds what the sessions have sent, each message once, a
session's disconnection last; the answers are on the ports of those who asked.
`Slates` is the core: of the messages about a slot the disconnections come
before the next connection, so a connection is served when the slot is free, and
who is connected has the slot's state. `Tally` bounds how far the number of
players can have been taken down. `NeverRefused`, `RunningSlotInUse`,
`OwnReplyOnly` and `SlotReleased` follow. None of the four is inductive, not even
together: they say nothing of messages that are on their way.

`ObjectsProofs` (any finite set of objects, any states, weights, rooms and
rank). `NothingIsLost` needs two facts more than the types: who plays is in a
room, and a thread that waits for the section it holds is on its way nowhere.
`StuckForEver` states the consequence of finding 3: from then on no object and
no avatar's visit changes. `BooksFollowObjects` proves `HandsBooked`. A sum over
a set is a recursive function on its subsets; that the recursion has exactly one
solution, and that the order does not matter (`SumTakes`), is proved first, by
induction on the size of the set, and gives `SumMoves`: when one object changes,
the sum changes by what this one counts. `Shift` says the same of the books of
the two avatars, for each of `add_obj`, `rem_obj`, `lighting` and the walk of
`ActionGoToRoom`, modulo 2^16 for the light, and the verbs are compositions of
these. The steps the property excepts (`DropsUnheld`, `RecoversHeld` and, for light,
`RecoversLoose`) are excepted in the theorem too: for them the books and the
objects part. No bound of the model is used.

`InterpreterProofs` (any games the compiler can make, any bounds). `Shape` says
what each call rests on, `At` whose turn it is, and `Bounds` that `donet` exceeds
the lines by one for each verb that was started. `Ended` makes `EndsStick`
inductive: once the parse is ended, every call above the `lang_proc` it ends is
on its way out (`Stops`), and that one will not look for a travel table.

`ReadingProofs` (any files, any limit of errors). `Place` and `Held` keep the
reader inside the file and the words inside the vector. `ParagraphsAreBlocks`
rests on `Blocks`, which says that the blocks so far are those of the lines so
far and the last one is part of its paragraph while it is being filled, and on
`Read`, which ties each point of the two loops to where in a paragraph the
cursor is. Both are about `Proper` files, as the property is. `Doubled` is a
recursive function; that it exists and does not shrink is proved with it.

`CompilerProofs` (any text files, any number of system messages, any limit of
errors). The compiler is a program of loops: over the words of a line, the lines
of a block, the blocks of a file. Each is a fold over a list, and `Rounds` says
what that means, once for each loop: a sequence of games that starts with the
one before and of which each is the one before it after one more turn. What a
turn keeps the loop keeps (`RoundsKeep`). Of a turn there are two things to say.
It `Evolves` the game: only the tables it is about change, and an error, once
counted, stays. And the game after it is `Sound`: something has failed, or each
table is as long as its counter says, the entries of each verb, syntax line, room and
object are those at its offset (`VerbsOwn`, `SyntaxOwn`, `RoomsOwn`,
`ObjectsOwn`) and no entry belongs to an owner that is not there. Soundness
holds of the games between two turns only if it says which owner is still being
written: `RoomBegins`, `TravelLineReads` and their like carry that. `RunInv` says of the run at
every step that its game is sound, that a phase that has ended left no error
behind, and that what is on disk is what the game says. `CleanSources`,
`SlicesAreOwn` and `ServersGetWhole` follow; the default files are files the
phases can read, by inspection (`DefaultsAreFiles`). For `CompilerTypes` the run
needs its place in the registry: `Linked` says which modules the list holds after
k were registered, in both directions, and `Orderly` that the first k of
`ModuleOrder` are in it at each point, up while they register and down while
they close. The invariants are in `CompilerInvariants`, apart from their proofs.

`ReferencesAreRight` (`ReferencesResolve`: every index in an entry of a clean game,
and every argument compiled from a word, leads to a thing of the right kind, and a
label below a syntax line fits it) says nothing of two kinds of reference, which do
go wrong: the arguments of a condition taken for an action, in which nothing was
compiled and the server finds number 0 (`Given`), and labels in `travel.txt`,
looked up in the last syntax line of `lang.txt` (`LabelsFit`). It needs a second invariant, `Referring`, inductive with
`RunInv`. Its first part, `Refs`, is of the game alone: each label and each room
name leads into its table, each entry is right for its table (`EntryRight`), each
argument of a compiled line that was compiled from a word for the kind of its
parameter (`ArgRight`, `ArgFits`).
Entries are right forever because the game only `Grows`: tables get longer,
labels stay, objects stay as they are; what is edited afterwards (`dmove`, the
travel table of a room, the first syntax line of a verb) is shown to stay right
(`EditedExtends`, `RoomsEdited`). Two things make it harder than that. The lines
below a syntax line are compiled before that line is in its table, so the types
of its words are those of `vbslot` until then (`Types`), and `Calm` says that no
line waits between two blocks; and a run that is over (`LogFatal`) stops in the
middle, so all of this is claimed of a game that is `"alive"`. `Reached` is
what holds of each loop after a number of rounds, such as that the first `count`
parameters of an operation have arguments that fit (`ParametersReach`).
`MessagesInPlace` is a matter of counting (`MessagesPlaced`): after `sysmsg.txt`
there are as many strings as labels, all labels are `$0` to `$NSMSGS`, none is
missing, and labels in order leave each of them one place only (`Blank`,
`Messages` and `InPlace` are the three stages).

Assumptions. The null values of the ports' model are not threads, ports,
messages or names; a burst has a try. `WorldAssumption`: finitely many objects,
each with a state, tables of the right shape. `GamesAssumption` and
`FilesAssumption`, as above. `SourcesAssumption`: what the readers of a file
make of it are lists of blocks, and the parts of a block lists again;
`LimitsAssumption`: the numbers of system messages and players are numbers.
`LabelsAssumption`: `$0`, the label of the title, is none of `$1` to `$NSMSGS`,
which is so of decimal numerals but cannot be proved here, as `ToString` is TLC's.
Bounds of a model (`MaxPlays`, `MaxCount`, `MaxWrong`...) are any numbers. TLC
evaluates each assumption on every run of its module.

The provers cannot instantiate the library's induction rules, which take an
operator. Where induction over the naturals is needed, the set of the
counterexamples has a least element (`LeastNumber`, from the well-founded order
of the naturals), and that is first-order.

Only model-checked: all liveness (`SomebodyGetsIn`, `CloseReleasesWaiters`,
`ConnectAnswered`, `QuitEnds`, `CommandEnds`, `ReadingEnds`, `CompileEnds`), which
the prover does not reach. Every other property of a passing run is a theorem.

## 5. Plan

1. `Objects`, second part: containers (`putin`) and the abstract map from objects
   to owners that a repaired `Owner` would implement; strength and the rank.
2. `Login`: name, password and the creation of a character, and what is left of
   the earlier one in the slot.
3. `Helping`, once more than one slot can be played.

## 6. Not modelled, and why

Formatting of text, terminal input, log levels and the file system calls:
wrappers without an order to get wrong. Login: a sequential dialogue in one
slot. Spells: flags of one player and a random outcome. How the parser finds the
nouns of a command, `WhatIs` and the synonyms: a choice in `Interpreter`.
`scanner.cpp` and
`scanner2.cpp`: in no build target; `tokenstream.cpp` and `atom.cpp` are built
and nothing calls them. Code under `#ifdef MESSAGE_CODE`,
`PARSER_CODE` (fights, following, wielding, demons from the game language),
`OLD_METHOD` and `REPAIR`: compiled out. What `exit` does to threads that still
run: the C++ runtime's. The memory model below the locks: the exchanges are
taken as sequentially consistent.
