------------------------------ MODULE Session ------------------------------
(***************************************************************************)
(* The life of the AMUL process (amul.server.cpp, amul.client.cpp,         *)
(* amul.console.cpp): the main thread starts the server thread and waits   *)
(* for its pong, starts the demon and npc workers, then obeys the console; *)
(* a worker connects to the server, runs, and a player disconnects.  Only  *)
(* the messages some live code sends are modelled.  A port is the mailbox  *)
(* of Mailbox.tla: each call on it is one step.                            *)
(*                                                                         *)
(* A session is a WorkerInstance, numbered by its place in s_workers:      *)
(* session 1 is the demon processor, 2 the npc processor, the others are   *)
(* the players "play" started, all of them in slot 0.  A worker's port is  *)
(* named by its slot; a port object is known here by the session it was    *)
(* made for.                                                               *)
(*                                                                         *)
(* Every thread's program counter is the place it has reached:             *)
(*   mpc  "load" "find" "ping" "pong" "demon" "npc" "console" "join"       *)
(*        "terminate" "close" "kill"                                       *)
(*   spc  "unborn" "init" "loop" "tick" "serve" "reply" "done"             *)
(*   wpc  "unborn" "start" "wait" "enter" "run" "down" "done"              *)
(***************************************************************************)
EXTENDS Integers, Sequences

CONSTANTS MaxPlays,   \* how often "play" may be typed
          StartTicks, \* polls before startup times out (500 in the code)
          Batch       \* messages the kernel serves per round (10 in the code)

ASSUME BoundsAssumption == /\ MaxPlays \in Nat
                           /\ StartTicks \in Nat \ {0}
                           /\ Batch \in Nat \ {0}

PlayerSlot == 0
DEMON_SLOT == 14
NPC_SLOT   == 15
Slots      == {PlayerSlot, DEMON_SLOT, NPC_SLOT}

None     == -1  \* a refused or disconnected m_sender; no port
PingPort == 0   \* the anonymous port the pong comes back on

Sessions == 1 .. MaxPlays + 2

VARIABLES
  process,    \* "running", "ended", "failed" (LogFatal) or "aborted"
  runMode,    \* g_game.m_runMode
  mpc, ticks,
  s_workers,  \* the slots of the workers started so far
  joined,     \* the sessions whose thread has been joined
  spc,
  budget,     \* messages left to serve in this round
  amsg,       \* the message the kernel holds
  state,      \* Avatar::state, by slot
  g_busy,
  online,
  managerUp,  \* the manager port is registered
  manager,    \* the messages on the manager port
  portTable,  \* the port registered under the name of each slot
  isOpen,     \* by port
  msgList,    \* by port
  wpc,
  port        \* t_replyPort of each worker

system  == <<process, runMode>>
main    == <<mpc, ticks, s_workers, joined>>
server  == <<spc, budget, amsg>>
world   == <<state, g_busy, online>>
mail    == <<managerUp, manager, portTable, isOpen, msgList>>
workers == <<wpc, port>>
vars    == <<system, main, server, world, mail, workers>>

Ports == {PingPort} \cup Sessions

Message == [type    : {"ping", "connect", "disconnect", "busy"},
            sender  : Slots \cup {None},  \* m_sender
            param   : BOOLEAN,            \* m_param of MsgSetBusy
            reply   : Ports \cup {None},  \* m_replyPort
            session : Sessions \cup {None}]  \* who sent it: not in the code

NoMessage == [type |-> "ping", sender |-> None, param |-> FALSE,
              reply |-> None, session |-> None]

Init == /\ process = "running" /\ runMode = "Normal"
        /\ mpc = "load" /\ ticks = StartTicks /\ s_workers = <<>> /\ joined = {}
        /\ spc = "unborn" /\ budget = 0 /\ amsg = NoMessage
        /\ state = [s \in Slots |-> "OFFLINE"]
        /\ g_busy = [s \in Slots |-> FALSE] /\ online = 0
        /\ managerUp = FALSE /\ manager = <<>>
        /\ portTable = [s \in Slots |-> None]
        /\ isOpen = [p \in Ports |-> FALSE]
        /\ msgList = [p \in Ports |-> <<>>]
        /\ wpc = [w \in Sessions |-> "unborn"]
        /\ port = [w \in Sessions |-> None]

Goto(from, to)      == mpc = from /\ mpc' = to
Serve(from, to)     == spc = from /\ spc' = to
Work(w, from, to)   == wpc[w] = from /\ wpc' = [wpc EXCEPT ![w] = to]

\* What a worker's messages have in common.
From(w, type, reply) == [NoMessage EXCEPT !.type = type, !.reply = reply,
                                          !.sender = s_workers[w], !.session = w]

-----------------------------------------------------------------------------
(***************************************************************************)
(* serverModuleStart and clientModuleStart.                                *)
(***************************************************************************)
LoadFails == /\ mpc = "load"
             /\ process' = "failed"
             /\ UNCHANGED <<runMode, main, server, world, mail, workers>>

LoadGame == /\ Goto("load", "find")
            /\ Serve("unborn", "init")
            /\ UNCHANGED <<system, ticks, s_workers, joined, budget, amsg,
                           world, mail, workers>>

isServerRunning == spc # "done"

FindManager == /\ Goto("find", "ping")
               /\ ticks > 0 /\ isServerRunning /\ managerUp
               /\ UNCHANGED <<system, ticks, s_workers, joined, server, world,
                              mail, workers>>

\* Nothing yet: sleep 20 ms.
StartTick == /\ ticks > 0 /\ isServerRunning
             /\ \/ mpc = "find" /\ ~managerUp
                \/ mpc = "pong" /\ msgList[PingPort] = <<>>
             /\ ticks' = ticks - 1
             /\ UNCHANGED <<system, mpc, s_workers, joined, server, world, mail,
                            workers>>

PingServer == /\ Goto("ping", "pong")
              /\ isOpen' = [isOpen EXCEPT ![PingPort] = TRUE]
              /\ manager' = Append(manager, [NoMessage EXCEPT !.reply = PingPort])
              /\ UNCHANGED <<system, ticks, s_workers, joined, server, world,
                             managerUp, portTable, msgList, workers>>

Pong == /\ Goto("pong", "demon")
        /\ ticks > 0 /\ isServerRunning
        /\ msgList[PingPort] # <<>>
        /\ msgList' = [msgList EXCEPT ![PingPort] = Tail(@)]
        /\ isOpen' = [isOpen EXCEPT ![PingPort] = FALSE]
        /\ UNCHANGED <<system, ticks, s_workers, joined, server, world,
                       managerUp, manager, portTable, workers>>

\* EINVAL or ENOENT: StartModules calls Terminate, which closes the modules.
StartFails == /\ mpc \in {"find", "pong"}
              /\ ticks = 0 \/ ~isServerRunning
              /\ mpc' = "close"
              /\ isOpen' = [isOpen EXCEPT ![PingPort] = FALSE]
              /\ UNCHANGED <<system, ticks, s_workers, joined, server, world,
                             managerUp, manager, portTable, msgList, workers>>

(***************************************************************************)
(* StartClient: CreatePort gives the port that has the slot's name, or a   *)
(* new one; the worker starts with it.                                     *)
(***************************************************************************)
StartClient(slot) ==
    LET w == Len(s_workers) + 1
        p == IF portTable[slot] = None THEN w ELSE portTable[slot]
    IN  /\ s_workers' = Append(s_workers, slot)
        /\ portTable' = [portTable EXCEPT ![slot] = p]
        /\ isOpen' = IF p = w THEN [isOpen EXCEPT ![p] = TRUE] ELSE isOpen
        /\ port' = [port EXCEPT ![w] = p]
        /\ Work(w, "unborn", "start")
        /\ UNCHANGED <<system, ticks, joined, server, world, managerUp, manager,
                       msgList>>

StartDemon == Goto("demon", "npc") /\ StartClient(DEMON_SLOT)

StartNpc == Goto("npc", "console") /\ StartClient(NPC_SLOT)

-----------------------------------------------------------------------------
(***************************************************************************)
(* ConsoleMain, and what main does after it.  The other commands, and a    *)
(* line that is no command, change nothing.                                *)
(***************************************************************************)
ConsolePlay == /\ Goto("console", "join")
               /\ runMode # "Terminate"
               /\ Len(s_workers) < MaxPlays + 2
               /\ StartClient(PlayerSlot)

Players == {w \in Sessions : w <= Len(s_workers) /\ s_workers[w] = PlayerSlot}

\* JoinClient joins every worker of the slot; joining one twice throws.
JoinClient == /\ Goto("join", "console")
              /\ Players \cap joined = {}
              /\ \A w \in Players : wpc[w] = "done"
              /\ joined' = joined \cup Players
              /\ UNCHANGED <<system, ticks, s_workers, server, world, mail, workers>>

\* Nothing catches the std::system_error.
JoinThrows == /\ mpc = "join"
              /\ Players \cap joined # {}
              /\ process' = "aborted"
              /\ UNCHANGED <<runMode, main, server, world, mail, workers>>

ConsoleQuit == /\ Goto("console", "terminate")
               /\ UNCHANGED <<system, ticks, s_workers, joined, server, world,
                              mail, workers>>

ConsoleEnds == /\ Goto("terminate", "close")
               /\ runMode' = "Terminate"
               /\ UNCHANGED <<process, ticks, s_workers, joined, server, world,
                              mail, workers>>

\* serverModuleClose joins the server, then KillClients the workers.
CloseServer == /\ Goto("close", "kill")
               /\ ~isServerRunning
               /\ runMode' = "Terminate"
               /\ UNCHANGED <<process, ticks, s_workers, joined, server, world,
                              mail, workers>>

KillClients == /\ mpc = "kill"
               /\ \A w \in Sessions : w <= Len(s_workers) => wpc[w] = "done"
               /\ process' = "ended"
               /\ UNCHANGED <<runMode, main, server, world, mail, workers>>

-----------------------------------------------------------------------------
(***************************************************************************)
(* serverMain and kernel.  The game's reset may fall due in any round once *)
(* startup is over; its store to m_runMode does not look at what is there. *)
(***************************************************************************)
ServerMain == /\ Serve("init", "loop")
              /\ runMode' = "Normal"
              /\ online' = 0
              /\ g_busy' = [s \in Slots |-> FALSE]
              /\ managerUp' = TRUE
              /\ UNCHANGED <<process, main, budget, amsg, state, manager,
                             portTable, isOpen, msgList, workers>>

\* Mutant: the kernel clears the manager port instead of its reply port.
RoundClearsManager == /\ Serve("loop", "tick")
                      /\ runMode = "Normal"
                      /\ manager' = <<>>
                      /\ UNCHANGED <<system, main, budget, amsg, world, managerUp,
                                     portTable, isOpen, msgList, workers>>

KernelRound == /\ Serve("loop", "tick")
               /\ runMode = "Normal"
               /\ UNCHANGED <<system, main, budget, amsg, world, mail, workers>>

KernelLeaves == /\ Serve("loop", "done")
                /\ runMode = "Terminate"
                /\ UNCHANGED <<system, main, budget, amsg, world, mail, workers>>

(***************************************************************************)
(* serverMain answers a reset with LogFatal: LogFinish calls exit on the   *)
(* server thread, whatever the other threads are doing; the modules are    *)
(* not closed.                                                             *)
(***************************************************************************)
KernelResets == /\ spc = "loop" /\ runMode = "Reset"
                /\ process' = "failed"
                /\ UNCHANGED <<runMode, main, server, world, mail, workers>>

\* A game lasts 15 minutes or more, and startup gives up after 10 seconds.
StartingUp == mpc \in {"load", "find", "ping", "pong", "demon", "npc"}

resetTicker == /\ Serve("tick", "serve")
               /\ runMode' \in {runMode} \cup IF StartingUp THEN {} ELSE {"Reset"}
               /\ budget' = Batch
               /\ UNCHANGED <<process, main, amsg, world, mail, workers>>

\* Mutant: the slot is not marked as in use.
ConnectKeepsState(m) == /\ amsg' = IF state[m.sender] # "OFFLINE"
                                      THEN [m EXCEPT !.sender = None] ELSE m
                        /\ UNCHANGED world

\* MsgConnectClient::Dispatch refuses a slot that is in use.
Connect(m) == /\ IF state[m.sender] # "OFFLINE"
                   THEN amsg' = [m EXCEPT !.sender = None] /\ state' = state
                   ELSE amsg' = m /\ state' = [state EXCEPT ![m.sender] = "LOGGING"]
              /\ UNCHANGED <<g_busy, online>>

\* Mutant: the slot is left as it was.
DisconnectKeepsSlot(m) == /\ online' = online - 1
                          /\ amsg' = [m EXCEPT !.sender = None]
                          /\ UNCHANGED <<state, g_busy>>

Disconnect(m) == /\ online' = IF state[m.sender] # "OFFLINE" THEN online - 1
                                                             ELSE online
                 /\ state' = [state EXCEPT ![m.sender] = "OFFLINE"]
                 /\ amsg' = [m EXCEPT !.sender = None]
                 /\ UNCHANGED g_busy

SetBusy(m) == /\ g_busy' = [g_busy EXCEPT ![m.sender] = m.param]
              /\ amsg' = m
              /\ UNCHANGED <<state, online>>

Dispatch(m) == \/ m.type = "ping" /\ amsg' = m /\ UNCHANGED world
               \/ m.type = "connect" /\ Connect(m)
               \/ m.type = "disconnect" /\ Disconnect(m)
               \/ m.type = "busy" /\ SetBusy(m)

\* Mutant: the newest message is served first.
ServeNewest == /\ Serve("serve", "reply")
               /\ budget > 0 /\ manager # <<>>
               /\ Dispatch(manager[Len(manager)])
               /\ manager' = SubSeq(manager, 1, Len(manager) - 1)
               /\ budget' = budget - 1
               /\ UNCHANGED <<system, main, managerUp, portTable, isOpen,
                              msgList, workers>>

\* Mutant: the round has no limit.
ServeBeyondBudget == /\ Serve("serve", "reply")
                     /\ manager # <<>>
                     /\ Dispatch(Head(manager))
                     /\ manager' = Tail(manager)
                     /\ budget' = budget - 1
                     /\ UNCHANGED <<system, main, managerUp, portTable, isOpen,
                                    msgList, workers>>

ServeMessage == /\ Serve("serve", "reply")
                /\ budget > 0 /\ manager # <<>>
                /\ Dispatch(Head(manager))
                /\ manager' = Tail(manager)
                /\ budget' = budget - 1
                /\ UNCHANGED <<system, main, managerUp, portTable, isOpen,
                               msgList, workers>>

\* ReplyMsg: a message without a reply port, or for a closed one, is dropped.
KernelReply ==
    /\ Serve("reply", "serve")
    /\ msgList' = IF amsg.reply # None /\ isOpen[amsg.reply]
                    THEN [msgList EXCEPT ![amsg.reply] = Append(@, amsg)]
                    ELSE msgList
    /\ amsg' = NoMessage
    /\ UNCHANGED <<system, main, budget, world, managerUp, manager, portTable,
                   isOpen, workers>>

RoundEnds == /\ Serve("serve", "loop")
             /\ budget = 0 \/ manager = <<>>
             /\ UNCHANGED <<system, main, budget, amsg, world, mail, workers>>

-----------------------------------------------------------------------------
(***************************************************************************)
(* startThread, the three main functions of workers, and PlayerClientDown. *)
(***************************************************************************)
Send(m) == /\ manager' = Append(manager, m)
           /\ UNCHANGED <<managerUp, portTable, isOpen, msgList>>

ConnectToServer(w) == /\ Work(w, "start", "wait")
                      /\ Send(From(w, "connect", port[w]))
                      /\ UNCHANGED <<system, main, server, world, port>>

\* A refused worker says so and ends; its port stays open and registered.
ServerAnswers(w) ==
    /\ wpc[w] = "wait" /\ msgList[port[w]] # <<>>
    /\ Work(w, "wait", IF Head(msgList[port[w]]).sender = None THEN "done"
                       ELSE IF s_workers[w] = PlayerSlot THEN "enter" ELSE "run")
    /\ msgList' = [msgList EXCEPT ![port[w]] = Tail(@)]
    /\ UNCHANGED <<system, main, server, world, managerUp, manager, portTable,
                   isOpen, port>>

\* amul_main up to the login.
EnterGame(w) == /\ Work(w, "enter", "run")
                /\ Send(From(w, "busy", None))
                /\ UNCHANGED <<system, main, server, world, port>>

\* Mutant: the demon and npc processors wait for a reset only.
ProcessorIgnoresQuit(w) == /\ Work(w, "run", "done")
                           /\ s_workers[w] # PlayerSlot
                           /\ runMode = "Reset"
                           /\ UNCHANGED <<system, main, server, world, mail, port>>

\* demonMain and npcMain look at m_runMode once a second.
ProcessorEnds(w) == /\ Work(w, "run", "done")
                    /\ s_workers[w] # PlayerSlot
                    /\ runMode # "Normal"
                    /\ UNCHANGED <<system, main, server, world, mail, port>>

\* The player quits, or has no password left to try.
LeaveGame(w) == /\ Work(w, "run", "down")
                /\ s_workers[w] = PlayerSlot
                /\ Send(From(w, "disconnect", port[w]))
                /\ UNCHANGED <<system, main, server, world, port>>

\* Mutant: the port is left open.
DownKeepsPort(w) == /\ Work(w, "down", "done")
                    /\ UNCHANGED <<system, main, server, world, mail, port>>

PlayerClientDown(w) ==
    /\ Work(w, "down", "done")
    /\ isOpen' = [isOpen EXCEPT ![port[w]] = FALSE]
    /\ portTable' = [s \in Slots |-> IF portTable[s] = port[w] THEN None
                                                             ELSE portTable[s]]
    /\ UNCHANGED <<system, main, server, world, managerUp, manager, msgList, port>>

-----------------------------------------------------------------------------
MainStep == \/ LoadGame \/ FindManager \/ StartTick \/ PingServer \/ Pong
            \/ StartFails \/ StartDemon \/ StartNpc
            \/ JoinClient \/ JoinThrows \/ ConsoleEnds \/ CloseServer \/ KillClients

Input == LoadFails \/ ConsolePlay \/ ConsoleQuit

ServerStep == \/ ServerMain \/ KernelRound \/ KernelLeaves \/ KernelResets \/ resetTicker
              \/ ServeMessage \/ KernelReply \/ RoundEnds

WorkerStep(w) == \/ ConnectToServer(w) \/ ServerAnswers(w) \/ EnterGame(w)
                 \/ ProcessorEnds(w) \/ PlayerClientDown(w)

Running == \/ MainStep \/ Input \/ ServerStep
           \/ \E w \in Sessions : WorkerStep(w) \/ LeaveGame(w)

Next == process = "running" /\ Running

Spec == Init /\ [][Next]_vars

(***************************************************************************)
(* Every thread that can run does.  Nobody has to type a command, and a    *)
(* player need never leave.                                                *)
(***************************************************************************)
Fairness == /\ WF_vars(process = "running" /\ MainStep)
            /\ WF_vars(process = "running" /\ ServerStep)
            /\ \A w \in Sessions : WF_vars(process = "running" /\ WorkerStep(w))

FairSpec == Spec /\ Fairness

-----------------------------------------------------------------------------
Started == {w \in Sessions : w <= Len(s_workers)}

TypeOK == /\ process \in {"running", "ended", "failed", "aborted"}
          /\ runMode \in {"Normal", "Reset", "Terminate"}
          /\ mpc \in {"load", "find", "ping", "pong", "demon", "npc", "console",
                     "join", "terminate", "close", "kill"}
          /\ ticks \in 0 .. StartTicks
          /\ s_workers \in Seq(Slots) /\ Len(s_workers) <= MaxPlays + 2
          /\ joined \subseteq Started
          /\ spc \in {"unborn", "init", "loop", "tick", "serve", "reply",
                     "done"}
          /\ budget \in 0 .. Batch
          /\ amsg \in Message
          /\ state \in [Slots -> {"OFFLINE", "LOGGING"}]
          /\ g_busy \in [Slots -> BOOLEAN]
          /\ online \in -MaxPlays .. 0
          /\ managerUp \in BOOLEAN
          /\ manager \in Seq(Message)
          /\ portTable \in [Slots -> Sessions \cup {None}]
          /\ isOpen \in [Ports -> BOOLEAN]
          /\ msgList \in [Ports -> Seq(Message)]
          /\ wpc \in [Sessions -> {"unborn", "start", "wait", "enter", "run",
                                  "down", "done"}]
          /\ port \in [Sessions -> Sessions \cup {None}]

(***************************************************************************)
(* A player who comes back right after leaving is not refused because of   *)
(* the session before: its disconnection is served before the new          *)
(* connection, whatever the server had to do meanwhile.                    *)
(***************************************************************************)
NeverRefused == \A w \in Started : \A i \in DOMAIN msgList[port[w]] :
                   msgList[port[w]][i].type = "connect"
                     => msgList[port[w]][i].sender # None

(***************************************************************************)
(* As long as a worker runs, the server knows its slot to be in use; no    *)
(* late disconnection of an earlier session frees it.                      *)
(***************************************************************************)
RunningSlotInUse == \A w \in Started : wpc[w] \in {"enter", "run"}
                                         => state[s_workers[w]] = "LOGGING"

(***************************************************************************)
(* What a worker waiting for its connection finds on its port is the       *)
(* answer to it, and a running worker finds nothing: REALiocheck would     *)
(* dispatch a leftover reply and send it to the same port, for ever.       *)
(* startThread uses the result of Wait without a look, so the port it      *)
(* waits on is open until the answer is there: CreatePort has not given it *)
(* one that an earlier session closes.                                     *)
(***************************************************************************)
OwnReplyOnly ==
    \A w \in Started :
       /\ wpc[w] = "wait" => \A i \in DOMAIN msgList[port[w]] :
                               /\ msgList[port[w]][i].session = w
                               /\ msgList[port[w]][i].type = "connect"
       /\ wpc[w] \in {"enter", "run"} => msgList[port[w]] = <<>>
       /\ wpc[w] \in {"start", "wait"} => isOpen[port[w]]

(***************************************************************************)
(* A slot never leaks: once the messages of a player who has left are      *)
(* served, the slot is free for the next one.                              *)
(***************************************************************************)
SlotReleased ==
    \A w \in Started :
       /\ wpc[w] = "done" /\ s_workers[w] = PlayerSlot
       /\ \A i \in DOMAIN manager : manager[i].session # w
       /\ \A v \in Started : v > w => s_workers[v] # PlayerSlot
       => state[PlayerSlot] = "OFFLINE"

(***************************************************************************)
(* A worker that asked to connect gets an answer, unless the game stops    *)
(* first: the server serves ten messages a round in the order they came.   *)
(***************************************************************************)
ConnectAnswered ==
    \A w \in Sessions : wpc[w] = "wait"
       ~> (wpc[w] # "wait" \/ runMode # "Normal" \/ process # "running")

(***************************************************************************)
(* "quit" ends the process once every worker has been answered: the server *)
(* leaves its kernel, the processors see m_runMode, and KillClients finds  *)
(* every thread at its end.                                                *)
(***************************************************************************)
QuitEnds == (/\ mpc = "terminate"
             /\ \A w \in Started : wpc[w] \notin {"start", "wait"})
              ~> (process # "running")

-----------------------------------------------------------------------------
(***************************************************************************)
(* What the console's help says of its commands, and the code does not do. *)
(* "quit": Shutdown AMUL Server/Clients.  A worker whose connection is not *)
(* served before the kernel stops waits for ever, and KillClients for it.  *)
(***************************************************************************)
QuitAlwaysEnds == (mpc = "terminate") ~> (process # "running")

(***************************************************************************)
(* "play": Attempt to launch a client on the console.  The second attempt  *)
(* joins the first one's thread again and aborts the server.               *)
(***************************************************************************)
PlayNeverAborts == process # "aborted"
=============================================================================
