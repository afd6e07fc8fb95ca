---------------------------- MODULE SessionProofs ----------------------------
(***************************************************************************)
(* Proofs about Session, for any number of plays, any startup timeout and  *)
(* any batch.  The argument is the order of the manager port: the messages *)
(* of a slot's sessions are served as they were sent, and a session of the *)
(* players' slot starts when the one before is at its end.  The invariant  *)
(* is in named parts:                                                      *)
(*   Crew    which sessions main has started, and how far each can be;     *)
(*   Berths  whose port is under which name, and open;                     *)
(*   Post    what is on the manager port, in the kernel's hand and on the  *)
(*           ports of the workers;                                         *)
(*   Slates  what Avatar::state of a slot says of those messages;          *)
(*   Tally   how far the count of players can have been taken down.        *)
(***************************************************************************)
EXTENDS Session, SequenceTheorems, TLAPS

\* The slot a session has, by its place in s_workers.
SlotOf(w) == IF w = 1 THEN DEMON_SLOT
             ELSE IF w = 2 THEN NPC_SLOT
             ELSE PlayerSlot

IsPlayer(w) == w > 2

Crew ==
  /\ mpc \in {"load", "find", "ping", "pong", "demon"} => Len(s_workers) = 0
  /\ mpc = "npc" => Len(s_workers) = 1
  /\ mpc \in {"console", "join", "terminate"} => Len(s_workers) >= 2
  /\ \A w \in Started : s_workers[w] = SlotOf(w) /\ wpc[w] # "unborn"
  /\ \A w \in Sessions \ Started : wpc[w] = "unborn" /\ msgList[w] = <<>>
  /\ \A w \in Started : wpc[w] \in {"enter", "down"} => IsPlayer(w)
  /\ mpc # "join" => \A w \in Started : IsPlayer(w) => wpc[w] = "done"
  /\ \A v, w \in Started : IsPlayer(v) /\ v < w => wpc[v] = "done"

Berths ==
  /\ \A w \in Started : port[w] = w /\ (wpc[w] # "done" => isOpen[w])
  /\ \A s \in Slots : portTable[s] # None =>
        /\ portTable[s] \in Started
        /\ SlotOf(portTable[s]) = s
        /\ s = PlayerSlot => wpc[portTable[s]] # "done"

\* A message some worker, or main, has sent, as far as the worker has got.
Sent(m) ==
  \/ m.type = "ping" /\ m.session = None /\ m.reply = PingPort
  \/ /\ m.session \in Started
     /\ \/ /\ m.type = "connect" /\ m.reply = m.session
           /\ wpc[m.session] = "wait"
        \/ /\ m.type = "busy" /\ m.reply = None
           /\ wpc[m.session] \in {"run", "down", "done"}
        \/ /\ m.type = "disconnect" /\ m.reply = m.session
           /\ IsPlayer(m.session) /\ wpc[m.session] \in {"down", "done"}

\* The connection of w is on the manager port, or in the kernel's hand.
Asked(w) == \E i \in DOMAIN manager :
               manager[i].type = "connect" /\ manager[i].session = w

Held(w) == spc = "reply" /\ amsg.type = "connect" /\ amsg.session = w

Granted(m, w) == m.type = "connect" /\ m.session = w /\ m.sender = SlotOf(w)

SentOnce ==
  \A i, j \in DOMAIN manager :
     /\ manager[i].session = manager[j].session /\ manager[i].session # None
     /\ manager[i].type = manager[j].type
     => i = j

Post ==
  /\ \A i \in DOMAIN manager :
        /\ Sent(manager[i])
        /\ manager[i].type # "ping" => manager[i].sender = SlotOf(manager[i].session)
  /\ SentOnce
  /\ spc = "reply" => /\ Sent(amsg)
                      /\ amsg.type = "connect" => amsg.sender = SlotOf(amsg.session)
  /\ \A w \in Started : Asked(w) => ~Held(w) /\ msgList[w] = <<>>
  /\ \A w \in Started : Held(w) => msgList[w] = <<>>
  /\ \A w \in Started : wpc[w] \in {"start", "enter", "run"} => msgList[w] = <<>>
  /\ \A w \in Started : wpc[w] = "wait" =>
        /\ Len(msgList[w]) <= 1
        /\ \A i \in DOMAIN msgList[w] : Granted(msgList[w][i], w)
  /\ \A w \in Started : \A i \in DOMAIN msgList[w] :
        msgList[w][i].type = "connect" => msgList[w][i].sender # None

\* The i-th message on the manager port will free slot s.
Frees(i, s) == manager[i].type = "disconnect" /\ manager[i].sender = s

Accepted(w) == \/ wpc[w] \in {"enter", "run"}
               \/ Held(w)
               \/ wpc[w] = "wait" /\ msgList[w] # <<>>

\* No session of s is connected or has asked to be.
Vacant(s) == \A w \in Started : SlotOf(w) = s =>
                \/ wpc[w] \in {"start", "down"}
                \/ wpc[w] = "done" /\ s = PlayerSlot

Slates ==
  /\ \A w \in Started : Accepted(w) =>
        /\ state[SlotOf(w)] = "LOGGING"
        /\ \A i \in DOMAIN manager : ~Frees(i, SlotOf(w))
  /\ \A i \in DOMAIN manager : manager[i].type = "connect" =>
        /\ \/ state[manager[i].sender] = "OFFLINE"
           \/ \E j \in DOMAIN manager : j < i /\ Frees(j, manager[i].sender)
        /\ \A j \in DOMAIN manager : Frees(j, manager[i].sender) => j < i
  /\ \A s \in Slots : Vacant(s) => \/ state[s] = "OFFLINE"
                                   \/ \E j \in DOMAIN manager : Frees(j, s)
  /\ \A i \in DOMAIN manager : manager[i].type = "disconnect" =>
        \A w \in Started : w > manager[i].session => wpc[w] \in {"start", "wait"}

Tally ==
  /\ online \in Int /\ online <= 0
  /\ Len(s_workers) <= 2 => online = 0
  /\ Len(s_workers) > 2 => online >= 2 - Len(s_workers)
  /\ \A w \in Started : IsPlayer(w) /\ wpc[w] \in {"start", "wait", "enter", "run"}
                           => online >= 3 - w
  /\ \A i \in DOMAIN manager : manager[i].type = "disconnect"
                                  => online >= 3 - manager[i].session

IInv == TypeOK /\ Crew /\ Berths /\ Post /\ Slates /\ Tally

-----------------------------------------------------------------------------
LEMMA StartedSessions ==
  ASSUME TypeOK
  PROVE  /\ \A w : w \in Sessions <=> w \in 1 .. MaxPlays + 2
         /\ \A w : w \in Started <=> w \in 1 .. Len(s_workers)
         /\ Len(s_workers) \in Nat
         /\ \A w \in Started : w \in Nat /\ w \in Sessions /\ w # None /\ w # PingPort
         /\ Sessions \subseteq Ports
  BY BoundsAssumption DEF TypeOK, Started, Sessions, None, PingPort, Ports

LEMMA FromFields ==
  ASSUME NEW w, NEW type, NEW r
  PROVE  /\ From(w, type, r).type = type
         /\ From(w, type, r).reply = r
         /\ From(w, type, r).sender = s_workers[w]
         /\ From(w, type, r).session = w
  BY DEF From, NoMessage

LEMMA FromMessage ==
  ASSUME TypeOK, NEW w \in Started, NEW type \in {"connect", "disconnect", "busy"},
         NEW r \in Ports \cup {None}
  PROVE  From(w, type, r) \in Message
<1>1. s_workers[w] \in Slots /\ w \in Sessions
  BY StartedSessions DEF TypeOK
<1>2. NoMessage \in Message
  BY DEF NoMessage, Message
<1> QED BY <1>1, <1>2 DEF From, Message

\* The session that StartClient starts.
Newcomer == Len(s_workers) + 1

LEMMA StartClientSlot ==
  ASSUME TypeOK, Crew, NEW slot,
         \/ StartDemon /\ slot = DEMON_SLOT
         \/ StartNpc /\ slot = NPC_SLOT
         \/ ConsolePlay /\ slot = PlayerSlot
  PROVE  /\ StartClient(slot)
         /\ slot \in Slots /\ SlotOf(Newcomer) = slot
         /\ Newcomer \in Sessions /\ Newcomer \notin Started
         /\ \A w \in Started : w < Newcomer /\ (IsPlayer(w) => wpc[w] = "done")
<1>1. CASE StartDemon
  <2>1. slot = DEMON_SLOT /\ StartClient(DEMON_SLOT) /\ Len(s_workers) = 0
    BY <1>1 DEF ConsolePlay, StartDemon, StartNpc, Goto, Crew
  <2> QED BY <2>1, StartedSessions, BoundsAssumption DEF Newcomer, SlotOf, Slots
<1>2. CASE StartNpc
  <2>1. slot = NPC_SLOT /\ StartClient(NPC_SLOT) /\ Len(s_workers) = 1
    BY <1>2 DEF ConsolePlay, StartDemon, StartNpc, Goto, Crew
  <2> QED BY <2>1, StartedSessions, BoundsAssumption
          DEF Newcomer, SlotOf, Slots, IsPlayer
<1>3. CASE ConsolePlay
  <2>1. /\ slot = PlayerSlot /\ mpc = "console" /\ StartClient(PlayerSlot)
        /\ Len(s_workers) < MaxPlays + 2
    BY <1>3 DEF ConsolePlay, StartDemon, StartNpc, Goto
  <2>2. Len(s_workers) >= 2 /\ \A w \in Started : IsPlayer(w) => wpc[w] = "done"
    BY <2>1 DEF Crew
  <2> QED BY <2>1, <2>2, StartedSessions, BoundsAssumption
          DEF Newcomer, SlotOf, Slots
<1> QED BY <1>1, <1>2, <1>3

\* Its port is a new one: no earlier session has left one under its name.
LEMMA StartClientStep ==
  ASSUME TypeOK, Crew, Berths, NEW slot,
         \/ StartDemon /\ slot = DEMON_SLOT
         \/ StartNpc /\ slot = NPC_SLOT
         \/ ConsolePlay /\ slot = PlayerSlot
  PROVE  /\ s_workers' = Append(s_workers, slot)
         /\ \A w : w \in Started' <=> w \in Started \/ w = Newcomer
         /\ \A w \in Started : s_workers'[w] = s_workers[w]
         /\ s_workers'[Newcomer] = slot
         /\ Len(s_workers') = Newcomer
         /\ portTable' = [portTable EXCEPT ![slot] = Newcomer]
         /\ isOpen' = [isOpen EXCEPT ![Newcomer] = TRUE]
         /\ port' = [port EXCEPT ![Newcomer] = Newcomer]
         /\ wpc' = [wpc EXCEPT ![Newcomer] = "start"]
         /\ UNCHANGED <<spc, amsg, budget, state, online, manager, msgList>>
<1>1. /\ StartClient(slot) /\ slot \in Slots /\ SlotOf(Newcomer) = slot
      /\ Newcomer \in Sessions /\ Newcomer \notin Started
      /\ \A w \in Started : w < Newcomer /\ (IsPlayer(w) => wpc[w] = "done")
  BY StartClientSlot
<1>2. portTable[slot] = None
  <2> SUFFICES ASSUME portTable[slot] # None PROVE FALSE
    OBVIOUS
  <2> DEFINE v == portTable[slot]
  <2>1. v \in Started /\ SlotOf(v) = slot /\ (slot = PlayerSlot => wpc[v] # "done")
    BY <1>1 DEF Berths
  <2>2. v \in Nat /\ v >= 1 /\ v < Newcomer /\ Newcomer \in Nat
    BY <1>1, <2>1, StartedSessions DEF Newcomer
  <2> QED BY <1>1, <2>1, <2>2
          DEF SlotOf, IsPlayer, DEMON_SLOT, NPC_SLOT, PlayerSlot
<1>3. s_workers \in Seq(Slots)
  BY DEF TypeOK
<1>4. /\ s_workers' = Append(s_workers, slot)
      /\ portTable' = [portTable EXCEPT ![slot] = Newcomer]
      /\ isOpen' = [isOpen EXCEPT ![Newcomer] = TRUE]
      /\ port' = [port EXCEPT ![Newcomer] = Newcomer]
      /\ wpc' = [wpc EXCEPT ![Newcomer] = "start"]
      /\ UNCHANGED <<spc, amsg, budget, state, online, manager, msgList>>
  BY <1>1, <1>2 DEF StartClient, Work, Newcomer, server, world
<1>5. /\ Len(s_workers') = Newcomer /\ s_workers'[Newcomer] = slot
      /\ \A w \in 1 .. Len(s_workers) : s_workers'[w] = s_workers[w]
  BY <1>1, <1>3, <1>4 DEF Newcomer
<1>6. \A w : w \in Started' <=> w \in Started \/ w = Newcomer
  BY <1>1, <1>5, StartedSessions DEF Started, Newcomer, Sessions
<1> QED BY <1>4, <1>5, <1>6, StartedSessions

-----------------------------------------------------------------------------
\* A step that concerns no message of a worker and starts none.
Quiet ==
  /\ UNCHANGED <<s_workers, wpc, port, manager, portTable, state>>
  /\ online' = online \/ online' = 0
  /\ \A w \in Sessions : msgList'[w] = msgList[w] /\ isOpen'[w] = isOpen[w]
  /\ spc' = "reply" => spc = "reply" /\ amsg' = amsg

Idling == \/ LoadFails \/ LoadGame \/ FindManager \/ StartTick \/ Pong \/ StartFails
          \/ JoinClient \/ JoinThrows \/ ConsoleQuit \/ ConsoleEnds
          \/ CloseServer \/ KillClients
          \/ ServerMain \/ KernelRound \/ KernelLeaves \/ KernelResets
          \/ resetTicker \/ RoundEnds

LEMMA IdlingQuiet ==
  ASSUME TypeOK, Idling
  PROVE  Quiet
<1>1. PingPort \notin Sessions
  BY StartedSessions DEF Sessions, PingPort
<1> USE <1>1 DEF Quiet, TypeOK, system, main, server, world, mail, workers, Serve, Goto
<1>2. CASE LoadFails \/ LoadGame \/ FindManager \/ StartTick
  BY <1>2 DEF LoadFails, LoadGame, FindManager, StartTick
<1>3. CASE Pong \/ StartFails
  BY <1>3 DEF Pong, StartFails, Ports
<1>4. CASE JoinClient \/ JoinThrows \/ ConsoleQuit \/ ConsoleEnds
  BY <1>4 DEF JoinClient, JoinThrows, ConsoleQuit, ConsoleEnds
<1>5. CASE CloseServer \/ KillClients
  BY <1>5 DEF CloseServer, KillClients
<1>6. CASE ServerMain \/ KernelRound \/ KernelLeaves \/ KernelResets
  BY <1>6 DEF ServerMain, KernelRound, KernelLeaves, KernelResets
<1>7. CASE resetTicker \/ RoundEnds
  BY <1>7 DEF resetTicker, RoundEnds
<1> QED BY <1>2, <1>3, <1>4, <1>5, <1>6, <1>7 DEF Idling

LEMMA QuietStep ==
  ASSUME TypeOK, Berths, Post, Slates, Tally, Quiet
  PROVE  Berths' /\ Post' /\ Slates' /\ Tally'
<1>1. Started' = Started /\ \A w \in Started : w \in Sessions
  BY DEF Quiet, Started
<1>2. Berths'
  BY <1>1 DEF Quiet, Berths
<1>3. /\ \A w \in Started : Held(w)' => Held(w)
      /\ \A w \in Started : Asked(w)' <=> Asked(w)
      /\ \A w \in Started : Accepted(w)' => Accepted(w)
  BY <1>1 DEF Quiet, Held, Asked, Accepted
<1>4. \A m : Sent(m) => Sent(m)'
  BY <1>1 DEF Quiet, Sent
<1>5. /\ \A i \in DOMAIN manager' :
            /\ Sent(manager[i])'
            /\ manager'[i].type # "ping"
                  => manager'[i].sender = SlotOf(manager'[i].session)
      /\ SentOnce'
      /\ spc' = "reply" => /\ Sent(amsg)'
                           /\ amsg'.type = "connect"
                                 => amsg'.sender = SlotOf(amsg'.session)
  BY <1>4 DEF Quiet, Post, SentOnce
<1>6. Post'
  BY <1>1, <1>3, <1>5 DEF Quiet, Post, Granted
<1>7. Slates'
  BY <1>1, <1>3 DEF Quiet, Slates, Frees, Vacant
<1>8. Tally'
  <2>1. \A w \in Started : IsPlayer(w) => 3 - w <= 0
    BY <1>1, StartedSessions DEF IsPlayer
  <2>2. \A i \in DOMAIN manager : manager[i].type = "disconnect"
                                   => 3 - manager[i].session <= 0
    BY <2>1 DEF Post, Sent
  <2>3. Len(s_workers) > 2 => 2 - Len(s_workers) <= 0
    BY StartedSessions
  <2> QED BY <1>1, <2>1, <2>2, <2>3 DEF Quiet, Tally
<1> QED BY <1>2, <1>6, <1>7, <1>8

-----------------------------------------------------------------------------
LEMMA AppendedMessage ==
  ASSUME TypeOK, NEW m \in Message, manager' = Append(manager, m)
  PROVE  \E n \in Nat : /\ DOMAIN manager' = DOMAIN manager \cup {n}
                        /\ manager'[n] = m
                        /\ \A i \in DOMAIN manager : i < n /\ manager'[i] = manager[i]
<1> DEFINE n == Len(manager) + 1
<1>1. manager \in Seq(Message)
  BY DEF TypeOK
<1>2. /\ n \in Nat /\ DOMAIN manager' = DOMAIN manager \cup {n} /\ manager'[n] = m
      /\ \A i \in DOMAIN manager : i < n /\ manager'[i] = manager[i]
  BY <1>1
<1> HIDE DEF n
<1> QED BY <1>2

LEMMA ServedMessage ==
  ASSUME TypeOK, manager # <<>>, manager' = Tail(manager)
  PROVE  /\ 1 \in DOMAIN manager /\ Head(manager) = manager[1]
         /\ DOMAIN manager \subseteq Nat
         /\ \A i \in DOMAIN manager' : /\ i \in Nat /\ i > 0
                                       /\ i + 1 \in DOMAIN manager
                                       /\ manager'[i] = manager[i + 1]
         /\ \A i \in DOMAIN manager : i # 1 => /\ i > 1 /\ i - 1 \in DOMAIN manager'
                                              /\ manager'[i - 1] = manager[i]
<1>1. manager \in Seq(Message)
  BY DEF TypeOK
<1> QED BY <1>1

\* A worker that steps has been started and is not at its end.
LEMMA SteppingWorker ==
  ASSUME Crew, NEW w \in Sessions, WorkerStep(w) \/ LeaveGame(w)
  PROVE  w \in Started /\ wpc[w] \notin {"unborn", "done"}
  BY DEF Crew, WorkerStep, ConnectToServer, ServerAnswers, EnterGame, ProcessorEnds,
         PlayerClientDown, LeaveGame, Work

LEMMA WorkerCrew ==
  ASSUME TypeOK, Crew, NEW w \in Started, wpc[w] # "done", NEW x,
         wpc' = [wpc EXCEPT ![w] = x], x # "unborn",
         x \in {"enter", "down"} => IsPlayer(w),
         UNCHANGED <<s_workers, mpc>>,
         \A v \in Sessions \ Started : msgList'[v] = msgList[v]
  PROVE  Crew'
<1>1. Started' = Started
  BY DEF Started
<1>2. \A v \in Sessions : wpc'[v] = IF v = w THEN x ELSE wpc[v]
  BY DEF TypeOK
<1>3. \A v \in Started : v \in Sessions
  BY DEF Started
<1> QED BY <1>1, <1>2, <1>3 DEF Crew

LEMMA SlotsApart ==
  /\ \A w : SlotOf(w) = PlayerSlot <=> w # 1 /\ w # 2
  /\ \A w : SlotOf(w) \in Slots
  /\ \A v, w : SlotOf(v) = SlotOf(w) => v = w \/ SlotOf(v) = PlayerSlot
  /\ \A w \in Nat \ {0} : IsPlayer(w) <=> SlotOf(w) = PlayerSlot
  /\ None \notin Slots
  BY DEF SlotOf, PlayerSlot, DEMON_SLOT, NPC_SLOT, Slots, None, IsPlayer

LEMMA StartedPlayer ==
  ASSUME TypeOK, Crew, NEW w \in Started
  PROVE  s_workers[w] = SlotOf(w) /\ (IsPlayer(w) <=> SlotOf(w) = PlayerSlot)
  BY StartedSessions, SlotsApart DEF Crew

LEMMA NextCrew ==
  ASSUME TypeOK, Crew, Berths, Post, Running
  PROVE  Crew'
<1> USE DEF system, main, server, world, mail, workers
<1>1. CASE Idling
  <2>1. Quiet
    BY <1>1, IdlingQuiet
  <2>2. Started' = Started /\ UNCHANGED <<s_workers, wpc>>
        /\ \A w \in Sessions : msgList'[w] = msgList[w]
    BY <2>1 DEF Quiet, Started
  <2>3. \/ mpc' = mpc
        \/ mpc' \in {"find", "ping", "pong", "demon"}
             /\ mpc \in {"load", "find", "ping", "pong"}
        \/ mpc' \in {"console", "terminate"} /\ mpc \in {"console", "join"}
        \/ mpc' \in {"close", "kill"} /\ mpc # "join"
    BY <1>1 DEF Idling, LoadFails, LoadGame, FindManager, StartTick, Pong, StartFails,
                JoinClient, JoinThrows, ConsoleQuit, ConsoleEnds, CloseServer,
                KillClients, ServerMain, KernelRound, KernelLeaves, KernelResets,
                resetTicker, RoundEnds, Goto
  <2>4. mpc = "join" /\ mpc' # "join" =>
          \A w \in Started : IsPlayer(w) => wpc[w] = "done"
    <3> SUFFICES ASSUME mpc = "join", mpc' # "join", NEW w \in Started, IsPlayer(w)
                 PROVE  wpc[w] = "done"
      OBVIOUS
    <3>1. JoinClient
      BY <1>1 DEF Idling, LoadFails, LoadGame, FindManager, StartTick, Pong,
                  StartFails, JoinThrows, ConsoleQuit, ConsoleEnds, CloseServer,
                  KillClients, ServerMain, KernelRound, KernelLeaves, KernelResets,
                  resetTicker, RoundEnds, Goto
    <3>2. w \in Players
      BY StartedPlayer, StartedSessions DEF Players, Started
    <3> QED BY <3>1, <3>2 DEF JoinClient
  <2> QED BY <2>2, <2>3, <2>4 DEF Crew
<1>2. ASSUME NEW slot, \/ StartDemon /\ slot = DEMON_SLOT
                       \/ StartNpc /\ slot = NPC_SLOT
                       \/ ConsolePlay /\ slot = PlayerSlot
      PROVE  Crew'
  <2>1. /\ s_workers' = Append(s_workers, slot) /\ Len(s_workers') = Newcomer
        /\ \A w : w \in Started' <=> w \in Started \/ w = Newcomer
        /\ \A w \in Started : s_workers'[w] = s_workers[w]
        /\ s_workers'[Newcomer] = slot
        /\ wpc' = [wpc EXCEPT ![Newcomer] = "start"] /\ msgList' = msgList
    BY <1>2, StartClientStep
  <2>2. /\ SlotOf(Newcomer) = slot /\ Newcomer \in Sessions /\ Newcomer \notin Started
        /\ \A w \in Started : w < Newcomer /\ (IsPlayer(w) => wpc[w] = "done")
    BY <1>2, StartClientSlot
  <2>3. \/ mpc' = "npc" /\ Newcomer = 1
        \/ mpc' = "console" /\ Newcomer = 2
        \/ mpc' = "join" /\ Newcomer > 2
    BY <1>2, StartedSessions
       DEF StartDemon, StartNpc, ConsolePlay, Goto, Crew, Newcomer
  <2>4. \A w \in Sessions : wpc'[w] = IF w = Newcomer THEN "start" ELSE wpc[w]
    BY <2>1 DEF TypeOK
  <2>5. \A w \in Started : w \in Sessions /\ w \in Nat
    BY StartedSessions
  <2>6. \A v, w \in Started' : IsPlayer(v) /\ v < w => wpc'[v] = "done"
    BY <2>1, <2>2, <2>4, <2>5 DEF Crew
  <2>7. ASSUME NEW w \in Started'
        PROVE  /\ s_workers'[w] = SlotOf(w) /\ wpc'[w] # "unborn"
               /\ wpc'[w] \in {"enter", "down"} => IsPlayer(w)
    <3>1. CASE w = Newcomer
      BY <2>1, <2>2, <2>4, <3>1
    <3>2. CASE w # Newcomer
      BY <2>1, <2>4, <2>5, <3>2 DEF Crew
    <3> QED BY <3>1, <3>2
  <2>9. \A w \in Sessions \ Started' : wpc'[w] = "unborn" /\ msgList'[w] = <<>>
    <3> TAKE w \in Sessions \ Started'
    <3>1. w \notin Started /\ w # Newcomer
      BY <2>1
    <3> QED BY <2>1, <2>4, <3>1 DEF Crew
  <2>8. mpc' # "join" => \A w \in Started' : IsPlayer(w) => wpc'[w] = "done"
    BY <2>1, <2>2, <2>3, <2>4, <2>5 DEF IsPlayer
  <2>10. /\ mpc' \in {"load", "find", "ping", "pong", "demon"} => Len(s_workers') = 0
         /\ mpc' = "npc" => Len(s_workers') = 1
         /\ mpc' \in {"console", "join", "terminate"} => Len(s_workers') >= 2
    BY <2>1, <2>3, StartedSessions DEF Newcomer
  <2> QED BY <2>6, <2>7, <2>8, <2>9, <2>10 DEF Crew
<1>3. CASE PingServer
  <2>1. Started' = Started
    BY <1>3 DEF PingServer, Started
  <2> QED BY <1>3, <2>1 DEF PingServer, Goto, Crew
<1>4. CASE ServeMessage
  <2>1. Started' = Started
    BY <1>4 DEF ServeMessage, Started
  <2> QED BY <1>4, <2>1 DEF ServeMessage, Crew
<1>5. CASE KernelReply
  <2>1. Started' = Started /\ UNCHANGED <<s_workers, wpc, mpc>>
    BY <1>5 DEF KernelReply, Started
  <2>2. amsg.reply \in Started \cup {PingPort, None}
    BY <1>5 DEF KernelReply, Serve, Post, Sent
  <2>3. \A w \in Sessions \ Started : msgList'[w] = msgList[w]
    BY <1>5, <2>2, StartedSessions
       DEF KernelReply, TypeOK, Ports, Sessions, PingPort
  <2> QED BY <2>1, <2>3 DEF Crew
<1>6. ASSUME NEW w \in Sessions, WorkerStep(w) \/ LeaveGame(w) PROVE Crew'
  <2>1. w \in Started /\ wpc[w] # "done"
    BY <1>6, SteppingWorker
  <2>2. UNCHANGED <<s_workers, mpc>>
    BY <1>6 DEF WorkerStep, ConnectToServer, ServerAnswers, EnterGame, ProcessorEnds,
                PlayerClientDown, LeaveGame
  <2>3. \A v \in Sessions \ Started : msgList'[v] = msgList[v]
    BY <1>6, <2>1
       DEF WorkerStep, ConnectToServer, ServerAnswers, EnterGame, ProcessorEnds,
           PlayerClientDown, LeaveGame, Send, TypeOK, Berths, Ports
  <2>4. \E x : /\ wpc' = [wpc EXCEPT ![w] = x] /\ x # "unborn"
               /\ x \in {"enter", "down"} => IsPlayer(w)
    <3>1. s_workers[w] = PlayerSlot => IsPlayer(w)
      BY <2>1, StartedPlayer
    <3> QED BY <1>6, <3>1
            DEF WorkerStep, ConnectToServer, ServerAnswers, EnterGame, ProcessorEnds,
                PlayerClientDown, LeaveGame, Work
  <2> QED BY <2>1, <2>2, <2>3, <2>4, WorkerCrew
<1> QED BY <1>1, <1>2, <1>3, <1>4, <1>5, <1>6
        DEF Running, MainStep, Input, ServerStep, Idling

-----------------------------------------------------------------------------
Rest == Berths /\ Post /\ Slates /\ Tally

LEMMA NewcomerRest ==
  ASSUME TypeOK, Crew, Rest, NEW slot,
         \/ StartDemon /\ slot = DEMON_SLOT
         \/ StartNpc /\ slot = NPC_SLOT
         \/ ConsolePlay /\ slot = PlayerSlot
  PROVE  Rest'
<1>0. PICK n : n = Newcomer
  OBVIOUS
<1>1. /\ \A w : w \in Started' <=> w \in Started \/ w = n
      /\ Len(s_workers') = n
      /\ portTable' = [portTable EXCEPT ![slot] = n]
      /\ isOpen' = [isOpen EXCEPT ![n] = TRUE]
      /\ port' = [port EXCEPT ![n] = n]
      /\ wpc' = [wpc EXCEPT ![n] = "start"]
      /\ UNCHANGED <<spc, amsg, state, online, manager, msgList>>
  BY <1>0, StartClientStep DEF Rest
<1>2. /\ slot \in Slots /\ SlotOf(n) = slot
      /\ n \in Sessions /\ n \notin Started /\ msgList[n] = <<>>
  BY <1>0, StartClientSlot DEF Crew
<1>3. \A w \in Sessions : /\ wpc'[w] = IF w = n THEN "start" ELSE wpc[w]
                          /\ port'[w] = IF w = n THEN w ELSE port[w]
                          /\ isOpen'[w] = IF w = n THEN TRUE ELSE isOpen[w]
  BY <1>1, StartedSessions DEF TypeOK
<1>4. \A w \in Started : w \in Sessions /\ w # n
  BY <1>2, StartedSessions
<1>5. Berths'
  <2>1. ASSUME NEW w \in Started'
        PROVE  port'[w] = w /\ (wpc'[w] # "done" => isOpen'[w])
    <3>1. CASE w = n
      BY <1>2, <1>3, <3>1
    <3>2. CASE w # n
      BY <1>1, <1>3, <1>4, <3>2 DEF Rest, Berths
    <3> QED BY <3>1, <3>2
  <2>2. \A s \in Slots : portTable'[s] = IF s = slot THEN n ELSE portTable[s]
    BY <1>1, <1>2 DEF TypeOK
  <2>3. ASSUME NEW s \in Slots, portTable'[s] # None
        PROVE  /\ portTable'[s] \in Started'
               /\ SlotOf(portTable'[s]) = s
               /\ s = PlayerSlot => wpc'[portTable'[s]] # "done"
    <3>1. CASE s = slot
      <4>1. portTable'[s] = n /\ n \in Started' /\ SlotOf(n) = s /\ wpc'[n] = "start"
        BY <1>1, <1>2, <1>3, <2>2, <3>1
      <4> QED BY <4>1
    <3>2. CASE s # slot
      <4>1. PICK v : v = portTable[s]
        OBVIOUS
      <4>2. portTable'[s] = v /\ v # None
        BY <2>2, <2>3, <3>2, <4>1
      <4>3. /\ v \in Started /\ SlotOf(v) = s
            /\ s = PlayerSlot => wpc[v] # "done"
        BY <4>1, <4>2 DEF Rest, Berths
      <4>4. v \in Started' /\ wpc'[v] = wpc[v]
        BY <1>1, <1>3, <1>4, <4>3
      <4> QED BY <4>2, <4>3, <4>4
    <3> QED BY <3>1, <3>2
  <2> QED BY <2>1, <2>3 DEF Berths
<1>6. \A m : Sent(m) => Sent(m)' /\ (m.session = n => m.type = "ping")
  BY <1>1, <1>2, <1>3, <1>4 DEF Sent
<1>7. /\ ~Asked(n) /\ ~Held(n) /\ ~Accepted(n)'
      /\ \A w \in Started : /\ Asked(w)' <=> Asked(w)
                            /\ Held(w)' <=> Held(w)
                            /\ Accepted(w)' <=> Accepted(w)
  <2>1. ~Asked(n) /\ ~Held(n)
    BY <1>6 DEF Asked, Held, Rest, Post
  <2>2. \A w : (Asked(w)' <=> Asked(w)) /\ (Held(w)' <=> Held(w))
    BY <1>1 DEF Asked, Held
  <2>3. \A w \in Started : wpc'[w] = wpc[w]
    BY <1>3, <1>4
  <2>4. \A w \in Started : Accepted(w)' <=> Accepted(w)
    BY <1>1, <2>2, <2>3 DEF Accepted
  <2>5. wpc'[n] = "start"
    BY <1>2, <1>3
  <2> QED BY <2>1, <2>2, <2>4, <2>5 DEF Accepted
<1>8. Post'
  <2>1. /\ \A i \in DOMAIN manager' :
              /\ Sent(manager[i])'
              /\ manager'[i].type # "ping"
                    => manager'[i].sender = SlotOf(manager'[i].session)
        /\ SentOnce'
        /\ spc' = "reply" => /\ Sent(amsg)'
                             /\ amsg'.type = "connect"
                                   => amsg'.sender = SlotOf(amsg'.session)
    BY <1>1, <1>6 DEF Rest, Post, SentOnce
  <2>2. ASSUME NEW w \in Started'
        PROVE  /\ Asked(w)' => ~Held(w)' /\ msgList'[w] = <<>>
               /\ Held(w)' => msgList'[w] = <<>>
               /\ wpc'[w] \in {"start", "enter", "run"} => msgList'[w] = <<>>
               /\ wpc'[w] = "wait" =>
                     /\ Len(msgList'[w]) <= 1
                     /\ \A i \in DOMAIN msgList'[w] : Granted(msgList'[w][i], w)
               /\ \A i \in DOMAIN msgList'[w] :
                     msgList'[w][i].type = "connect" => msgList'[w][i].sender # None
    <3>1. CASE w = n
      <4>1. ~Asked(w)' /\ ~Held(w)'
        BY <1>1, <1>7, <3>1 DEF Asked, Held
      <4> QED BY <1>1, <1>2, <1>3, <3>1, <4>1
    <3>2. CASE w \in Started
      BY <1>1, <1>3, <1>4, <1>7, <3>2 DEF Rest, Post
    <3> QED BY <1>1, <3>1, <3>2
  <2> QED BY <2>1, <2>2 DEF Post
<1>9. Slates'
  <2>1. \A w \in Started' : Accepted(w)' => w \in Started /\ Accepted(w)
    BY <1>1, <1>7
  <2>2. \A s \in Slots : Vacant(s)' => Vacant(s)
    BY <1>1, <1>3, <1>4 DEF Vacant
  <2>3. \A w \in Started' : w \in Started \/ wpc'[w] = "start"
    BY <1>1, <1>2, <1>3
  <2> QED BY <1>1, <1>3, <1>4, <2>1, <2>2, <2>3 DEF Rest, Slates, Frees
<1>10. Tally'
  BY <1>0, <1>1, <1>2, <1>3, <1>4, StartedSessions
     DEF Rest, Tally, Newcomer, IsPlayer
<1> QED BY <1>5, <1>8, <1>9, <1>10 DEF Rest

LEMMA PingRest ==
  ASSUME TypeOK, Rest, PingServer
  PROVE  Rest'
<1> DEFINE m == [NoMessage EXCEPT !.reply = PingPort]
<1>1. m \in Message /\ m.type = "ping" /\ m.session = None /\ m.reply = PingPort
  BY DEF NoMessage, Message, Ports
<1> HIDE DEF m
<1>2. /\ manager' = Append(manager, m)
      /\ UNCHANGED <<s_workers, wpc, port, portTable, state, online, spc, amsg, msgList>>
      /\ isOpen' = [isOpen EXCEPT ![PingPort] = TRUE]
  BY DEF PingServer, m, server, world, workers
<1>3. PICK n \in Nat : /\ DOMAIN manager' = DOMAIN manager \cup {n}
                       /\ manager'[n] = m
                       /\ \A i \in DOMAIN manager : i < n /\ manager'[i] = manager[i]
  BY <1>1, <1>2, AppendedMessage
<1>4. Started' = Started /\ \A w \in Started : w # PingPort /\ w \in Ports
  BY <1>2, StartedSessions DEF Started
<1>5. Berths'
  BY <1>2, <1>4 DEF Rest, Berths, TypeOK
<1>6. /\ \A x : Sent(x)' <=> Sent(x)
      /\ \A w \in Started : /\ Asked(w)' => Asked(w)
                            /\ Held(w)' <=> Held(w)
                            /\ Accepted(w)' => Accepted(w)
      /\ \A s \in Slots : Vacant(s)' <=> Vacant(s)
  BY <1>1, <1>2, <1>3, <1>4 DEF Sent, Asked, Held, Accepted, Vacant
<1>7. Post'
  <2>1. /\ \A i \in DOMAIN manager' :
              /\ Sent(manager[i])'
              /\ manager'[i].type # "ping"
                    => manager'[i].sender = SlotOf(manager'[i].session)
        /\ SentOnce'
    BY <1>1, <1>2, <1>3, <1>6 DEF Rest, Post, SentOnce, Sent
  <2> QED BY <1>2, <1>4, <1>6, <2>1 DEF Rest, Post
<1>8. Slates'
  BY <1>1, <1>2, <1>3, <1>4, <1>6 DEF Rest, Slates, Frees
<1>9. Tally'
  BY <1>1, <1>2, <1>3, <1>4 DEF Rest, Tally
<1> QED BY <1>5, <1>7, <1>8, <1>9 DEF Rest

-----------------------------------------------------------------------------
LEMMA WorkerMoves ==
  ASSUME TypeOK, NEW w \in Started, NEW x, wpc' = [wpc EXCEPT ![w] = x],
         UNCHANGED s_workers
  PROVE  /\ Started' = Started
         /\ wpc'[w] = x
         /\ \A v \in Started : v # w => wpc'[v] = wpc[v]
  BY DEF TypeOK, Started

\* At most one session of a slot is under way.
LEMMA OneUnderWay ==
  ASSUME TypeOK, Crew, NEW w \in Started, wpc[w] # "done",
         NEW v \in Started, v # w, SlotOf(v) = SlotOf(w)
  PROVE  SlotOf(v) = PlayerSlot /\ wpc[v] = "done" /\ v < w
<1>1. SlotOf(v) = PlayerSlot /\ IsPlayer(v) /\ IsPlayer(w)
  BY SlotsApart, StartedPlayer
<1>2. v \in Nat /\ w \in Nat
  BY StartedSessions
<1> QED BY <1>1, <1>2 DEF Crew

LEMMA ConnectRest ==
  ASSUME TypeOK, Crew, Rest, NEW w \in Started, ConnectToServer(w)
  PROVE  Rest'
<1>m. PICK m : m = From(w, "connect", port[w])
  OBVIOUS
<1>0. port[w] = w /\ s_workers[w] = SlotOf(w) /\ w \in Ports /\ w # None
  BY StartedSessions, StartedPlayer DEF Rest, Berths
<1>1. /\ m \in Message /\ m.type = "connect" /\ m.session = w
      /\ m.reply = w /\ m.sender = SlotOf(w)
  BY <1>0, <1>m, FromFields, FromMessage
<1>2. /\ manager' = Append(manager, m)
      /\ wpc[w] = "start" /\ wpc' = [wpc EXCEPT ![w] = "wait"]
      /\ UNCHANGED <<s_workers, port, portTable, isOpen, state, online, spc, amsg,
                     msgList>>
  BY <1>m DEF ConnectToServer, Send, Work, system, main, server, world
<1>3. PICK n \in Nat : /\ DOMAIN manager' = DOMAIN manager \cup {n}
                       /\ manager'[n] = m
                       /\ \A i \in DOMAIN manager : i < n /\ manager'[i] = manager[i]
  BY <1>1, <1>2, AppendedMessage
<1>4. /\ Started' = Started /\ wpc'[w] = "wait"
      /\ \A v \in Started : v # w => wpc'[v] = wpc[v]
  BY <1>2, WorkerMoves
<1>5. Berths'
  BY <1>2, <1>4 DEF Rest, Berths
<1>6. \A x : Sent(x) => Sent(x)' /\ x.session # w
  BY <1>0, <1>2, <1>4 DEF Sent
<1>7. /\ ~Asked(w) /\ ~Held(w) /\ msgList[w] = <<>>
      /\ \A v \in Started : /\ Asked(v)' => Asked(v) \/ v = w
                            /\ Held(v)' <=> Held(v)
                            /\ Accepted(v)' => Accepted(v)
  <2>1. ~Asked(w) /\ ~Held(w) /\ msgList[w] = <<>>
    BY <1>2, <1>6 DEF Asked, Held, Rest, Post
  <2>2. \A v \in Started : (Asked(v)' => Asked(v) \/ v = w) /\ (Held(v)' <=> Held(v))
    BY <1>1, <1>2, <1>3 DEF Asked, Held
  <2> QED BY <1>2, <1>4, <2>1, <2>2 DEF Accepted
<1>8. Post'
  <2>1. Sent(m)'
    BY <1>1, <1>4 DEF Sent
  <2>2. /\ \A i \in DOMAIN manager' :
              /\ Sent(manager[i])'
              /\ manager'[i].type # "ping"
                    => manager'[i].sender = SlotOf(manager'[i].session)
        /\ SentOnce'
    BY <1>1, <1>3, <1>6, <2>1 DEF Rest, Post, SentOnce
  <2>3. spc' = "reply" => /\ Sent(amsg)'
                          /\ amsg'.type = "connect"
                                => amsg'.sender = SlotOf(amsg'.session)
    BY <1>2, <1>6 DEF Rest, Post
  <2> QED BY <1>2, <1>4, <1>7, <2>2, <2>3 DEF Rest, Post, Granted
<1>9. Slates'
  <2>1. Vacant(SlotOf(w))
    BY <1>2, OneUnderWay DEF Vacant
  <2>2. /\ \A s : ~Frees(n, s)'
        /\ \A s : \A i \in DOMAIN manager : Frees(i, s)' <=> Frees(i, s)
    BY <1>1, <1>3 DEF Frees
  <2>3. \A v \in Started' : Accepted(v)' =>
           /\ state'[SlotOf(v)] = "LOGGING"
           /\ \A i \in DOMAIN manager' : ~Frees(i, SlotOf(v))'
    BY <1>2, <1>3, <1>4, <1>7, <2>2 DEF Rest, Slates
  <2>4. ASSUME NEW i \in DOMAIN manager', manager'[i].type = "connect"
        PROVE  /\ \/ state'[manager'[i].sender] = "OFFLINE"
                  \/ \E j \in DOMAIN manager' : j < i /\ Frees(j, manager[i].sender)'
               /\ \A j \in DOMAIN manager' : Frees(j, manager[i].sender)' => j < i
    <3>1. CASE i = n
      BY <1>1, <1>2, <1>3, <2>1, <2>2, <3>1, SlotsApart DEF Rest, Slates
    <3>2. CASE i \in DOMAIN manager
      BY <1>2, <1>3, <2>2, <2>4, <3>2 DEF Rest, Slates
    <3> QED BY <1>3, <3>1, <3>2
  <2>5. \A s \in Slots : Vacant(s)' => Vacant(s)
    BY <1>2, <1>4 DEF Vacant
  <2>6. \A s \in Slots : Vacant(s)' => \/ state'[s] = "OFFLINE"
                                       \/ \E j \in DOMAIN manager' : Frees(j, s)'
    BY <1>2, <1>3, <2>2, <2>5 DEF Rest, Slates
  <2>7. \A i \in DOMAIN manager' : manager'[i].type = "disconnect" =>
           \A v \in Started' : v > manager'[i].session => wpc'[v] \in {"start", "wait"}
    BY <1>1, <1>3, <1>4 DEF Rest, Slates
  <2> QED BY <2>3, <2>4, <2>6, <2>7 DEF Slates
<1>10. Tally'
  BY <1>1, <1>2, <1>3, <1>4 DEF Rest, Tally
<1> QED BY <1>5, <1>8, <1>9, <1>10 DEF Rest

LEMMA EnterRest ==
  ASSUME TypeOK, Crew, Rest, NEW w \in Started, EnterGame(w)
  PROVE  Rest'
<1>m. PICK m : m = From(w, "busy", None)
  OBVIOUS
<1>0. port[w] = w /\ s_workers[w] = SlotOf(w) /\ w # None
  BY StartedSessions, StartedPlayer DEF Rest, Berths
<1>1. /\ m \in Message /\ m.type = "busy" /\ m.session = w
      /\ m.reply = None /\ m.sender = SlotOf(w)
  BY <1>0, <1>m, FromFields, FromMessage
<1>2. /\ manager' = Append(manager, m)
      /\ wpc[w] = "enter" /\ wpc' = [wpc EXCEPT ![w] = "run"]
      /\ UNCHANGED <<s_workers, port, portTable, isOpen, state, online, spc, amsg,
                     msgList>>
  BY <1>m DEF EnterGame, Send, Work, system, main, server, world
<1>3. PICK n \in Nat : /\ DOMAIN manager' = DOMAIN manager \cup {n}
                       /\ manager'[n] = m
                       /\ \A i \in DOMAIN manager : i < n /\ manager'[i] = manager[i]
  BY <1>1, <1>2, AppendedMessage
<1>4. /\ Started' = Started /\ wpc'[w] = "run"
      /\ \A v \in Started : v # w => wpc'[v] = wpc[v]
  BY <1>2, WorkerMoves
<1>5. Berths'
  BY <1>2, <1>4 DEF Rest, Berths
<1>6. \A x : Sent(x) => Sent(x)' /\ x.session # w
  BY <1>0, <1>2, <1>4 DEF Sent
<1>7. \A v \in Started : /\ Asked(v)' <=> Asked(v)
                         /\ Held(v)' <=> Held(v)
                         /\ Accepted(v)' <=> Accepted(v)
  <2>1. \A v \in Started : (Asked(v)' <=> Asked(v)) /\ (Held(v)' <=> Held(v))
    BY <1>1, <1>2, <1>3 DEF Asked, Held
  <2> QED BY <1>2, <1>4, <2>1 DEF Accepted
<1>8. Post'
  <2>1. Sent(m)'
    BY <1>1, <1>4 DEF Sent
  <2>2. /\ \A i \in DOMAIN manager' :
              /\ Sent(manager[i])'
              /\ manager'[i].type # "ping"
                    => manager'[i].sender = SlotOf(manager'[i].session)
        /\ SentOnce'
    BY <1>1, <1>3, <1>6, <2>1 DEF Rest, Post, SentOnce
  <2>3. spc' = "reply" => /\ Sent(amsg)'
                          /\ amsg'.type = "connect"
                                => amsg'.sender = SlotOf(amsg'.session)
    BY <1>2, <1>6 DEF Rest, Post
  <2> QED BY <1>2, <1>4, <1>7, <2>2, <2>3 DEF Rest, Post, Granted
<1>9. Slates'
  <2>1. /\ \A s : ~Frees(n, s)'
        /\ \A s : \A i \in DOMAIN manager : Frees(i, s)' <=> Frees(i, s)
        /\ \A s \in Slots : Vacant(s)' => Vacant(s)
    BY <1>1, <1>2, <1>3, <1>4 DEF Frees, Vacant
  <2>2. /\ \A v \in Started' : Accepted(v)' =>
              /\ state'[SlotOf(v)] = "LOGGING"
              /\ \A i \in DOMAIN manager' : ~Frees(i, SlotOf(v))'
        /\ \A s \in Slots : Vacant(s)' => \/ state'[s] = "OFFLINE"
                                          \/ \E j \in DOMAIN manager' : Frees(j, s)'
    BY <1>2, <1>3, <1>4, <1>7, <2>1 DEF Rest, Slates
  <2>3. ASSUME NEW i \in DOMAIN manager', manager'[i].type = "connect"
        PROVE  /\ \/ state'[manager'[i].sender] = "OFFLINE"
                  \/ \E j \in DOMAIN manager' : j < i /\ Frees(j, manager[i].sender)'
               /\ \A j \in DOMAIN manager' : Frees(j, manager[i].sender)' => j < i
    BY <1>1, <1>2, <1>3, <2>1, <2>3 DEF Rest, Slates
  <2>4. \A i \in DOMAIN manager' : manager'[i].type = "disconnect" =>
           \A v \in Started' : v > manager'[i].session => wpc'[v] \in {"start", "wait"}
    BY <1>1, <1>2, <1>3, <1>4 DEF Rest, Slates
  <2> QED BY <2>2, <2>3, <2>4 DEF Slates
<1>10. Tally'
  BY <1>1, <1>2, <1>3, <1>4 DEF Rest, Tally
<1> QED BY <1>5, <1>8, <1>9, <1>10 DEF Rest

LEMMA LeaveRest ==
  ASSUME TypeOK, Crew, Rest, NEW w \in Started, LeaveGame(w)
  PROVE  Rest'
<1>m. PICK m : m = From(w, "disconnect", port[w])
  OBVIOUS
<1>0. /\ port[w] = w /\ s_workers[w] = SlotOf(w) /\ w \in Ports /\ w # None
      /\ SlotOf(w) = PlayerSlot /\ IsPlayer(w)
  BY StartedSessions, StartedPlayer DEF Rest, Berths, LeaveGame
<1>1. /\ m \in Message /\ m.type = "disconnect" /\ m.session = w
      /\ m.reply = w /\ m.sender = SlotOf(w)
  BY <1>0, <1>m, FromFields, FromMessage
<1>2. /\ manager' = Append(manager, m)
      /\ wpc[w] = "run" /\ wpc' = [wpc EXCEPT ![w] = "down"]
      /\ UNCHANGED <<s_workers, port, portTable, isOpen, state, online, spc, amsg,
                     msgList>>
  BY <1>m DEF LeaveGame, Send, Work, system, main, server, world
<1>3. PICK n \in Nat : /\ DOMAIN manager' = DOMAIN manager \cup {n}
                       /\ manager'[n] = m
                       /\ \A i \in DOMAIN manager : i < n /\ manager'[i] = manager[i]
  BY <1>1, <1>2, AppendedMessage
<1>4. /\ Started' = Started /\ wpc'[w] = "down"
      /\ \A v \in Started : v # w => wpc'[v] = wpc[v]
  BY <1>2, WorkerMoves
<1>5. Berths'
  BY <1>2, <1>4 DEF Rest, Berths
<1>6. \A x : Sent(x) => /\ Sent(x)'
                        /\ x.session = w => x.type = "busy"
                        /\ x.type = "connect" =>
                              x.session \in Started /\ wpc[x.session] = "wait"
  BY <1>0, <1>2, <1>4 DEF Sent
<1>7. \A v \in Started : /\ Asked(v)' <=> Asked(v)
                         /\ Held(v)' <=> Held(v)
                         /\ Held(v) => wpc[v] = "wait"
                         /\ Accepted(v)' => Accepted(v) /\ v # w
  <2>1. \A v \in Started : (Asked(v)' <=> Asked(v)) /\ (Held(v)' <=> Held(v))
    BY <1>1, <1>2, <1>3 DEF Asked, Held
  <2>2. \A v \in Started : Held(v) => wpc[v] = "wait"
    BY <1>6 DEF Held, Rest, Post
  <2> QED BY <1>2, <1>4, <2>1, <2>2 DEF Accepted
\* Nobody else of the players' slot is connected or asks to be.
<1>a. \A v \in Started : v # w /\ wpc[v] # "done" => SlotOf(v) # SlotOf(w)
  BY <1>2, OneUnderWay
<1>8. Post'
  <2>1. Sent(m)'
    BY <1>0, <1>1, <1>4 DEF Sent
  <2>2. /\ \A i \in DOMAIN manager' :
              /\ Sent(manager[i])'
              /\ manager'[i].type # "ping"
                    => manager'[i].sender = SlotOf(manager'[i].session)
        /\ SentOnce'
    BY <1>1, <1>3, <1>6, <2>1 DEF Rest, Post, SentOnce
  <2>3. spc' = "reply" => /\ Sent(amsg)'
                          /\ amsg'.type = "connect"
                                => amsg'.sender = SlotOf(amsg'.session)
    BY <1>2, <1>6 DEF Rest, Post
  <2> QED BY <1>2, <1>4, <1>7, <2>2, <2>3 DEF Rest, Post, Granted
<1>9. Slates'
  <2>1. /\ \A s : Frees(n, s)' <=> s = SlotOf(w)
        /\ \A s : \A i \in DOMAIN manager : Frees(i, s)' <=> Frees(i, s)
    BY <1>1, <1>3 DEF Frees
  <2>2. \A v \in Started' : Accepted(v)' =>
              /\ state'[SlotOf(v)] = "LOGGING"
              /\ \A i \in DOMAIN manager' : ~Frees(i, SlotOf(v))'
    <3>1. \A v \in Started : Accepted(v)' => Accepted(v) /\ SlotOf(v) # SlotOf(w)
      BY <1>7, <1>a DEF Accepted
    <3> QED BY <1>2, <1>3, <1>4, <2>1, <3>1 DEF Rest, Slates
  <2>3. ASSUME NEW i \in DOMAIN manager', manager'[i].type = "connect"
        PROVE  /\ \/ state'[manager'[i].sender] = "OFFLINE"
                  \/ \E j \in DOMAIN manager' : j < i /\ Frees(j, manager[i].sender)'
               /\ \A j \in DOMAIN manager' : Frees(j, manager[i].sender)' => j < i
    <3>1. i \in DOMAIN manager /\ manager'[i] = manager[i]
      BY <1>1, <1>3, <2>3
    <3>2. manager[i].sender # SlotOf(w)
      BY <1>2, <1>6, <1>a, <2>3, <3>1 DEF Rest, Post
    <3> QED BY <1>2, <1>3, <2>1, <2>3, <3>1, <3>2 DEF Rest, Slates
  <2>4. \A s \in Slots : Vacant(s)' => \/ state'[s] = "OFFLINE"
                                       \/ \E j \in DOMAIN manager' : Frees(j, s)'
    <3>1. \A s \in Slots : s # SlotOf(w) /\ Vacant(s)' => Vacant(s)
      BY <1>4 DEF Vacant
    <3> QED BY <1>2, <1>3, <2>1, <3>1 DEF Rest, Slates
  <2>5. ASSUME NEW i \in DOMAIN manager', manager'[i].type = "disconnect",
               NEW v \in Started', v > manager'[i].session
        PROVE  wpc'[v] \in {"start", "wait"}
    <3>1. CASE i = n
      <4>1. v > w /\ v \in Started
        BY <1>1, <1>3, <1>4, <2>5, <3>1
      <4> QED BY <1>0, <1>2, <4>1, StartedSessions DEF Crew
    <3>2. CASE i \in DOMAIN manager
      BY <1>2, <1>3, <1>4, <2>5, <3>2 DEF Rest, Slates
    <3> QED BY <1>3, <3>1, <3>2
  <2> QED BY <2>2, <2>3, <2>4, <2>5 DEF Slates
<1>10. Tally'
  BY <1>0, <1>1, <1>2, <1>3, <1>4 DEF Rest, Tally
<1> QED BY <1>5, <1>8, <1>9, <1>10 DEF Rest

LEMMA OnlyMessage ==
  ASSUME NEW S, NEW q \in Seq(S), q # <<>>, Len(q) <= 1
  PROVE  /\ Len(q) = 1 /\ Tail(q) = <<>>
         /\ 1 \in DOMAIN q /\ Head(q) = q[1]
<1>1. Len(q) = 1
  <2>1. Len(q) \in Nat \ {0}
    BY EmptySeq
  <2> QED BY <2>1
<1>2. Tail(q) \in Seq(S) /\ Len(Tail(q)) = 0
  BY <1>1, HeadTailProperties
<1>3. Tail(q) = <<>>
  BY <1>2, EmptySeq
<1> QED BY <1>1, <1>3

LEMMA AnswerRest ==
  ASSUME TypeOK, Crew, Rest, NEW w \in Started, ServerAnswers(w)
  PROVE  Rest'
<1>0. /\ port[w] = w /\ s_workers[w] = SlotOf(w) /\ w \in Ports /\ w \in Sessions
      /\ SlotOf(w) # None /\ wpc[w] = "wait" /\ msgList[w] # <<>>
  BY StartedSessions, StartedPlayer, SlotsApart DEF Rest, Berths, ServerAnswers
<1>1. Len(msgList[w]) = 1 /\ Head(msgList[w]).sender # None /\ Tail(msgList[w]) = <<>>
  <2>1. msgList[w] \in Seq(Message) /\ Len(msgList[w]) <= 1
    BY <1>0 DEF TypeOK, Rest, Post
  <2>2. /\ Len(msgList[w]) = 1 /\ Tail(msgList[w]) = <<>>
        /\ 1 \in DOMAIN msgList[w] /\ Head(msgList[w]) = msgList[w][1]
    BY <1>0, <2>1, OnlyMessage
  <2>3. Granted(msgList[w][1], w)
    BY <1>0, <2>2 DEF Rest, Post
  <2>4. Head(msgList[w]).sender # None
    BY <1>0, <2>2, <2>3 DEF Granted
  <2> QED BY <2>2, <2>4
<1>2. PICK x \in {"enter", "run"} : wpc' = [wpc EXCEPT ![w] = x]
  BY <1>0, <1>1 DEF ServerAnswers, Work
<1>3. /\ msgList' = [msgList EXCEPT ![w] = <<>>]
      /\ UNCHANGED <<s_workers, port, portTable, isOpen, state, online, spc, amsg,
                     manager>>
  BY <1>0, <1>1 DEF ServerAnswers, system, main, server, world
<1>4. /\ Started' = Started /\ wpc'[w] \in {"enter", "run"}
      /\ \A v \in Started : v # w => wpc'[v] = wpc[v]
  BY <1>2, <1>3, WorkerMoves
<1>5. /\ msgList'[w] = <<>>
      /\ \A v \in Started : v # w => msgList'[v] = msgList[v]
  BY <1>0, <1>3, StartedSessions DEF TypeOK
<1>6. ~Asked(w) /\ ~Held(w) /\ Accepted(w)
  BY <1>0 DEF Accepted, Rest, Post
<1>7. Berths'
  BY <1>0, <1>3, <1>4 DEF Rest, Berths
<1>8. /\ \A m : Sent(m) => Sent(m)' \/ (m.type = "connect" /\ m.session = w)
      /\ \A v \in Started : /\ Asked(v)' <=> Asked(v)
                            /\ Held(v)' <=> Held(v)
                            /\ Accepted(v)' => Accepted(v)
      /\ \A s \in Slots : Vacant(s)' => Vacant(s)
  <2>1. \A m : Sent(m) => Sent(m)' \/ (m.type = "connect" /\ m.session = w)
    BY <1>0, <1>3, <1>4 DEF Sent
  <2>2. \A v \in Started : (Asked(v)' <=> Asked(v)) /\ (Held(v)' <=> Held(v))
    BY <1>3 DEF Asked, Held
  <2>3. \A v \in Started : Accepted(v)' => Accepted(v)
    BY <1>4, <1>5, <1>6, <2>2 DEF Accepted
  <2>4. \A s \in Slots : Vacant(s)' => Vacant(s)
    BY <1>4 DEF Vacant
  <2> QED BY <2>1, <2>2, <2>3, <2>4
<1>9. Post'
  <2>1. /\ \A i \in DOMAIN manager' :
              /\ Sent(manager[i])'
              /\ manager'[i].type # "ping"
                    => manager'[i].sender = SlotOf(manager'[i].session)
        /\ SentOnce'
        /\ spc' = "reply" => /\ Sent(amsg)'
                             /\ amsg'.type = "connect"
                                   => amsg'.sender = SlotOf(amsg'.session)
    BY <1>3, <1>6, <1>8 DEF Rest, Post, SentOnce, Asked, Held
  <2>2. ASSUME NEW v \in Started
        PROVE  /\ Asked(v)' => ~Held(v)' /\ msgList'[v] = <<>>
               /\ Held(v)' => msgList'[v] = <<>>
               /\ wpc'[v] \in {"start", "enter", "run"} => msgList'[v] = <<>>
               /\ wpc'[v] = "wait" =>
                     /\ Len(msgList'[v]) <= 1
                     /\ \A i \in DOMAIN msgList'[v] : Granted(msgList'[v][i], v)
               /\ \A i \in DOMAIN msgList'[v] :
                     msgList'[v][i].type = "connect" => msgList'[v][i].sender # None
    <3>1. CASE v = w
      BY <1>4, <1>5, <1>6, <1>8, <3>1
    <3>2. CASE v # w
      BY <1>4, <1>5, <1>8, <3>2 DEF Rest, Post
    <3> QED BY <3>1, <3>2
  <2> QED BY <1>4, <2>1, <2>2 DEF Post, Granted
<1>10. Slates'
  <2>1. \A i \in DOMAIN manager : manager[i].type = "disconnect"
                                     => ~(w > manager[i].session)
    <3> SUFFICES ASSUME NEW i \in DOMAIN manager, manager[i].type = "disconnect",
                        w > manager[i].session
                 PROVE  FALSE
      OBVIOUS
    <3>1. /\ manager[i].session \in Started /\ IsPlayer(manager[i].session)
          /\ manager[i].sender = SlotOf(manager[i].session)
      BY DEF Rest, Post, Sent
    <3>2. IsPlayer(w)
      BY <3>1, StartedSessions DEF IsPlayer
    <3>3. Frees(i, SlotOf(w))
      BY <3>1, <3>2, StartedPlayer DEF Frees
    <3> QED BY <1>6, <3>3 DEF Rest, Slates
  <2> QED BY <1>3, <1>4, <1>8, <2>1 DEF Rest, Slates, Frees
<1>11. Tally'
  BY <1>0, <1>3, <1>4 DEF Rest, Tally
<1> QED BY <1>7, <1>9, <1>10, <1>11 DEF Rest

\* A worker that ends leaves nothing that was not already as good as ended.
LEMMA EndRest ==
  ASSUME TypeOK, Crew, Rest, NEW w \in Started,
         \/ wpc[w] = "run" /\ ~IsPlayer(w)
         \/ wpc[w] = "down" /\ IsPlayer(w),
         wpc' = [wpc EXCEPT ![w] = "done"],
         UNCHANGED <<s_workers, port, state, online, spc, amsg, manager, msgList>>
  PROVE  Post' /\ Slates' /\ Tally'
<1>1. /\ Started' = Started /\ wpc'[w] = "done"
      /\ \A v \in Started : v # w => wpc'[v] = wpc[v]
  BY WorkerMoves
<1>2. /\ \A m : Sent(m) => Sent(m)'
      /\ \A v \in Started : /\ Asked(v)' <=> Asked(v)
                            /\ Held(v)' <=> Held(v)
                            /\ Accepted(v)' => Accepted(v)
  BY <1>1 DEF Sent, Asked, Held, Accepted
<1>3. \A s \in Slots : Vacant(s)' => Vacant(s)
  <2>1. IsPlayer(w) <=> SlotOf(w) = PlayerSlot
    BY StartedPlayer
  <2> QED BY <1>1, <2>1 DEF Vacant
<1>4. Post'
  <2>1. /\ \A i \in DOMAIN manager' :
              /\ Sent(manager[i])'
              /\ manager'[i].type # "ping"
                    => manager'[i].sender = SlotOf(manager'[i].session)
        /\ SentOnce'
        /\ spc' = "reply" => /\ Sent(amsg)'
                             /\ amsg'.type = "connect"
                                   => amsg'.sender = SlotOf(amsg'.session)
    BY <1>2 DEF Rest, Post, SentOnce
  <2> QED BY <1>1, <1>2, <2>1 DEF Rest, Post, Granted
<1>5. Slates'
  BY <1>1, <1>2, <1>3 DEF Rest, Slates, Frees
<1>6. Tally'
  BY <1>1 DEF Rest, Tally
<1> QED BY <1>4, <1>5, <1>6

LEMMA ProcessorRest ==
  ASSUME TypeOK, Crew, Rest, NEW w \in Started, ProcessorEnds(w)
  PROVE  Rest'
<1>1. /\ ~IsPlayer(w) /\ SlotOf(w) # PlayerSlot
      /\ wpc[w] = "run" /\ wpc' = [wpc EXCEPT ![w] = "done"]
      /\ UNCHANGED <<s_workers, port, portTable, isOpen, state, online, spc, amsg,
                     manager, msgList>>
  BY StartedPlayer
     DEF ProcessorEnds, Work, system, main, server, world, mail
<1>2. /\ Started' = Started /\ wpc'[w] = "done"
      /\ \A v \in Started : v # w => wpc'[v] = wpc[v]
  BY <1>1, WorkerMoves
<1>3. Berths'
  BY <1>1, <1>2 DEF Rest, Berths
<1>4. Post' /\ Slates' /\ Tally'
  BY <1>1, EndRest
<1> QED BY <1>3, <1>4 DEF Rest

LEMMA DownRest ==
  ASSUME TypeOK, Crew, Rest, NEW w \in Started, PlayerClientDown(w)
  PROVE  Rest'
<1>1. /\ port[w] = w /\ wpc[w] = "down" /\ wpc' = [wpc EXCEPT ![w] = "done"]
      /\ UNCHANGED <<s_workers, port, state, online, spc, amsg, manager, msgList>>
  BY DEF PlayerClientDown, Work, system, main, server, world, Rest, Berths
<1>2. IsPlayer(w)
  BY <1>1 DEF Crew
<1>3. /\ Started' = Started /\ wpc'[w] = "done"
      /\ \A v \in Started : v # w => wpc'[v] = wpc[v]
  BY <1>1, WorkerMoves
<1>4. /\ \A v \in Started : v # w => isOpen'[v] = isOpen[v]
      /\ \A s \in Slots : portTable'[s] # None
            => portTable'[s] = portTable[s] /\ portTable[s] # w
  BY <1>1, StartedSessions DEF PlayerClientDown, TypeOK
<1>5. Berths'
  BY <1>1, <1>3, <1>4 DEF Rest, Berths
<1>6. Post' /\ Slates' /\ Tally'
  BY <1>1, <1>2, EndRest
<1> QED BY <1>5, <1>6 DEF Rest

-----------------------------------------------------------------------------
LEMMA ReplyRest ==
  ASSUME TypeOK, Crew, Rest, KernelReply
  PROVE  Rest'
<1>1. /\ spc = "reply" /\ spc' = "serve" /\ Sent(amsg) /\ amsg \in Message
      /\ amsg.type = "connect" => amsg.sender = SlotOf(amsg.session)
      /\ UNCHANGED <<s_workers, wpc, port, portTable, isOpen, state, online, manager>>
      /\ msgList' = IF amsg.reply # None /\ isOpen[amsg.reply]
                      THEN [msgList EXCEPT ![amsg.reply] = Append(@, amsg)]
                      ELSE msgList
  BY DEF KernelReply, Serve, TypeOK, Rest, Post, system, main, world, workers
<1>2. CASE amsg.type \in {"ping", "busy"}
  <2>1. amsg.reply \in {PingPort, None} /\ PingPort \notin Sessions
    BY <1>1, <1>2 DEF Sent, Sessions, PingPort
  <2>2. \A w \in Sessions : msgList'[w] = msgList[w]
    BY <1>1, <2>1 DEF TypeOK
  <2>3. Quiet
    BY <1>1, <2>2 DEF Quiet
  <2> QED BY <2>3, QuietStep DEF Rest
<1>3. CASE amsg.type \in {"connect", "disconnect"}
  <2>1. PICK u \in Started : amsg.session = u /\ amsg.reply = u
    BY <1>1, <1>3 DEF Sent
  <2>2. /\ \/ amsg.type = "connect" /\ wpc[u] = "wait"
           \/ amsg.type = "disconnect" /\ wpc[u] \in {"down", "done"}
        /\ u # None /\ u \in Sessions /\ u \in Ports
    BY <1>1, <1>3, <2>1, StartedSessions DEF Sent
  <2>3. /\ \A v \in Started : v # u => msgList'[v] = msgList[v]
        /\ \/ msgList'[u] = msgList[u] /\ amsg.type = "disconnect"
           \/ msgList'[u] = Append(msgList[u], amsg)
    BY <1>1, <2>1, <2>2, StartedSessions DEF TypeOK, Rest, Berths
  <2>4. Started' = Started
    BY <1>1 DEF Started
  <2>5. /\ \A x : Sent(x)' <=> Sent(x)
        /\ \A v \in Started : /\ Asked(v)' <=> Asked(v)
                              /\ ~Held(v)'
                              /\ Asked(v) => wpc[v] = "wait"
                              /\ Accepted(v)' => Accepted(v)
        /\ ~Asked(u) /\ (amsg.type = "connect" => Held(u) /\ msgList[u] = <<>>)
    <3>1. /\ \A x : Sent(x)' <=> Sent(x)
          /\ \A v \in Started : (Asked(v)' <=> Asked(v)) /\ ~Held(v)'
      BY <1>1, <2>4 DEF Sent, Asked, Held
    <3>2. \A v \in Started : Asked(v) => wpc[v] = "wait"
      BY DEF Asked, Rest, Post, Sent
    <3>3. amsg.type = "connect" => Held(u)
      BY <1>1, <2>1 DEF Held
    <3>4. ~Asked(u) /\ (Held(u) => msgList[u] = <<>>)
      BY <2>2, <3>2, <3>3 DEF Rest, Post
    <3>5. \A v \in Started : Accepted(v)' => Accepted(v)
      BY <1>1, <2>2, <2>3, <3>1, <3>3 DEF Accepted
    <3> QED BY <3>1, <3>2, <3>3, <3>4, <3>5
  <2>6. Berths'
    BY <1>1, <2>4 DEF Rest, Berths
  <2>7. Post'
    <3>1. /\ \A i \in DOMAIN manager' :
                /\ Sent(manager[i])'
                /\ manager'[i].type # "ping"
                      => manager'[i].sender = SlotOf(manager'[i].session)
          /\ SentOnce'
      BY <1>1, <2>5 DEF Rest, Post, SentOnce
    <3>2. ASSUME NEW v \in Started
          PROVE  /\ Asked(v)' => ~Held(v)' /\ msgList'[v] = <<>>
                 /\ wpc'[v] \in {"start", "enter", "run"} => msgList'[v] = <<>>
                 /\ wpc'[v] = "wait" =>
                       /\ Len(msgList'[v]) <= 1
                       /\ \A i \in DOMAIN msgList'[v] : Granted(msgList'[v][i], v)
                 /\ \A i \in DOMAIN msgList'[v] :
                       msgList'[v][i].type = "connect" => msgList'[v][i].sender # None
      <4>1. CASE v # u
        <5>1. msgList'[v] = msgList[v] /\ wpc'[v] = wpc[v] /\ (Asked(v)' <=> Asked(v))
          BY <1>1, <2>3, <2>5, <4>1
        <5>2. ~Held(v)'
          BY <2>5
        <5> QED BY <5>1, <5>2 DEF Rest, Post
      <4>2. CASE v = u /\ amsg.type = "connect"
        <5>1. msgList'[v] = <<amsg>>
          BY <2>2, <2>3, <2>5, <4>2
        <5>2. Granted(amsg, v) /\ amsg.sender # None
          BY <1>1, <2>1, <4>2, SlotsApart DEF Granted
        <5>3. /\ Len(msgList'[v]) <= 1
              /\ \A i \in DOMAIN msgList'[v] : msgList'[v][i] = amsg
          BY <5>1
        <5>4. wpc'[v] = "wait" /\ ~Asked(v)'
          BY <1>1, <2>2, <2>5, <4>2
        <5> QED BY <5>2, <5>3, <5>4
      <4>3. CASE v = u /\ amsg.type = "disconnect"
        <5>1. PICK q \in Seq(Message) : q = msgList[u]
          BY <2>2 DEF TypeOK
        <5>2. msgList'[u] = q \/ msgList'[u] = Append(q, amsg)
          BY <2>3, <5>1
        <5>3. \A i \in DOMAIN q : q[i].type = "connect" => q[i].sender # None
          BY <5>1 DEF Rest, Post
        <5>4. \A i \in DOMAIN Append(q, amsg) :
                 (i \in DOMAIN q /\ Append(q, amsg)[i] = q[i]) \/ Append(q, amsg)[i] = amsg
          BY <1>1, <5>1
        <5>5. \A i \in DOMAIN msgList'[u] :
                 msgList'[u][i].type = "connect" => msgList'[u][i].sender # None
          BY <4>3, <5>2, <5>3, <5>4
        <5> QED BY <1>1, <2>2, <2>5, <4>3, <5>5
      <4> QED BY <2>2, <4>1, <4>2, <4>3
    <3> QED BY <1>1, <2>4, <2>5, <3>1, <3>2 DEF Post, Granted
  <2>8. Slates'
    BY <1>1, <2>4, <2>5 DEF Rest, Slates, Frees, Vacant
  <2>9. Tally'
    BY <1>1, <2>4 DEF Rest, Tally
  <2> QED BY <2>6, <2>7, <2>8, <2>9 DEF Rest
<1> QED BY <1>1, <1>2, <1>3 DEF Message

\* What Dispatch does with the first message, when the slots are as they say.
LEMMA Dispatched ==
  ASSUME TypeOK, Crew, Rest, ServeMessage
  PROVE  /\ manager # <<>> /\ manager' = Tail(manager)
         /\ spc = "serve" /\ spc' = "reply"
         /\ UNCHANGED <<s_workers, wpc, port, portTable, isOpen, msgList>>
         /\ amsg'.type = manager[1].type /\ amsg'.session = manager[1].session
         /\ amsg'.reply = manager[1].reply
         /\ manager[1].type = "connect" => amsg'.sender = manager[1].sender
         /\ \A s \in Slots :
               state'[s] = IF s = manager[1].sender /\ manager[1].type = "connect"
                             THEN "LOGGING"
                           ELSE IF Frees(1, s) THEN "OFFLINE" ELSE state[s]
         /\ online' \in Int
         /\ \/ online' = online
            \/ online' = online - 1 /\ manager[1].type = "disconnect"
<1> DEFINE m == manager[1]
<1>1. /\ manager # <<>> /\ manager' = Tail(manager) /\ 1 \in DOMAIN manager
      /\ spc = "serve" /\ spc' = "reply" /\ Dispatch(m)
      /\ UNCHANGED <<s_workers, wpc, port, portTable, isOpen, msgList>>
  BY ServedMessage DEF ServeMessage, Serve, system, main, workers
<1>2. m \in Message /\ m.type \in {"ping", "connect", "disconnect", "busy"}
  <2>1. manager \in Seq(Message)
    BY DEF TypeOK
  <2>2. m \in Message
    BY <1>1, <2>1
  <2> QED BY <2>2 DEF Message
<1>3. m.type # "ping" => m.sender \in Slots
  BY <1>1, SlotsApart DEF Rest, Post
<1>4. m.type = "connect" => state[m.sender] = "OFFLINE"
  <2>1. \A j \in DOMAIN manager : ~(j < 1)
    BY <1>1, ServedMessage
  <2>2. m.type = "connect" =>
          \/ state[m.sender] = "OFFLINE"
          \/ \E j \in DOMAIN manager : j < 1 /\ Frees(j, m.sender)
    BY <1>1 DEF Rest, Slates
  <2> QED BY <2>1, <2>2
<1>5. online \in Int /\ state \in [Slots -> {"OFFLINE", "LOGGING"}]
  BY DEF TypeOK, Rest, Tally
<1> HIDE DEF m
<1>6. CASE m.type = "ping"
  BY <1>1, <1>5, <1>6 DEF Dispatch, world, Frees, m
<1>7. CASE m.type = "connect"
  BY <1>1, <1>2, <1>3, <1>4, <1>5, <1>7 DEF Dispatch, Connect, Frees, m
<1>8. CASE m.type = "disconnect"
  <2>1. Disconnect(m)
    BY <1>1, <1>8 DEF Dispatch
  <2>2. /\ amsg' = [m EXCEPT !.sender = None]
        /\ state' = [state EXCEPT ![m.sender] = "OFFLINE"]
        /\ online' \in {online, online - 1}
    BY <2>1 DEF Disconnect
  <2>3. amsg'.type = m.type /\ amsg'.session = m.session /\ amsg'.reply = m.reply
    BY <1>2, <2>2 DEF Message
  <2>4. \A s \in Slots : state'[s] = IF s = m.sender THEN "OFFLINE" ELSE state[s]
    BY <1>3, <1>5, <1>8, <2>2
  <2> QED BY <1>1, <1>5, <1>8, <2>2, <2>3, <2>4 DEF Frees, m
<1>9. CASE m.type = "busy"
  BY <1>1, <1>5, <1>9 DEF Dispatch, SetBusy, Frees, m
<1> QED BY <1>2, <1>6, <1>7, <1>8, <1>9

LEMMA ServeRest ==
  ASSUME TypeOK, Crew, Rest, ServeMessage
  PROVE  Rest'
<1>1. /\ 1 \in DOMAIN manager /\ DOMAIN manager \subseteq Nat
      /\ \A i \in DOMAIN manager' : /\ i \in Nat /\ i > 0
                                    /\ i + 1 \in DOMAIN manager
                                    /\ manager'[i] = manager[i + 1]
      /\ \A i \in DOMAIN manager : i # 1 => /\ i > 1 /\ i - 1 \in DOMAIN manager'
                                           /\ manager'[i - 1] = manager[i]
  BY Dispatched, ServedMessage
<1>2. /\ spc = "serve" /\ spc' = "reply"
      /\ UNCHANGED <<s_workers, wpc, port, portTable, isOpen, msgList>>
      /\ amsg'.type = manager[1].type /\ amsg'.session = manager[1].session
      /\ amsg'.reply = manager[1].reply
      /\ manager[1].type = "connect" => amsg'.sender = manager[1].sender
  BY Dispatched
<1>3. /\ \A s \in Slots :
            state'[s] = IF s = manager[1].sender /\ manager[1].type = "connect"
                          THEN "LOGGING"
                        ELSE IF Frees(1, s) THEN "OFFLINE" ELSE state[s]
      /\ online' \in Int
      /\ \/ online' = online
         \/ online' = online - 1 /\ manager[1].type = "disconnect"
  BY Dispatched
<1>4. Started' = Started /\ \A x : Sent(x)' <=> Sent(x)
  BY <1>2 DEF Started, Sent
<1>5. /\ \A i \in DOMAIN manager :
            /\ Sent(manager[i])
            /\ manager[i].type # "ping"
                  => manager[i].sender = SlotOf(manager[i].session)
      /\ SentOnce
  BY DEF Rest, Post
<1>6. \A v \in Started : /\ Asked(v)' => Asked(v)
                         /\ Held(v)' => Asked(v) /\ manager[1].type = "connect"
                                          /\ manager[1].session = v
                         /\ Held(v)' => ~Asked(v)'
                         /\ ~Held(v)
  <2>1. \A v \in Started : Asked(v)' => Asked(v)
    BY <1>1 DEF Asked
  <2>2. \A v \in Started : Held(v)' => /\ manager[1].type = "connect"
                                       /\ manager[1].session = v /\ Asked(v)
    BY <1>1, <1>2 DEF Asked, Held
  <2>3. \A v \in Started : Held(v)' => ~Asked(v)'
    <3> SUFFICES ASSUME NEW v \in Started, Held(v)', Asked(v)' PROVE FALSE
      OBVIOUS
    <3>1. PICK i \in DOMAIN manager' :
             manager'[i].type = "connect" /\ manager'[i].session = v
      BY DEF Asked
    <3>2. i + 1 \in DOMAIN manager /\ i + 1 # 1 /\ manager'[i] = manager[i + 1]
      BY <1>1, <3>1
    <3>3. manager[1].type = "connect" /\ manager[1].session = v /\ v # None
      BY <2>2, StartedSessions
    <3> QED BY <1>1, <1>5, <3>1, <3>2, <3>3 DEF SentOnce
  <2> QED BY <1>2, <2>1, <2>2, <2>3 DEF Held
<1>7. Berths'
  BY <1>2, <1>4 DEF Rest, Berths
<1>8. Post'
  <2>1. /\ \A i \in DOMAIN manager' :
              /\ Sent(manager[i])'
              /\ manager'[i].type # "ping"
                    => manager'[i].sender = SlotOf(manager'[i].session)
        /\ SentOnce'
    <3>1. \A i \in DOMAIN manager' : Sent(manager[i])'
      BY <1>1, <1>2, <1>5 DEF Sent, Started
    <3>2. SentOnce'
      BY <1>1, <1>5 DEF SentOnce
    <3> QED BY <1>1, <1>5, <3>1, <3>2
  <2>2. /\ Sent(amsg)'
        /\ amsg'.type = "connect" => amsg'.sender = SlotOf(amsg'.session)
    BY <1>1, <1>2, <1>4, <1>5 DEF Sent
  <2>3. ASSUME NEW v \in Started
        PROVE  /\ Asked(v)' => ~Held(v)' /\ msgList'[v] = <<>>
               /\ Held(v)' => msgList'[v] = <<>>
               /\ wpc'[v] \in {"start", "enter", "run"} => msgList'[v] = <<>>
               /\ wpc'[v] = "wait" =>
                     /\ Len(msgList'[v]) <= 1
                     /\ \A i \in DOMAIN msgList'[v] : Granted(msgList'[v][i], v)
               /\ \A i \in DOMAIN msgList'[v] :
                     msgList'[v][i].type = "connect" => msgList'[v][i].sender # None
    <3>1. msgList'[v] = msgList[v] /\ wpc'[v] = wpc[v]
      BY <1>2
    <3> QED BY <1>6, <3>1 DEF Rest, Post
  <2> QED BY <1>4, <2>1, <2>2, <2>3 DEF Post, Granted
\* A connection and a disconnection concern the slots of their sessions.
<1>9. /\ manager[1].type = "connect" =>
            /\ manager[1].session \in Started
            /\ wpc[manager[1].session] = "wait"
            /\ manager[1].sender = SlotOf(manager[1].session)
            /\ \A j \in DOMAIN manager : ~Frees(j, manager[1].sender)
  <2>1. \A j \in DOMAIN manager : ~(j < 1)
    BY <1>1
  <2> QED BY <1>1, <1>5, <2>1 DEF Rest, Slates, Sent
<1>10. \A s : \A i \in DOMAIN manager' : Frees(i, s)' <=> Frees(i + 1, s)
  BY <1>1 DEF Frees
<1>11. \A s \in Slots : (\E j \in DOMAIN manager : Frees(j, s)) =>
          \/ state'[s] = "OFFLINE"
          \/ \E j \in DOMAIN manager' : Frees(j, s)'
  BY <1>1, <1>3, <1>9, <1>10 DEF Frees
<1>12. Slates'
  <2>1. ASSUME NEW v \in Started, Accepted(v)'
        PROVE  /\ state'[SlotOf(v)] = "LOGGING"
               /\ \A i \in DOMAIN manager' : ~Frees(i, SlotOf(v))'
    <3>1. CASE Held(v)'
      <4>1. manager[1].type = "connect" /\ manager[1].sender = SlotOf(v)
        BY <1>6, <1>9, <3>1
      <4> QED BY <1>1, <1>3, <1>9, <1>10, <4>1, SlotsApart
    <3>2. CASE ~Held(v)'
      <4>1. Accepted(v)
        BY <1>2, <2>1, <3>2 DEF Accepted
      <4>2. state[SlotOf(v)] = "LOGGING" /\ \A i \in DOMAIN manager : ~Frees(i, SlotOf(v))
        BY <4>1 DEF Rest, Slates
      <4> QED BY <1>1, <1>3, <1>10, <4>2, SlotsApart
    <3> QED BY <3>1, <3>2
  <2>2. ASSUME NEW i \in DOMAIN manager', manager'[i].type = "connect"
        PROVE  /\ \/ state'[manager'[i].sender] = "OFFLINE"
                  \/ \E j \in DOMAIN manager' : j < i /\ Frees(j, manager[i].sender)'
               /\ \A j \in DOMAIN manager' : Frees(j, manager[i].sender)' => j < i
    <3>1. PICK k, w, s : /\ k = i + 1 /\ k \in DOMAIN manager /\ k # 1
                         /\ manager[k] = manager'[i] /\ k \in Nat /\ i \in Nat
                         /\ w = manager[k].session /\ s = manager[k].sender
      BY <1>1
    <3>2. /\ manager[k].type = "connect" /\ w \in Started /\ wpc[w] = "wait"
          /\ s = SlotOf(w) /\ s \in Slots
      BY <1>5, <2>2, <3>1, SlotsApart DEF Sent
    <3>3. /\ \/ state[s] = "OFFLINE"
             \/ \E j \in DOMAIN manager : j < k /\ Frees(j, s)
          /\ \A j \in DOMAIN manager : Frees(j, s) => j < k
      BY <3>1, <3>2 DEF Rest, Slates
    <3>4. \A j \in DOMAIN manager' : Frees(j, s)' => j < i
      BY <1>1, <1>10, <3>1, <3>3
    <3>5. CASE \E j \in DOMAIN manager : j < k /\ Frees(j, s)
      BY <1>1, <1>10, <1>11, <3>1, <3>2, <3>4, <3>5
    <3>6. CASE state[s] = "OFFLINE"
      <4>1. ~(manager[1].type = "connect" /\ manager[1].sender = s)
        <5> SUFFICES ASSUME manager[1].type = "connect", manager[1].sender = s
                     PROVE  FALSE
          OBVIOUS
        <5>1. manager[1].session # w
          BY <1>1, <1>5, <3>1, <3>2, StartedSessions DEF SentOnce
        <5> QED BY <1>9, <3>2, <5>1, OneUnderWay
      <4>2. state'[s] = "OFFLINE"
        BY <1>3, <3>2, <3>6, <4>1
      <4> QED BY <3>1, <3>4, <4>2
    <3> QED BY <3>3, <3>5, <3>6
  <2>3. ASSUME NEW s \in Slots, Vacant(s)'
        PROVE  \/ state'[s] = "OFFLINE"
               \/ \E j \in DOMAIN manager' : Frees(j, s)'
    <3>1. Vacant(s)
      BY <1>2, <1>4, <2>3 DEF Vacant
    <3>2. ~(manager[1].type = "connect" /\ manager[1].sender = s)
      BY <1>9, <3>1 DEF Vacant
    <3>3. CASE state[s] = "OFFLINE"
      BY <1>3, <3>2, <3>3
    <3>4. CASE \E j \in DOMAIN manager : Frees(j, s)
      BY <1>11, <3>4
    <3> QED BY <3>1, <3>3, <3>4 DEF Rest, Slates
  <2>4. \A i \in DOMAIN manager' : manager'[i].type = "disconnect" =>
           \A w \in Started' : w > manager'[i].session => wpc'[w] \in {"start", "wait"}
    BY <1>1, <1>2, <1>4 DEF Rest, Slates
  <2> QED BY <1>4, <2>1, <2>2, <2>3, <2>4 DEF Slates
<1>13. Tally'
  <2>1. CASE online' = online
    BY <1>1, <1>2, <1>4, <2>1 DEF Rest, Tally
  <2>2. CASE online' = online - 1 /\ manager[1].type = "disconnect"
    <3>1. PICK u : u = manager[1].session
      OBVIOUS
    <3>2. /\ u \in Started /\ IsPlayer(u) /\ wpc[u] \in {"down", "done"}
          /\ u \in Nat /\ u > 2 /\ u <= Len(s_workers) /\ Len(s_workers) \in Nat
          /\ u # None
      BY <1>1, <1>5, <2>2, <3>1, StartedSessions DEF Sent, IsPlayer, Started
    <3>3. online \in Int /\ online <= 0 /\ online >= 3 - u
      BY <1>1, <2>2, <3>1 DEF Rest, Tally
    <3>4. ASSUME NEW w \in Started, IsPlayer(w),
                 wpc[w] \in {"start", "wait", "enter", "run"}
          PROVE  online' >= 3 - w
      <4>1. w \in Nat /\ w # u /\ ~(w < u)
        BY <3>2, <3>4, StartedSessions DEF Crew
      <4> QED BY <2>2, <3>2, <3>3, <4>1
    <3>5. \A i \in DOMAIN manager : i # 1 => manager[i].type # "disconnect"
      <4> SUFFICES ASSUME NEW i \in DOMAIN manager, i # 1,
                          manager[i].type = "disconnect"
                   PROVE  FALSE
        OBVIOUS
      <4>1. PICK v : v = manager[i].session
        OBVIOUS
      <4>2. v \in Started /\ wpc[v] \in {"down", "done"} /\ v \in Nat
        BY <1>5, <4>1, StartedSessions DEF Sent
      <4>3. /\ v > u => wpc[v] \in {"start", "wait"}
            /\ u > v => wpc[u] \in {"start", "wait"}
        BY <1>1, <2>2, <3>1, <3>2, <4>1, <4>2 DEF Rest, Slates
      <4>4. u = v
        BY <3>2, <4>2, <4>3
      <4> QED BY <1>1, <1>5, <2>2, <3>1, <3>2, <4>1, <4>4 DEF SentOnce
    <3>6. \A i \in DOMAIN manager' : manager'[i].type # "disconnect"
      BY <1>1, <3>5
    <3>7. \A w \in Started' : IsPlayer(w) /\ wpc'[w] \in {"start", "wait", "enter", "run"}
                               => online' >= 3 - w
      BY <1>2, <1>4, <3>4
    <3>8. /\ online' \in Int /\ online' <= 0 /\ s_workers' = s_workers
          /\ Len(s_workers) > 2 /\ online' >= 2 - Len(s_workers)
      BY <1>2, <2>2, <3>2, <3>3
    <3> QED BY <3>6, <3>7, <3>8, <3>2 DEF Tally
  <2> QED BY <1>3, <2>1, <2>2
<1> QED BY <1>7, <1>8, <1>12, <1>13 DEF Rest

-----------------------------------------------------------------------------
LEMMA NextRest ==
  ASSUME TypeOK, Crew, Rest, Running
  PROVE  Rest'
<1>1. CASE Idling
  BY <1>1, IdlingQuiet, QuietStep DEF Rest
<1>2. CASE PingServer
  BY <1>2, PingRest
<1>3. CASE StartDemon \/ StartNpc \/ ConsolePlay
  BY <1>3, NewcomerRest
<1>4. CASE ServeMessage \/ KernelReply
  BY <1>4, ServeRest, ReplyRest
<1>5. ASSUME NEW w \in Sessions, WorkerStep(w) \/ LeaveGame(w)
      PROVE  Rest'
  <2>1. w \in Started
    BY <1>5, SteppingWorker
  <2> QED BY <1>5, <2>1, ConnectRest, AnswerRest, EnterRest, ProcessorRest, DownRest,
             LeaveRest DEF WorkerStep
<1> QED BY <1>1, <1>2, <1>3, <1>4, <1>5
        DEF Running, MainStep, Input, ServerStep, Idling

-----------------------------------------------------------------------------
(***************************************************************************)
(* Types.  The count of players is bounded by the plays, which is Tally.   *)
(***************************************************************************)
MainTypeOK == /\ process \in {"running", "ended", "failed", "aborted"}
              /\ runMode \in {"Normal", "Reset", "Terminate"}
              /\ mpc \in {"load", "find", "ping", "pong", "demon", "npc", "console",
                          "join", "terminate", "close", "kill"}
              /\ ticks \in 0 .. StartTicks
              /\ s_workers \in Seq(Slots) /\ Len(s_workers) <= MaxPlays + 2
              /\ joined \subseteq Started

ServerTypeOK == /\ spc \in {"unborn", "init", "loop", "tick", "serve", "reply", "done"}
                /\ budget \in 0 .. Batch
                /\ amsg \in Message
                /\ state \in [Slots -> {"OFFLINE", "LOGGING"}]
                /\ g_busy \in [Slots -> BOOLEAN]
                /\ managerUp \in BOOLEAN
                /\ manager \in Seq(Message)

WorkersTypeOK == /\ portTable \in [Slots -> Sessions \cup {None}]
                 /\ isOpen \in [Ports -> BOOLEAN]
                 /\ msgList \in [Ports -> Seq(Message)]
                 /\ wpc \in [Sessions -> {"unborn", "start", "wait", "enter", "run",
                                          "down", "done"}]
                 /\ port \in [Sessions -> Sessions \cup {None}]

LEMMA TypeParts ==
  /\ TypeOK => MainTypeOK /\ ServerTypeOK /\ WorkersTypeOK
  /\ MainTypeOK /\ ServerTypeOK /\ WorkersTypeOK /\ online \in -MaxPlays .. 0 => TypeOK
  BY DEF TypeOK, MainTypeOK, ServerTypeOK, WorkersTypeOK

LEMMA MainTypes ==
  ASSUME TypeOK, Crew, Berths, Running
  PROVE  MainTypeOK'
<1> USE TypeParts DEF MainTypeOK, Goto, Started, system, main
<1>1. CASE LoadFails \/ LoadGame \/ FindManager \/ PingServer \/ Pong
  BY <1>1 DEF LoadFails, LoadGame, FindManager, PingServer, Pong
<1>0. CASE StartTick
  <2>1. ticks - 1 \in 0 .. StartTicks
    BY <1>0, BoundsAssumption DEF StartTick
  <2> QED BY <1>0, <2>1 DEF StartTick
<1>2. CASE StartFails \/ JoinThrows \/ ConsoleQuit \/ ConsoleEnds
  BY <1>2 DEF StartFails, JoinThrows, ConsoleQuit, ConsoleEnds
<1>3. CASE CloseServer \/ KillClients
  BY <1>3 DEF CloseServer, KillClients
<1>4. CASE JoinClient
  BY <1>4 DEF JoinClient, Players
<1>5. ASSUME NEW slot, \/ StartDemon /\ slot = DEMON_SLOT
                       \/ StartNpc /\ slot = NPC_SLOT
                       \/ ConsolePlay /\ slot = PlayerSlot
      PROVE  MainTypeOK'
  <2>1. /\ slot \in Slots /\ Newcomer \in Sessions
    BY <1>5, StartClientSlot
  <2>2. /\ s_workers' = Append(s_workers, slot) /\ Len(s_workers') = Newcomer
        /\ \A w : w \in Started' <=> w \in Started \/ w = Newcomer
    BY <1>5, StartClientStep
  <2>3. mpc' \in {"npc", "console", "join"} /\ UNCHANGED <<system, ticks, joined>>
    BY <1>5 DEF StartDemon, StartNpc, ConsolePlay, StartClient
  <2>4. s_workers' \in Seq(Slots) /\ Len(s_workers') <= MaxPlays + 2
    BY <2>1, <2>2, StartedSessions
  <2>5. joined' \subseteq Started'
    BY <2>2, <2>3
  <2> QED BY <2>3, <2>4, <2>5
<1>6. CASE ServerStep
  BY <1>6 DEF ServerStep, ServerMain, KernelRound, KernelLeaves, KernelResets,
              resetTicker, ServeMessage, KernelReply, RoundEnds
<1>7. ASSUME NEW w \in Sessions, WorkerStep(w) \/ LeaveGame(w)
      PROVE  MainTypeOK'
  BY <1>7 DEF WorkerStep, ConnectToServer, ServerAnswers, EnterGame, ProcessorEnds,
              PlayerClientDown, LeaveGame
<1> QED BY <1>0, <1>1, <1>2, <1>3, <1>4, <1>5, <1>6, <1>7
        DEF Running, MainStep, Input

LEMMA ServerTypes ==
  ASSUME TypeOK, Crew, Rest, Running
  PROVE  ServerTypeOK'
<1> USE TypeParts DEF Serve, server, world, mail
<1>1. CASE Idling
  <2> USE DEF ServerTypeOK
  <2>1. CASE LoadFails \/ LoadGame \/ FindManager \/ StartTick \/ Pong \/ StartFails
    BY <2>1 DEF LoadFails, LoadGame, FindManager, StartTick, Pong, StartFails
  <2>2. CASE JoinClient \/ JoinThrows \/ ConsoleQuit \/ ConsoleEnds
    BY <2>2 DEF JoinClient, JoinThrows, ConsoleQuit, ConsoleEnds
  <2>3. CASE CloseServer \/ KillClients \/ ServerMain
    BY <2>3 DEF CloseServer, KillClients, ServerMain
  <2>4. CASE KernelRound \/ KernelLeaves \/ KernelResets \/ resetTicker \/ RoundEnds
    BY <2>4, BoundsAssumption
       DEF KernelRound, KernelLeaves, KernelResets, resetTicker, RoundEnds
  <2> QED BY <1>1, <2>1, <2>2, <2>3, <2>4 DEF Idling
<1>2. CASE PingServer
  <2>1. [NoMessage EXCEPT !.reply = PingPort] \in Message
    BY DEF NoMessage, Message, Ports
  <2> QED BY <1>2, <2>1 DEF PingServer, ServerTypeOK
<1>3. CASE StartDemon \/ StartNpc \/ ConsolePlay
  BY <1>3 DEF StartDemon, StartNpc, ConsolePlay, StartClient, ServerTypeOK
<1>4. CASE KernelReply
  <2>1. NoMessage \in Message
    BY DEF NoMessage, Message
  <2> QED BY <1>4, <2>1 DEF KernelReply, ServerTypeOK
<1>5. CASE ServeMessage
  <2>1. manager[1] \in Message /\ Tail(manager) \in Seq(Message)
    BY <1>5, Dispatched, HeadTailProperties, ServedMessage, ElementOfSeq DEF ServerTypeOK
  <2>2. /\ manager' = Tail(manager) /\ Head(manager) = manager[1]
        /\ Dispatch(manager[1]) /\ budget' = budget - 1 /\ budget > 0
        /\ spc' = "reply" /\ UNCHANGED managerUp
    BY <1>5, Dispatched, ServedMessage DEF ServeMessage
  <2>3. amsg' \in Message
    <3>1. [manager[1] EXCEPT !.sender = None] \in Message
      BY <2>1 DEF Message
    <3> QED BY <2>1, <2>2, <3>1 DEF Dispatch, Connect, Disconnect, SetBusy
  <2>4. g_busy' \in [Slots -> BOOLEAN]
    <3>1. manager[1].param \in BOOLEAN
      BY <2>1 DEF Message
    <3> QED BY <2>2, <3>1 DEF Dispatch, Connect, Disconnect, SetBusy, ServerTypeOK
  <2>5. state' \in [Slots -> {"OFFLINE", "LOGGING"}]
    BY <2>2 DEF Dispatch, Connect, Disconnect, SetBusy, ServerTypeOK
  <2>6. budget' \in 0 .. Batch
    BY <2>2, BoundsAssumption DEF ServerTypeOK
  <2> QED BY <2>1, <2>2, <2>3, <2>4, <2>5, <2>6 DEF ServerTypeOK
<1>6. ASSUME NEW w \in Sessions, WorkerStep(w) \/ LeaveGame(w)
      PROVE  ServerTypeOK'
  <2>1. w \in Started /\ port[w] = w /\ w \in Ports
    BY <1>6, SteppingWorker, StartedSessions DEF Rest, Berths
  <2>2. \A type \in {"connect", "disconnect", "busy"} : \A r \in {w, None} :
          From(w, type, r) \in Message
    BY <2>1, FromMessage
  <2>3. /\ UNCHANGED <<server, world, managerUp>>
        /\ \/ manager' = manager
           \/ \E m \in Message : manager' = Append(manager, m)
    BY <1>6, <2>1, <2>2
       DEF WorkerStep, ConnectToServer, ServerAnswers, EnterGame, ProcessorEnds,
           PlayerClientDown, LeaveGame, Send
  <2> QED BY <2>3 DEF ServerTypeOK
<1> QED BY <1>1, <1>2, <1>3, <1>4, <1>5, <1>6
        DEF Running, MainStep, Input, ServerStep, Idling

LEMMA WorkersTypes ==
  ASSUME TypeOK, Crew, Rest, Running
  PROVE  WorkersTypeOK'
<1> USE TypeParts DEF mail, workers
<1>1. CASE Idling
  <2> USE DEF WorkersTypeOK
  <2>1. CASE LoadFails \/ LoadGame \/ FindManager \/ StartTick
    BY <2>1 DEF LoadFails, LoadGame, FindManager, StartTick
  <2>2. CASE Pong \/ StartFails
    <3>1. PingPort \in Ports
      BY DEF Ports
    <3>2. msgList[PingPort] # <<>> => Tail(msgList[PingPort]) \in Seq(Message)
      BY <3>1, HeadTailProperties
    <3> QED BY <2>2, <3>1, <3>2 DEF Pong, StartFails
  <2>3. CASE JoinClient \/ JoinThrows \/ ConsoleQuit \/ ConsoleEnds
    BY <2>3 DEF JoinClient, JoinThrows, ConsoleQuit, ConsoleEnds
  <2>4. CASE CloseServer \/ KillClients \/ ServerMain
    BY <2>4 DEF CloseServer, KillClients, ServerMain
  <2>5. CASE KernelRound \/ KernelLeaves \/ KernelResets \/ resetTicker \/ RoundEnds
    BY <2>5 DEF KernelRound, KernelLeaves, KernelResets, resetTicker, RoundEnds
  <2> QED BY <1>1, <2>1, <2>2, <2>3, <2>4, <2>5 DEF Idling
<1>2. CASE PingServer \/ ServeMessage
  BY <1>2 DEF PingServer, ServeMessage, WorkersTypeOK
<1>3. ASSUME NEW slot, \/ StartDemon /\ slot = DEMON_SLOT
                       \/ StartNpc /\ slot = NPC_SLOT
                       \/ ConsolePlay /\ slot = PlayerSlot
      PROVE  WorkersTypeOK'
  <2>1. slot \in Slots /\ Newcomer \in Sessions /\ Newcomer \in Ports
    BY <1>3, StartClientSlot, StartedSessions
  <2>2. /\ portTable' = [portTable EXCEPT ![slot] = Newcomer]
        /\ isOpen' = [isOpen EXCEPT ![Newcomer] = TRUE]
        /\ port' = [port EXCEPT ![Newcomer] = Newcomer]
        /\ wpc' = [wpc EXCEPT ![Newcomer] = "start"]
        /\ UNCHANGED msgList
    BY <1>3, StartClientStep DEF Rest
  <2> QED BY <2>1, <2>2 DEF WorkersTypeOK
<1>4. CASE KernelReply
  <2>1. amsg \in Message /\ amsg.reply \in Ports \cup {None}
    BY DEF TypeOK, Message
  <2>2. \A p \in Ports : Append(msgList[p], amsg) \in Seq(Message)
    BY <2>1 DEF WorkersTypeOK
  <2>3. msgList' \in [Ports -> Seq(Message)]
    BY <1>4, <2>1, <2>2 DEF KernelReply, WorkersTypeOK
  <2> QED BY <1>4, <2>3 DEF KernelReply, WorkersTypeOK
<1>5. ASSUME NEW w \in Sessions, WorkerStep(w) \/ LeaveGame(w)
      PROVE  WorkersTypeOK'
  <2>1. w \in Started /\ port[w] = w /\ w \in Ports
    BY <1>5, SteppingWorker, StartedSessions DEF Rest, Berths
  <2>2. \E x \in {"start", "wait", "enter", "run", "down", "done"} :
           wpc' = [wpc EXCEPT ![w] = x]
    BY <1>5 DEF WorkerStep, ConnectToServer, ServerAnswers, EnterGame, ProcessorEnds,
                PlayerClientDown, LeaveGame, Work
  <2>3. wpc' \in [Sessions -> {"unborn", "start", "wait", "enter", "run", "down",
                              "done"}]
    BY <2>2 DEF WorkersTypeOK
  <2>4. CASE ConnectToServer(w) \/ EnterGame(w) \/ ProcessorEnds(w) \/ LeaveGame(w)
    BY <2>3, <2>4
       DEF ConnectToServer, EnterGame, ProcessorEnds, LeaveGame, Send, WorkersTypeOK
  <2>5. CASE ServerAnswers(w)
    <3>1. msgList[w] \in Seq(Message) /\ msgList[w] # <<>>
      BY <2>1, <2>5 DEF ServerAnswers, WorkersTypeOK
    <3>2. Tail(msgList[w]) \in Seq(Message)
      BY <3>1, HeadTailProperties
    <3> QED BY <2>1, <2>3, <2>5, <3>2 DEF ServerAnswers, WorkersTypeOK
  <2>6. CASE PlayerClientDown(w)
    BY <2>1, <2>3, <2>6 DEF PlayerClientDown, WorkersTypeOK
  <2> QED BY <1>5, <2>4, <2>5, <2>6 DEF WorkerStep
<1> QED BY <1>1, <1>2, <1>3, <1>4, <1>5
        DEF Running, MainStep, Input, ServerStep, Idling

-----------------------------------------------------------------------------
LEMMA InitIInv == Init => IInv
<1> SUFFICES ASSUME Init PROVE IInv
  OBVIOUS
<1>1. /\ s_workers = <<>> /\ manager = <<>> /\ Started = {} /\ Len(s_workers) = 0
      /\ s_workers \in Seq(Slots) /\ manager \in Seq(Message)
      /\ NoMessage \in Message
  BY BoundsAssumption DEF Init, Started, Sessions, NoMessage, Message
<1>2. TypeOK
  <2>1. online \in -MaxPlays .. 0
    BY BoundsAssumption DEF Init
  <2>2. MainTypeOK
    BY <1>1, BoundsAssumption DEF Init, MainTypeOK
  <2>3. ServerTypeOK
    <3>1. spc = "unborn" /\ budget = 0 /\ amsg = NoMessage /\ managerUp = FALSE
      BY DEF Init
    <3>2. budget \in 0 .. Batch
      BY <3>1, BoundsAssumption
    <3>3. state \in [Slots -> {"OFFLINE", "LOGGING"}] /\ g_busy \in [Slots -> BOOLEAN]
      BY DEF Init
    <3> QED BY <1>1, <3>1, <3>2, <3>3 DEF ServerTypeOK
  <2>4. WorkersTypeOK
    BY DEF Init, WorkersTypeOK
  <2> QED BY <2>1, <2>2, <2>3, <2>4, TypeParts
<1>3. \A w \in Sessions : wpc[w] = "unborn" /\ msgList[w] = <<>>
  BY DEF Init, Ports
<1>4. Crew
  BY <1>1, <1>3 DEF Init, Crew
<1>5. Berths
  BY <1>1 DEF Init, Berths
<1>6. Post
  BY <1>1 DEF Init, Post, SentOnce
<1>7. Slates
  BY <1>1 DEF Init, Slates
<1>8. Tally
  BY <1>1 DEF Init, Tally
<1> QED BY <1>2, <1>4, <1>5, <1>6, <1>7, <1>8 DEF IInv

LEMMA NextIInv == IInv /\ [Next]_vars => IInv'
<1> SUFFICES ASSUME IInv, [Next]_vars PROVE IInv'
  OBVIOUS
<1>1. TypeOK /\ Crew /\ Rest
  BY DEF IInv, Rest
<1>2. CASE UNCHANGED vars
  BY <1>2 DEF vars, system, main, server, world, mail, workers, IInv, TypeOK, Crew,
              Berths, Post, SentOnce, Sent, Asked, Held, Granted, Accepted, Slates, Frees,
              Vacant, Tally, Started
<1>3. CASE Running
  <2>1. Crew' /\ Rest'
    BY <1>1, <1>3, NextCrew, NextRest DEF Rest
  <2>2. MainTypeOK' /\ ServerTypeOK' /\ WorkersTypeOK'
    BY <1>1, <1>3, MainTypes, ServerTypes, WorkersTypes DEF Rest
  <2>3. Len(s_workers') \in Nat /\ Len(s_workers') <= MaxPlays + 2
    BY <2>2, LenProperties DEF MainTypeOK
  <2>4. online' \in -MaxPlays .. 0
    BY <2>1, <2>3, BoundsAssumption DEF Rest, Tally
  <2>5. TypeOK'
    BY <2>2, <2>4 DEF TypeOK, MainTypeOK, ServerTypeOK, WorkersTypeOK
  <2> QED BY <2>1, <2>5 DEF IInv, Rest
<1> QED BY <1>2, <1>3 DEF Next

LEMMA SpecIInv == Spec => []IInv
  BY InitIInv, NextIInv, PTL DEF Spec

-----------------------------------------------------------------------------
(***************************************************************************)
(* Every variable keeps its type; in particular the count of players never *)
(* goes further below zero than there were plays: it is taken down by      *)
(* every disconnection and put up by none (amul.server.cpp).               *)
(***************************************************************************)
THEOREM SessionTypes == Spec => []TypeOK
<1>1. IInv => TypeOK
  BY DEF IInv
<1> QED BY <1>1, SpecIInv, PTL

(***************************************************************************)
(* However often "play" is typed and however the rounds of the kernel fall,*)
(* MsgConnectClient::Dispatch finds the slot free: no player is refused    *)
(* because of the session before.                                          *)
(***************************************************************************)
THEOREM NobodyRefused == Spec => []NeverRefused
<1>1. IInv => NeverRefused
  BY DEF IInv, Berths, Post, NeverRefused
<1> QED BY <1>1, SpecIInv, PTL

(***************************************************************************)
(* Between its welcome and its departure a worker's slot is in use: the    *)
(* disconnection of an earlier session was served before its connection.   *)
(***************************************************************************)
THEOREM RunnersHoldSlots == Spec => []RunningSlotInUse
<1>1. IInv => RunningSlotInUse
  <2> SUFFICES ASSUME IInv, NEW w \in Started, wpc[w] \in {"enter", "run"}
               PROVE  state[s_workers[w]] = "LOGGING"
    BY DEF RunningSlotInUse
  <2>1. s_workers[w] = SlotOf(w)
    BY StartedPlayer DEF IInv
  <2>2. Accepted(w)
    BY DEF Accepted
  <2> QED BY <2>1, <2>2 DEF IInv, Slates
<1> QED BY <1>1, SpecIInv, PTL

(***************************************************************************)
(* A worker waiting in startThread finds the answer to its own connection  *)
(* and nothing else, on a port nobody has closed; a running one finds its  *)
(* port empty.                                                             *)
(***************************************************************************)
THEOREM AnswersAreOwn == Spec => []OwnReplyOnly
<1>1. IInv => OwnReplyOnly
  BY DEF IInv, Berths, Post, Granted, OwnReplyOnly
<1> QED BY <1>1, SpecIInv, PTL

(***************************************************************************)
(* When the last player's messages are served, the slot is free: no        *)
(* session before it has left a connection that nothing takes back.        *)
(***************************************************************************)
THEOREM SlotsReleased == Spec => []SlotReleased
<1>1. IInv => SlotReleased
  <2> SUFFICES ASSUME IInv, NEW w \in Started,
                      wpc[w] = "done", s_workers[w] = PlayerSlot,
                      \A i \in DOMAIN manager : manager[i].session # w,
                      \A v \in Started : v > w => s_workers[v] # PlayerSlot
               PROVE  state[PlayerSlot] = "OFFLINE"
    BY DEF SlotReleased
  <2>1. TypeOK /\ Crew /\ Post /\ Slates
    BY DEF IInv
  <2>2. \A v \in Started : /\ v \in Nat
                           /\ s_workers[v] = SlotOf(v)
                           /\ IsPlayer(v) <=> SlotOf(v) = PlayerSlot
    BY <2>1, StartedSessions, StartedPlayer
  <2>3. \A v \in Started : IsPlayer(v) => v = w \/ v < w
    BY <2>2
  <2>4. Vacant(PlayerSlot)
    BY <2>1, <2>2, <2>3 DEF Vacant, Crew
  <2>5. \A j \in DOMAIN manager : ~Frees(j, PlayerSlot)
    <3> SUFFICES ASSUME NEW j \in DOMAIN manager, Frees(j, PlayerSlot) PROVE FALSE
      OBVIOUS
    <3>1. PICK u : u = manager[j].session
      OBVIOUS
    <3>2. manager[j].type = "disconnect" /\ u \in Started /\ IsPlayer(u) /\ u # w
      BY <2>1, <3>1 DEF Frees, Post, Sent
    <3>3. w > u
      BY <2>2, <2>3, <3>2
    <3> QED BY <2>1, <3>1, <3>2, <3>3 DEF Slates
  <2> QED BY <2>1, <2>4, <2>5 DEF Slates, Slots
<1> QED BY <1>1, SpecIInv, PTL
=============================================================================
