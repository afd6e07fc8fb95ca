------------------------------ MODULE MsgPort ------------------------------
(***************************************************************************)
(* The message ports (msgports.cpp, msgports.h): the registry of named and *)
(* anonymous ports and the message list of each port, as used by several   *)
(* threads at once.                                                        *)
(*                                                                         *)
(* Every lock is a SpinLock, taken in one step as the Mutex that module    *)
(* implements.  A guarded section that touches the shared state once is    *)
(* one step that needs the lock to be free; one that touches it several    *)
(* times holds the lock over several steps, so that what is atomic is so   *)
(* because of the lock.  m_open is also read and written outside it.       *)
(*                                                                         *)
(* Ports and messages are never reused: Ports and Messages bound how many  *)
(* are ever constructed.                                                   *)
(***************************************************************************)
EXTENDS Naturals, Sequences, FiniteSets

CONSTANTS Threads, Ports, Names, Messages,
          NoThread,  \* the holder of a free lock
          NoPort,    \* a null MsgPortPtr
          NoMsg,     \* a null MessagePtr
          Anonymous  \* the empty port name

ASSUME NullAssumption == /\ NoThread \notin Threads
                         /\ NoPort \notin Ports
                         /\ NoMsg \notin Messages
                         /\ Anonymous \notin Names

VARIABLES tablesLock,   \* s_tablesLock: the thread that holds it
          s_portTable,  \* the port under each name
          s_portMap,    \* the anonymous ports
          made,         \* the ports constructed so far
          m_name,       \* MsgPort::m_name
          m_spinLock,   \* MsgPort::m_spinLock: the thread that holds it
          m_open,       \* MsgPort::m_open
          m_msgList,    \* MsgPort::m_msgList; NoMsg is a moved-from front
          used,         \* the messages constructed so far
          m_replyPort,  \* Message::m_replyPort
          pc,           \* where each thread is
          port,         \* the port its call works on, or has returned
          arg,          \* the message it is putting
          hand          \* the message it received and still owns

registry == <<tablesLock, s_portTable, s_portMap, made, m_name>>
ports    == <<m_spinLock, m_open, m_msgList>>
messages == <<used, m_replyPort>>
locals   == <<port, arg, hand>>
vars     == <<registry, ports, messages, pc, locals>>

Init == /\ tablesLock = NoThread
        /\ s_portTable = [n \in Names |-> NoPort]
        /\ s_portMap = {}
        /\ made = {}
        /\ m_name = [p \in Ports |-> Anonymous]
        /\ m_spinLock = [p \in Ports |-> NoThread]
        /\ m_open = [p \in Ports |-> FALSE]
        /\ m_msgList = [p \in Ports |-> <<>>]
        /\ used = {}
        /\ m_replyPort = [m \in Messages |-> NoPort]
        /\ pc = [t \in Threads |-> "idle"]
        /\ port = [t \in Threads |-> NoPort]
        /\ arg = [t \in Threads |-> NoMsg]
        /\ hand = [t \in Threads |-> NoMsg]

Goto(t, from, to) == /\ pc[t] = from
                     /\ pc' = [pc EXCEPT ![t] = to]

Free(p) == m_spinLock[p] = NoThread

HoldPort(t, p) == m_spinLock' = [m_spinLock EXCEPT ![p] = t]

DropPort(t) == m_spinLock' = [m_spinLock EXCEPT ![port[t]] = NoThread]

\* The port registered under a name; nothing is found by the empty name.
Registered(n) == IF n \in Names THEN s_portTable[n] ELSE NoPort

-----------------------------------------------------------------------------
(***************************************************************************)
(* FindPort, and CreatePort: when the name is taken the caller gets the    *)
(* port that has it, else a new port, which is open from its construction  *)
(* and known to others once it is in its table.                            *)
(***************************************************************************)
FindPort(t, n) == /\ tablesLock = NoThread
                  /\ Goto(t, "idle", "idle")
                  /\ port' = [port EXCEPT ![t] = Registered(n)]
                  /\ UNCHANGED <<registry, ports, messages, arg, hand>>

CreateFound(t, n) == /\ Registered(n) # NoPort
                     /\ FindPort(t, n)

\* Mutant: the lookup is made without the registry's lock.
CreateConstructUnlocked(t, n) ==
    /\ Registered(n) = NoPort
    /\ Goto(t, "idle", "emplace")
    /\ tablesLock' = t
    /\ \E p \in Ports \ made :
          /\ made' = made \cup {p}
          /\ m_name' = [m_name EXCEPT ![p] = n]
          /\ m_open' = [m_open EXCEPT ![p] = TRUE]
          /\ port' = [port EXCEPT ![t] = p]
    /\ UNCHANGED <<s_portTable, s_portMap, m_spinLock, m_msgList,
                   messages, arg, hand>>

CreateConstruct(t, n) ==
    /\ tablesLock = NoThread
    /\ Registered(n) = NoPort
    /\ Goto(t, "idle", "emplace")
    /\ tablesLock' = t
    /\ \E p \in Ports \ made :
          /\ made' = made \cup {p}
          /\ m_name' = [m_name EXCEPT ![p] = n]
          /\ m_open' = [m_open EXCEPT ![p] = TRUE]
          /\ port' = [port EXCEPT ![t] = p]
    /\ UNCHANGED <<s_portTable, s_portMap, m_spinLock, m_msgList,
                   messages, arg, hand>>

\* Mutant: the empty name is registered like any other.
CreateEmplaceEmptyName(t) ==
    /\ Goto(t, "emplace", "idle")
    /\ s_portTable' = [n \in DOMAIN s_portTable \cup {m_name[port[t]]} |->
                          IF n = m_name[port[t]] THEN port[t] ELSE s_portTable[n]]
    /\ tablesLock' = NoThread
    /\ UNCHANGED <<s_portMap, made, m_name, ports, messages, locals>>

CreateEmplace(t) ==
    /\ Goto(t, "emplace", "idle")
    /\ IF m_name[port[t]] = Anonymous
         THEN /\ s_portMap' = s_portMap \cup {port[t]}
              /\ s_portTable' = s_portTable
         ELSE /\ s_portTable' = [s_portTable EXCEPT ![m_name[port[t]]] = port[t]]
              /\ s_portMap' = s_portMap
    /\ tablesLock' = NoThread
    /\ UNCHANGED <<made, m_name, ports, messages, locals>>

-----------------------------------------------------------------------------
(***************************************************************************)
(* MsgPort::Close: shut the port under its own lock, then take it off the  *)
(* registry under the registry's lock.  A second Close leaves at once.     *)
(***************************************************************************)
\* Mutant: m_open is cleared without the port's lock.
CloseUnlocked(t, p) ==
    /\ \/ m_open[p] /\ Goto(t, "idle", "closing")
       \/ ~m_open[p] /\ Goto(t, "idle", "idle")
    /\ m_open' = [m_open EXCEPT ![p] = FALSE]
    /\ port' = [port EXCEPT ![t] = p]
    /\ UNCHANGED <<registry, m_spinLock, m_msgList, messages, arg, hand>>

\* Mutant: the result of the exchange is ignored.
CloseTwice(t, p) ==
    /\ Free(p)
    /\ Goto(t, "idle", "closing")
    /\ m_open' = [m_open EXCEPT ![p] = FALSE]
    /\ port' = [port EXCEPT ![t] = p]
    /\ UNCHANGED <<registry, m_spinLock, m_msgList, messages, arg, hand>>

CloseExchange(t, p) ==
    /\ Free(p)
    /\ \/ m_open[p] /\ Goto(t, "idle", "closing")
       \/ ~m_open[p] /\ Goto(t, "idle", "idle")
    /\ m_open' = [m_open EXCEPT ![p] = FALSE]
    /\ port' = [port EXCEPT ![t] = p]
    /\ UNCHANGED <<registry, m_spinLock, m_msgList, messages, arg, hand>>

CloseErase(t) ==
    /\ tablesLock = NoThread
    /\ Goto(t, "closing", "idle")
    /\ s_portMap' = s_portMap \ {port[t]}
    /\ s_portTable' = [n \in Names |-> IF s_portTable[n] = port[t]
                                         THEN NoPort ELSE s_portTable[n]]
    /\ UNCHANGED <<tablesLock, made, m_name, ports, messages, locals>>

-----------------------------------------------------------------------------
(***************************************************************************)
(* MsgPort::Put of a new message, and ReplyMsg, which puts the message in  *)
(* hand on the port it carries.  On a closed port the message is not moved *)
(* into the list and dies with the caller's unique_ptr.                    *)
(***************************************************************************)
New(t, m, r) == /\ m \notin used
                /\ used' = used \cup {m}
                /\ m_replyPort' = [m_replyPort EXCEPT ![m] = r]
                /\ hand' = hand

\* Mutant: the reply is a copy, the receiver keeps its message.
ReplyCopies(t, m, p) == /\ m = hand[t]
                        /\ p = m_replyPort[m]
                        /\ hand' = hand
                        /\ UNCHANGED messages

Reply(t, m, p) == /\ m = hand[t]
                  /\ p = m_replyPort[m]
                  /\ hand' = [hand EXCEPT ![t] = NoMsg]
                  /\ UNCHANGED messages

PutOpen(t, p, m) == /\ Free(p)
                    /\ m_open[p]
                    /\ Goto(t, "idle", "append")
                    /\ HoldPort(t, p)
                    /\ port' = [port EXCEPT ![t] = p]
                    /\ arg' = [arg EXCEPT ![t] = m]
                    /\ UNCHANGED <<registry, m_open, m_msgList>>

PutDropped(t, p) == /\ Free(p)
                    /\ ~m_open[p]
                    /\ Goto(t, "idle", "idle")
                    /\ UNCHANGED <<registry, ports, port, arg>>

Put(t, p, m, r) == New(t, m, r) /\ (PutOpen(t, p, m) \/ PutDropped(t, p))

ReplyMsg(t, p, m) == Reply(t, m, p) /\ (PutOpen(t, p, m) \/ PutDropped(t, p))

PutAppend(t) == /\ Goto(t, "append", "idle")
                /\ m_msgList' = [m_msgList EXCEPT ![port[t]] = Append(@, arg[t])]
                /\ arg' = [arg EXCEPT ![t] = NoMsg]
                /\ DropPort(t)
                /\ UNCHANGED <<registry, m_open, messages, port, hand>>

-----------------------------------------------------------------------------
(***************************************************************************)
(* MsgPort::Get, MsgPort::Wait and MsgPort::Clear.  A thread that asks for *)
(* its next message has destroyed the one before.                          *)
(***************************************************************************)
\* Mutant: the list is read without the port's lock.
SwapFrontUnlocked(t, p) ==
    /\ m_msgList[p] # <<>>
    /\ HoldPort(t, p)
    /\ hand' = [hand EXCEPT ![t] = Head(m_msgList[p])]
    /\ m_msgList' = [m_msgList EXCEPT ![p] = <<NoMsg>> \o Tail(@)]
    /\ port' = [port EXCEPT ![t] = p]
    /\ UNCHANGED <<registry, m_open, messages, arg>>

\* std::swap(front, result): a null front stays in the list until pop_front.
SwapFront(t, p) == /\ Free(p)
                   /\ m_msgList[p] # <<>>
                   /\ HoldPort(t, p)
                   /\ hand' = [hand EXCEPT ![t] = Head(m_msgList[p])]
                   /\ m_msgList' = [m_msgList EXCEPT ![p] = <<NoMsg>> \o Tail(@)]
                   /\ port' = [port EXCEPT ![t] = p]
                   /\ UNCHANGED <<registry, m_open, messages, arg>>

PopFront(t) == /\ Goto(t, "pop", "idle")
               /\ m_msgList' = [m_msgList EXCEPT ![port[t]] = Tail(@)]
               /\ DropPort(t)
               /\ UNCHANGED <<registry, m_open, messages, locals>>

\* The unique_ptr of an earlier result goes out of scope.
Destroy(t) == /\ hand[t] # NoMsg
              /\ Goto(t, "idle", "idle")
              /\ hand' = [hand EXCEPT ![t] = NoMsg]
              /\ UNCHANGED <<registry, ports, messages, port, arg>>

\* Get on an empty list changes nothing and is not an action of its own.
Get(t, p) == /\ hand[t] = NoMsg
             /\ Goto(t, "idle", "pop")
             /\ SwapFront(t, p)

Wait(t, p) == /\ hand[t] = NoMsg
              /\ Goto(t, "idle", "wait")
              /\ port' = [port EXCEPT ![t] = p]
              /\ UNCHANGED <<registry, ports, messages, arg, hand>>

WaitSwap(t) == /\ Goto(t, "wait", "pop")
               /\ SwapFront(t, port[t])

\* Nothing to take: the guard is released before m_open is looked at.
WaitEmpty(t) == /\ Goto(t, "wait", "look")
                /\ Free(port[t])
                /\ m_msgList[port[t]] = <<>>
                /\ UNCHANGED <<registry, ports, messages, locals>>

\* Mutant: Wait never looks whether the port is still open.
WaitForever(t) == /\ Goto(t, "look", "wait")
                  /\ UNCHANGED <<registry, ports, messages, locals>>

\* Still open: yield and look again.  Closed: return a null MessagePtr.
WaitLook(t) == /\ \/ Goto(t, "look", "wait") /\ m_open[port[t]]
                  \/ Goto(t, "look", "null") /\ ~m_open[port[t]]
               /\ UNCHANGED <<registry, ports, messages, locals>>

WaitReturnsNull(t) == /\ Goto(t, "null", "idle")
                      /\ UNCHANGED <<registry, ports, messages, locals>>

Clear(t, p) == /\ Free(p)
               /\ Goto(t, "idle", "idle")
               /\ m_msgList' = [m_msgList EXCEPT ![p] = <<>>]
               /\ UNCHANGED <<registry, m_spinLock, m_open, messages, locals>>

-----------------------------------------------------------------------------
\* The ports somebody can have a pointer to: CreatePort has returned them.
Known == made \ {port[t] : t \in {u \in Threads : pc[u] = "emplace"}}

\* The steps that begin a call, and those that carry one on.
Begin(t) == \/ \E n \in Names : FindPort(t, n)
            \/ \E n \in Names : CreateFound(t, n)
            \/ \E n \in Names \cup {Anonymous} : CreateConstruct(t, n)
            \/ Destroy(t)
            \/ \E p \in Known : \/ CloseExchange(t, p)
                                \/ Get(t, p)
                                \/ Wait(t, p)
                                \/ Clear(t, p)
            \/ \E p \in Known, m \in Messages :
                 \/ \E r \in Known \cup {NoPort} : Put(t, p, m, r)
                 \/ ReplyMsg(t, p, m)

Continue(t) == \/ CreateEmplace(t)
               \/ CloseErase(t)
               \/ PutAppend(t)
               \/ PopFront(t)
               \/ WaitSwap(t)
               \/ WaitEmpty(t)
               \/ WaitLook(t)
               \/ WaitReturnsNull(t)

Next == \E t \in Threads : Begin(t) \/ Continue(t)

Spec == Init /\ [][Next]_vars

(***************************************************************************)
(* A thread inside a call keeps running.  No fairness between the threads  *)
(* that want a lock is assumed, and no thread has to call anything.        *)
(***************************************************************************)
FairSpec == Spec /\ \A t \in Threads : WF_vars(Continue(t))

-----------------------------------------------------------------------------
Points == {"idle", "emplace", "closing", "append", "pop", "wait", "look", "null"}

TypeOK == /\ tablesLock \in Threads \cup {NoThread}
          /\ s_portTable \in [Names -> Ports \cup {NoPort}]
          /\ s_portMap \in SUBSET Ports
          /\ made \in SUBSET Ports
          /\ m_name \in [Ports -> Names \cup {Anonymous}]
          /\ m_spinLock \in [Ports -> Threads \cup {NoThread}]
          /\ m_open \in [Ports -> BOOLEAN]
          /\ m_msgList \in [Ports -> Seq(Messages \cup {NoMsg})]
          /\ used \in SUBSET Messages
          /\ m_replyPort \in [Messages -> Ports \cup {NoPort}]
          /\ pc \in [Threads -> Points]
          /\ port \in [Threads -> Ports \cup {NoPort}]
          /\ arg \in [Threads -> Messages \cup {NoMsg}]
          /\ hand \in [Threads -> Messages \cup {NoMsg}]

Listed(p) == p \in s_portMap \/ \E n \in Names : s_portTable[n] = p

BeingClosed(p) == \E t \in Threads : pc[t] = "closing" /\ port[t] = p

(***************************************************************************)
(* The two-phase Close and CreatePort keep the registry exact: a port that *)
(* has been handed out is listed iff it is open or its Close has not       *)
(* reached the registry yet.  An open port can always be found, and a      *)
(* closed one does not stay findable.                                      *)
(***************************************************************************)
RegistryExact == \A p \in Known : Listed(p) <=> m_open[p] \/ BeingClosed(p)

(***************************************************************************)
(* A name never leads senders to two live ports, whatever CreatePort and   *)
(* Close do to it at the same time.                                        *)
(***************************************************************************)
OneOpenPortPerName ==
    \A p, q \in made : /\ m_open[p] /\ m_open[q]
                       /\ m_name[p] = m_name[q]
                       /\ m_name[p] # Anonymous
                       => p = q

(***************************************************************************)
(* Receivers racing on one list never get the moved-from front that        *)
(* std::swap leaves there until pop_front.                                 *)
(***************************************************************************)
NoMovedFromMessage == \A t \in Threads : pc[t] = "pop" => hand[t] # NoMsg

\* The places a message can be in: being put, received, or queued.
Places(m) == {<<"arg", t>> : t \in {u \in Threads : arg[u] = m}}
             \cup {<<"hand", t>> : t \in {u \in Threads : hand[u] = m}}
             \cup UNION {{<<p, i>> : i \in {j \in DOMAIN m_msgList[p] :
                                              m_msgList[p][j] = m}} : p \in Ports}

(***************************************************************************)
(* A message is owned once: it is never delivered to two threads, and a    *)
(* reply is never still owned by the thread that sent it back.             *)
(***************************************************************************)
SoleOwner == \A m \in Messages : Cardinality(Places(m)) <= 1

(***************************************************************************)
(* Closing a port releases every thread blocked in its Wait, whether or    *)
(* not messages are left in the list.                                      *)
(***************************************************************************)
CloseReleasesWaiters ==
    \A t \in Threads :
       (pc[t] \in {"wait", "look"} /\ ~m_open[port[t]])
         ~> (pc[t] \notin {"wait", "look"})

-----------------------------------------------------------------------------
(***************************************************************************)
(* The ports as mailboxes: a port that is being constructed does not exist *)
(* yet, and a moved-from front has left its list.                          *)
(***************************************************************************)
MailboxState == [p \in Ports |-> IF p \notin Known THEN "unmade"
                                 ELSE IF m_open[p] THEN "open" ELSE "closed"]

MailboxList == [p \in Ports |-> IF m_msgList[p] # <<>> /\ m_msgList[p][1] = NoMsg
                                  THEN Tail(m_msgList[p]) ELSE m_msgList[p]]

Mail == INSTANCE Mailbox WITH state <- MailboxState,
                              table <- s_portTable,
                              anon <- s_portMap,
                              box <- MailboxList

(***************************************************************************)
(* Every call takes effect in one step between its beginning and its end:  *)
(* what was put on an open port is received once, in order, or cleared.    *)
(***************************************************************************)
ImplementsMailbox == Mail!Spec
=============================================================================
