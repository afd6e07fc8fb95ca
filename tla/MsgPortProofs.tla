---------------------------- MODULE MsgPortProofs ----------------------------
(***************************************************************************)
(* Proofs about MsgPort, for any number of threads, ports, names and       *)
(* messages.  The invariant is built in three layers, each inductive given *)
(* the ones before it:                                                     *)
(*   Locks     who holds which lock, and which ports threads refer to;     *)
(*   Registry  the tables, m_open and the ports being made or closed;      *)
(*   Lists     a moved-from front exists only under its receiver's lock.   *)
(* The second part proves that the ports keep what Mailbox promises, from  *)
(* two layers more:                                                        *)
(*   Owned     a message is in one place at a time;                        *)
(*   Sections  what holds while a thread is inside a guarded section.      *)
(* Every step of a port is then one step of the mailboxes, or none.        *)
(***************************************************************************)
EXTENDS MsgPort, FiniteSetTheorems, TLAPS

Making(t, p) == pc[t] = "emplace" /\ port[t] = p

Closing(t, p) == pc[t] = "closing" /\ port[t] = p

Popping(t, p) == pc[t] = "pop" /\ port[t] = p

InSection(t, p) == pc[t] \in {"append", "pop"} /\ port[t] = p

Locks == /\ \A t \in Threads : port[t] \in made \cup {NoPort}
         /\ \A t \in Threads : pc[t] # "idle" => port[t] \in made
         /\ \A t \in Threads : pc[t] = "emplace" <=> tablesLock = t
         /\ \A t \in Threads, p \in Ports : InSection(t, p) <=> m_spinLock[p] = t
         /\ \A t, u \in Threads : Making(t, port[u]) => u = t

Registry ==
  /\ \A n \in Names : s_portTable[n] # NoPort =>
        s_portTable[n] \in Known /\ m_name[s_portTable[n]] = n
  /\ \A p \in s_portMap : p \in Known /\ m_name[p] = Anonymous
  /\ \A p \in Ports : m_open[p] => p \in made
  /\ \A t \in Threads : pc[t] = "emplace" =>
        m_open[port[t]] /\ Registered(m_name[port[t]]) = NoPort
  /\ \A t, u \in Threads : Closing(t, port[u]) /\ Closing(u, port[t]) => t = u
  /\ \A t \in Threads : pc[t] = "closing" => ~m_open[port[t]]
  /\ RegistryExact

Lists ==
  /\ \A t \in Threads : pc[t] = "pop" => /\ m_msgList[port[t]] # <<>>
                                        /\ Tail(m_msgList[port[t]]) \in Seq(Messages)
  /\ \A p \in Ports : (\A t \in Threads : ~Popping(t, p))
                          => m_msgList[p] \in Seq(Messages)
  /\ \A t \in Threads : pc[t] = "append" => arg[t] \in Messages
  /\ NoMovedFromMessage

LEMMA KnownPort ==
  ASSUME NEW p
  PROVE  p \in Known <=> p \in made /\ \A t \in Threads : ~Making(t, p)
  BY DEF Known, Making

LEMMA ListedPort ==
  ASSUME TypeOK, NEW n \in Names \cup {Anonymous}, Registered(n) # NoPort
  PROVE  n \in Names /\ Registered(n) = s_portTable[n] /\ Listed(Registered(n))
  BY NullAssumption DEF Registered, Listed

LEMMA RegisteredKnown ==
  ASSUME Registry, NEW n \in Names \cup {Anonymous}
  PROVE  Registered(n) \in Known \cup {NoPort}
  BY DEF Registry, Registered

LEMMA InitTypeOK == Init => TypeOK
  BY DEF Init, TypeOK, Points

LEMMA NextTypeOK ==
  ASSUME TypeOK, Locks, Lists, NEW t \in Threads, Begin(t) \/ Continue(t)
  PROVE  TypeOK'
<1>a. pc[t] # "idle" => port[t] \in Ports
  BY DEF Locks, TypeOK
<1>b. pc[t] = "pop" => m_msgList[port[t]] # <<>>
  BY DEF Lists
<1> USE DEF TypeOK, Points, Goto, registry, ports, messages, locals
<1>1. ASSUME NEW n \in Names, FindPort(t, n) PROVE TypeOK'
  BY <1>1 DEF FindPort, Registered
<1>2. ASSUME NEW n \in Names, CreateFound(t, n) PROVE TypeOK'
  BY <1>1, <1>2 DEF CreateFound
<1>3. ASSUME NEW n \in Names \cup {Anonymous}, CreateConstruct(t, n) PROVE TypeOK'
  BY <1>3 DEF CreateConstruct
<1>4. CASE Destroy(t)
  BY <1>4 DEF Destroy
<1>5. ASSUME NEW p \in Ports, CloseExchange(t, p) PROVE TypeOK'
  BY <1>5 DEF CloseExchange
<1>6. ASSUME NEW p \in Ports, m_msgList[p] # <<>>, SwapFront(t, p),
             pc' = [pc EXCEPT ![t] = "pop"]
      PROVE  TypeOK'
  <2>1. /\ Head(m_msgList[p]) \in Messages \cup {NoMsg}
        /\ <<NoMsg>> \o Tail(m_msgList[p]) \in Seq(Messages \cup {NoMsg})
    BY <1>6
  <2> QED BY <1>6, <2>1 DEF SwapFront, HoldPort
<1>7. ASSUME NEW p \in Ports, Get(t, p) PROVE TypeOK'
  BY <1>6, <1>7 DEF Get, SwapFront
<1>8. ASSUME NEW p \in Ports, Wait(t, p) PROVE TypeOK'
  BY <1>8 DEF Wait
<1>9. ASSUME NEW p \in Ports, Clear(t, p) PROVE TypeOK'
  <2>1. <<>> \in Seq(Messages \cup {NoMsg})
    OBVIOUS
  <2> QED BY <1>9, <2>1 DEF Clear
<1>10. ASSUME NEW p \in Ports, NEW m \in Messages,
              NEW r \in Ports \cup {NoPort}, Put(t, p, m, r)
       PROVE  TypeOK'
  <2>1. CASE PutOpen(t, p, m)
    BY <1>10, <2>1 DEF Put, New, PutOpen, HoldPort
  <2>2. CASE PutDropped(t, p)
    BY <1>10, <2>2 DEF Put, New, PutDropped
  <2> QED BY <1>10, <2>1, <2>2 DEF Put
<1>11. ASSUME NEW p \in Ports, NEW m \in Messages, ReplyMsg(t, p, m)
       PROVE  TypeOK'
  <2>1. CASE PutOpen(t, p, m)
    BY <1>11, <2>1 DEF ReplyMsg, Reply, PutOpen, HoldPort
  <2>2. CASE PutDropped(t, p)
    BY <1>11, <2>2 DEF ReplyMsg, Reply, PutDropped
  <2> QED BY <1>11, <2>1, <2>2 DEF ReplyMsg
<1>12. CASE CreateEmplace(t)
  <2>1. CASE m_name[port[t]] = Anonymous
    BY <1>12, <1>a, <2>1 DEF CreateEmplace
  <2>2. CASE m_name[port[t]] # Anonymous
    BY <1>12, <1>a, <2>2 DEF CreateEmplace
  <2> QED BY <2>1, <2>2
<1>13. CASE CloseErase(t)
  BY <1>13 DEF CloseErase
<1>14. CASE PutAppend(t)
  BY <1>14, <1>a DEF PutAppend, DropPort
<1>15. CASE PopFront(t)
  BY <1>15, <1>a, <1>b DEF PopFront, DropPort
<1>16. CASE WaitSwap(t)
  BY <1>6, <1>16, <1>a DEF WaitSwap, SwapFront
<1>17. CASE WaitEmpty(t)
  BY <1>17 DEF WaitEmpty
<1>18. CASE WaitLook(t)
  BY <1>18 DEF WaitLook
<1>19. CASE WaitReturnsNull(t)
  BY <1>19 DEF WaitReturnsNull
<1>20. Known \subseteq Ports
  BY DEF Known
<1> QED
  BY <1>1, <1>2, <1>3, <1>4, <1>5, <1>7, <1>8, <1>9, <1>10, <1>11, <1>12,
     <1>13, <1>14, <1>15, <1>16, <1>17, <1>18, <1>19, <1>20 DEF Begin, Continue

-----------------------------------------------------------------------------
LEMMA InitLocks == Init => Locks
  BY NullAssumption DEF Init, Locks, InSection, Making

LEMMA NextLocks ==
  ASSUME TypeOK, Locks, Registry, NEW t \in Threads, Begin(t) \/ Continue(t)
  PROVE  Locks'
<1> USE NullAssumption
    DEF TypeOK, Locks, InSection, Making, Goto, registry, ports, messages, locals
<1>1. ASSUME NEW n \in Names, FindPort(t, n) PROVE Locks'
  BY <1>1, KnownPort, RegisteredKnown DEF FindPort
<1>2. ASSUME NEW n \in Names, CreateFound(t, n) PROVE Locks'
  BY <1>1, <1>2 DEF CreateFound
<1>3. ASSUME NEW n \in Names \cup {Anonymous}, CreateConstruct(t, n) PROVE Locks'
  BY <1>3 DEF CreateConstruct
<1>4. CASE Destroy(t)
  BY <1>4 DEF Destroy
<1>5. ASSUME NEW p \in Known, CloseExchange(t, p) PROVE Locks'
  BY <1>5, KnownPort DEF CloseExchange
<1>7. ASSUME NEW p \in Known, Get(t, p) PROVE Locks'
  BY <1>7, KnownPort DEF Get, SwapFront, HoldPort, Free
<1>8. ASSUME NEW p \in Known, Wait(t, p) PROVE Locks'
  BY <1>8, KnownPort DEF Wait
<1>9. ASSUME NEW p \in Known, Clear(t, p) PROVE Locks'
  BY <1>9 DEF Clear
<1>10. ASSUME NEW p \in Known, NEW m \in Messages, PutOpen(t, p, m) PROVE Locks'
  BY <1>10, KnownPort DEF PutOpen, HoldPort, Free
<1>11. ASSUME NEW p \in Known, PutDropped(t, p) PROVE Locks'
  BY <1>11 DEF PutDropped
<1>12. CASE CreateEmplace(t)
  BY <1>12 DEF CreateEmplace
<1>13. CASE CloseErase(t)
  BY <1>13 DEF CloseErase
<1>14. CASE PutAppend(t)
  BY <1>14 DEF PutAppend, DropPort
<1>15. CASE PopFront(t)
  BY <1>15 DEF PopFront, DropPort
<1>16. CASE WaitSwap(t)
  BY <1>16 DEF WaitSwap, SwapFront, HoldPort, Free
<1>17. CASE WaitEmpty(t)
  BY <1>17 DEF WaitEmpty
<1>18. CASE WaitLook(t)
  BY <1>18 DEF WaitLook
<1>19. CASE WaitReturnsNull(t)
  BY <1>19 DEF WaitReturnsNull
<1> QED
  BY <1>1, <1>2, <1>3, <1>4, <1>5, <1>7, <1>8, <1>9, <1>10, <1>11, <1>12,
     <1>13, <1>14, <1>15, <1>16, <1>17, <1>18, <1>19
     DEF Begin, Continue, Put, ReplyMsg

-----------------------------------------------------------------------------
LEMMA InitRegistry == Init => Registry
  BY NullAssumption
     DEF Init, Registry, Registered, RegistryExact, Listed, BeingClosed,
         Closing, Known

\* A step of t that is no part of CreatePort or Close.
Elsewhere(t) ==
  /\ UNCHANGED <<tablesLock, s_portTable, s_portMap, made, m_name, m_open>>
  /\ pc[t] \notin {"emplace", "closing"}
  /\ pc'[t] \notin {"emplace", "closing"}
  /\ \A u \in Threads \ {t} : pc'[u] = pc[u] /\ port'[u] = port[u]

LEMMA ElsewhereRegistry ==
  ASSUME Registry, NEW t \in Threads, Elsewhere(t)
  PROVE  Registry'
<1>1. Known' = Known
  BY DEF Elsewhere, Known
<1>2. \A p : BeingClosed(p)' <=> BeingClosed(p)
  BY DEF Elsewhere, BeingClosed
<1>3. \A p : Listed(p)' <=> Listed(p)
  BY DEF Elsewhere, Listed
<1>4. \A n : Registered(n)' = Registered(n)
  BY DEF Elsewhere, Registered
<1> QED BY <1>1, <1>2, <1>3, <1>4 DEF Registry, RegistryExact, Elsewhere, Closing

LEMMA ConstructRegistry ==
  ASSUME TypeOK, Locks, Registry, NEW t \in Threads,
         NEW n \in Names \cup {Anonymous}, CreateConstruct(t, n)
  PROVE  Registry'
<1>1. PICK p \in Ports \ made :
        /\ made' = made \cup {p}
        /\ m_name' = [m_name EXCEPT ![p] = n]
        /\ m_open' = [m_open EXCEPT ![p] = TRUE]
        /\ port' = [port EXCEPT ![t] = p]
  BY DEF CreateConstruct
<1>2. /\ pc' = [pc EXCEPT ![t] = "emplace"] /\ pc[t] = "idle"
      /\ tablesLock = NoThread /\ Registered(n) = NoPort
      /\ s_portTable' = s_portTable /\ s_portMap' = s_portMap
  BY DEF CreateConstruct, Goto
<1>3. \A q : q \in Known' <=> q \in Known
  BY <1>1, <1>2 DEF TypeOK, Locks, Known, Making
<1>4. \A u \in Threads : pc[u] # "emplace"
  BY <1>2, NullAssumption DEF Locks
<1>5. \A q \in Known : Listed(q)' <=> Listed(q)
  BY <1>2 DEF Listed
<1>6. \A q \in Known : BeingClosed(q)' <=> BeingClosed(q)
  BY <1>1, <1>2 DEF TypeOK, BeingClosed, Known
<1>7. \A q \in Known : q # p
  BY DEF Known
<1>8. \A k : Registered(k)' = Registered(k)
  BY <1>2 DEF Registered
<1>9. \A u \in Threads : pc[u] = "closing" => port[u] # p
  BY DEF Locks
<1>10. RegistryExact'
  BY <1>1, <1>3, <1>5, <1>6, <1>7 DEF Registry, RegistryExact, TypeOK, Known
<1>11. /\ \A k \in Names : s_portTable'[k] # NoPort =>
             s_portTable'[k] \in Known' /\ m_name'[s_portTable'[k]] = k
       /\ \A q \in s_portMap' : q \in Known' /\ m_name'[q] = Anonymous
       /\ \A q \in Ports : m_open'[q] => q \in made'
  BY <1>1, <1>2, <1>3, <1>7 DEF Registry, TypeOK, Known
<1>12. \A u \in Threads : pc'[u] = "emplace" =>
         m_open'[port'[u]] /\ Registered(m_name[port[u]])' = NoPort
  BY <1>1, <1>2, <1>4, <1>8 DEF TypeOK
<1>13. /\ \A u, v \in Threads : Closing(u, port[v])' /\ Closing(v, port[u])' => u = v
       /\ \A u \in Threads : pc'[u] = "closing" => ~m_open'[port'[u]]
  BY <1>1, <1>2, <1>9 DEF Registry, TypeOK, Closing, Locks
<1> QED BY <1>10, <1>11, <1>12, <1>13 DEF Registry

LEMMA EmplaceRegistry ==
  ASSUME TypeOK, Locks, Registry, NEW t \in Threads, CreateEmplace(t)
  PROVE  Registry'
<1> DEFINE p == port[t]
<1>1. /\ pc[t] = "emplace" /\ pc' = [pc EXCEPT ![t] = "idle"]
      /\ port' = port /\ made' = made /\ m_name' = m_name /\ m_open' = m_open
      /\ p \in made /\ m_open[p] /\ Registered(m_name[p]) = NoPort
  BY DEF CreateEmplace, Goto, locals, ports, Locks, Registry
<1>2. \A u \in Threads : pc'[u] # "emplace"
  BY <1>1 DEF TypeOK, Locks
<1>3. \A q : q \in Known' <=> q \in made
  BY <1>1, <1>2 DEF Known
<1>4. \A q : q \in Known <=> q \in made /\ q # p
  BY <1>1, <1>2, KnownPort DEF TypeOK, Locks, Making
<1>5. \A q : BeingClosed(q)' <=> BeingClosed(q)
  BY <1>1 DEF TypeOK, BeingClosed
<1>6. \A q \in made : Listed(q)' <=> Listed(q) \/ q = p
  <2>1. CASE m_name[p] = Anonymous
    BY <2>1, <1>1 DEF CreateEmplace, Listed
  <2>2. CASE m_name[p] # Anonymous
    <3>1. /\ s_portMap' = s_portMap /\ m_name[p] \in Names
          /\ s_portTable' = [s_portTable EXCEPT ![m_name[p]] = p]
          /\ s_portTable[m_name[p]] = NoPort
      BY <2>2, <1>1 DEF CreateEmplace, TypeOK, Registered
    <3> QED BY <3>1, NullAssumption DEF Listed, TypeOK
  <2> QED BY <2>1, <2>2
<1>7. RegistryExact'
  BY <1>1, <1>3, <1>4, <1>5, <1>6 DEF Registry, RegistryExact
<1>8. /\ \A k \in Names : s_portTable'[k] # NoPort =>
             s_portTable'[k] \in Known' /\ m_name'[s_portTable'[k]] = k
      /\ \A q \in s_portMap' : q \in Known' /\ m_name'[q] = Anonymous
  <2>1. CASE m_name[p] = Anonymous
    BY <2>1, <1>1, <1>3, <1>4 DEF CreateEmplace, Registry, TypeOK
  <2>2. CASE m_name[p] # Anonymous
    BY <2>2, <1>1, <1>3, <1>4 DEF CreateEmplace, Registry, TypeOK
  <2> QED BY <2>1, <2>2
<1> QED BY <1>1, <1>2, <1>7, <1>8 DEF Registry, Closing, TypeOK

LEMMA ExchangeRegistry ==
  ASSUME TypeOK, Locks, Registry, NEW t \in Threads, NEW p \in Known,
         CloseExchange(t, p)
  PROVE  Registry'
<1>1. /\ pc[t] = "idle" /\ port' = [port EXCEPT ![t] = p]
      /\ pc' = [pc EXCEPT ![t] = IF m_open[p] THEN "closing" ELSE "idle"]
      /\ m_open' = [m_open EXCEPT ![p] = FALSE]
      /\ UNCHANGED <<tablesLock, s_portTable, s_portMap, made, m_name>>
  BY DEF CloseExchange, Goto, registry, TypeOK
<1>2. p \in made /\ p \in Ports /\ \A u \in Threads : ~Making(u, p)
  BY KnownPort DEF TypeOK
<1>3. \A q : q \in Known' <=> q \in Known
  BY <1>1 DEF TypeOK, Known
<1>4. \A q : Listed(q)' <=> Listed(q)
  BY <1>1 DEF Listed
<1>5. \A q : BeingClosed(q)' <=> BeingClosed(q) \/ (q = p /\ m_open[p])
  BY <1>1 DEF BeingClosed, TypeOK
<1>6. \A k : Registered(k)' = Registered(k)
  BY <1>1 DEF Registered
<1>7. RegistryExact'
  BY <1>1, <1>2, <1>3, <1>4, <1>5 DEF Registry, RegistryExact, TypeOK, Known
<1>8. \A u \in Threads : pc'[u] = "emplace" =>
         m_open'[port'[u]] /\ Registered(m_name[port[u]])' = NoPort
  BY <1>1, <1>2, <1>6 DEF Registry, TypeOK, Making, Locks
<1>9. \A u, v \in Threads : Closing(u, port[v])' /\ Closing(v, port[u])' => u = v
  BY <1>1 DEF Registry, TypeOK, Closing
<1>10. \A u \in Threads : pc'[u] = "closing" => ~m_open'[port'[u]]
  BY <1>1, <1>2 DEF Registry, TypeOK, Locks
<1> QED BY <1>1, <1>3, <1>7, <1>8, <1>9, <1>10 DEF Registry, TypeOK

LEMMA EraseRegistry ==
  ASSUME TypeOK, Locks, Registry, NEW t \in Threads, CloseErase(t)
  PROVE  Registry'
<1> DEFINE p == port[t]
<1>1. /\ pc[t] = "closing" /\ pc' = [pc EXCEPT ![t] = "idle"]
      /\ s_portMap' = s_portMap \ {p}
      /\ s_portTable' = [n \in Names |-> IF s_portTable[n] = p
                                            THEN NoPort ELSE s_portTable[n]]
      /\ UNCHANGED <<made, m_name, m_open, port>>
      /\ ~m_open[p] /\ p \in made
  BY DEF CloseErase, Goto, ports, locals, Registry, Locks
<1>2. \A q : q \in Known' <=> q \in Known
  BY <1>1 DEF TypeOK, Known
<1>3. \A q \in made : Listed(q)' <=> Listed(q) /\ q # p
  BY <1>1, NullAssumption DEF Listed, TypeOK
<1>4. \A q : BeingClosed(q)' <=> BeingClosed(q) /\ q # p
  BY <1>1 DEF BeingClosed, Registry, Closing, TypeOK
<1>5. RegistryExact'
  BY <1>1, <1>2, <1>3, <1>4 DEF Registry, RegistryExact, Known
<1>6. \A k : Registered(k) = NoPort => Registered(k)' = NoPort
  BY <1>1 DEF Registered
<1> QED BY <1>1, <1>2, <1>5, <1>6 DEF Registry, Closing, TypeOK

LEMMA ElsewhereSteps ==
  ASSUME TypeOK, NEW t \in Threads
  PROVE  /\ \A n : FindPort(t, n) \/ CreateFound(t, n) => Elsewhere(t)
         /\ Destroy(t) => Elsewhere(t)
         /\ \A p : Get(t, p) \/ Wait(t, p) \/ Clear(t, p) => Elsewhere(t)
         /\ \A p, m : PutOpen(t, p, m) \/ PutDropped(t, p) => Elsewhere(t)
         /\ PutAppend(t) \/ PopFront(t) => Elsewhere(t)
         /\ WaitSwap(t) \/ WaitEmpty(t) \/ WaitLook(t) \/ WaitReturnsNull(t)
               => Elsewhere(t)
<1> USE DEF registry, ports, messages, locals, Goto, Elsewhere, TypeOK
<1>1. ASSUME NEW n, FindPort(t, n) \/ CreateFound(t, n) PROVE Elsewhere(t)
  BY <1>1 DEF FindPort, CreateFound
<1>2. ASSUME Destroy(t) PROVE Elsewhere(t)
  BY <1>2 DEF Destroy
<1>3. ASSUME NEW p, Get(t, p) \/ Wait(t, p) \/ Clear(t, p) PROVE Elsewhere(t)
  BY <1>3 DEF Get, Wait, Clear, SwapFront
<1>4. ASSUME NEW p, NEW m, PutOpen(t, p, m) \/ PutDropped(t, p) PROVE Elsewhere(t)
  BY <1>4 DEF PutOpen, PutDropped
<1>5. ASSUME PutAppend(t) \/ PopFront(t) PROVE Elsewhere(t)
  BY <1>5 DEF PutAppend, PopFront
<1>6. ASSUME WaitSwap(t) \/ WaitEmpty(t) \/ WaitLook(t) \/ WaitReturnsNull(t)
      PROVE  Elsewhere(t)
  BY <1>6 DEF WaitSwap, SwapFront, WaitEmpty, WaitLook, WaitReturnsNull
<1> QED BY <1>1, <1>2, <1>3, <1>4, <1>5, <1>6

LEMMA NextRegistry ==
  ASSUME TypeOK, Locks, Registry, NEW t \in Threads, Begin(t) \/ Continue(t)
  PROVE  Registry'
  BY ElsewhereSteps, ElsewhereRegistry, ConstructRegistry, EmplaceRegistry,
     ExchangeRegistry, EraseRegistry DEF Begin, Continue, Put, ReplyMsg

-----------------------------------------------------------------------------
LEMMA InitLists == Init => Lists
  BY DEF Init, Lists, NoMovedFromMessage, Popping

\* A step of t that leaves the lists alone and starts no guarded section.
ListsAlone(t) ==
  /\ m_msgList' = m_msgList
  /\ pc[t] # "pop" /\ pc'[t] \notin {"pop", "append"}
  /\ \A u \in Threads \ {t} : /\ pc'[u] = pc[u] /\ port'[u] = port[u]
                              /\ arg'[u] = arg[u] /\ hand'[u] = hand[u]

LEMMA ListsAloneLists ==
  ASSUME Lists, NEW t \in Threads, ListsAlone(t)
  PROVE  Lists'
<1>1. \A u \in Threads : \A p : Popping(u, p)' <=> Popping(u, p)
  BY DEF ListsAlone, Popping
<1> QED BY <1>1 DEF ListsAlone, Lists, NoMovedFromMessage

\* Nobody else is in a guarded section of a port whose lock t takes or holds.
LEMMA SectionAlone ==
  ASSUME Locks, NEW t \in Threads, NEW p \in Ports,
         Free(p) \/ InSection(t, p)
  PROVE  \A u \in Threads \ {t} : ~InSection(u, p)
  BY NullAssumption DEF Locks, Free

LEMMA SwapLists ==
  ASSUME TypeOK, Locks, Lists, NEW t \in Threads, NEW p \in Ports,
         SwapFront(t, p), pc[t] \in {"idle", "wait"},
         pc' = [pc EXCEPT ![t] = "pop"]
  PROVE  Lists'
<1>1. /\ Free(p) /\ m_msgList[p] # <<>>
      /\ hand' = [hand EXCEPT ![t] = Head(m_msgList[p])]
      /\ m_msgList' = [m_msgList EXCEPT ![p] = <<NoMsg>> \o Tail(m_msgList[p])]
      /\ port' = [port EXCEPT ![t] = p] /\ arg' = arg
  BY DEF SwapFront, TypeOK
<1>2. \A u \in Threads \ {t} : ~InSection(u, p)
  BY <1>1, SectionAlone
<1>3. m_msgList[p] \in Seq(Messages)
  BY <1>1, <1>2 DEF Lists, Popping, InSection
<1>4. Head(m_msgList[p]) \in Messages /\ Tail(m_msgList[p]) \in Seq(Messages)
  BY <1>1, <1>3
<1>5. /\ m_msgList'[p] # <<>>
      /\ Tail(m_msgList'[p]) = Tail(m_msgList[p])
  <2>1. ASSUME NEW s \in Seq(Messages)
        PROVE  <<NoMsg>> \o s # <<>> /\ Tail(<<NoMsg>> \o s) = s
    <3>1. /\ s \in Seq(Messages \cup {NoMsg})
          /\ <<NoMsg>> \in Seq(Messages \cup {NoMsg})
      OBVIOUS
    <3> QED BY <3>1
  <2> QED BY <1>1, <1>4, <2>1 DEF TypeOK
<1>6. NoMovedFromMessage'
  BY <1>1, <1>4, NullAssumption DEF Lists, NoMovedFromMessage, TypeOK
<1>7. ASSUME NEW u \in Threads, pc'[u] = "pop"
      PROVE  m_msgList'[port'[u]] # <<>> /\ Tail(m_msgList'[port'[u]]) \in Seq(Messages)
  <2>1. CASE u = t
    BY <2>1, <1>1, <1>4, <1>5 DEF TypeOK
  <2>2. CASE u # t
    BY <2>2, <1>7, <1>1, <1>2 DEF Lists, TypeOK, InSection
  <2> QED BY <2>1, <2>2
<1>8. \A q \in Ports : (\A u \in Threads : ~Popping(u, q)')
                          => m_msgList'[q] \in Seq(Messages)
  BY <1>1 DEF Lists, Popping, TypeOK
<1>9. \A u \in Threads : pc'[u] = "append" => arg'[u] \in Messages
  BY <1>1 DEF Lists, TypeOK
<1> QED BY <1>6, <1>7, <1>8, <1>9 DEF Lists

LEMMA AppendLists ==
  ASSUME TypeOK, Locks, Lists, NEW t \in Threads, PutAppend(t)
  PROVE  Lists'
<1> DEFINE p == port[t]
<1>1. /\ pc[t] = "append" /\ pc' = [pc EXCEPT ![t] = "idle"]
      /\ m_msgList' = [m_msgList EXCEPT ![p] = Append(m_msgList[p], arg[t])]
      /\ arg' = [arg EXCEPT ![t] = NoMsg] /\ port' = port /\ hand' = hand
      /\ p \in Ports /\ arg[t] \in Messages
  BY DEF PutAppend, Goto, TypeOK, Locks, Lists
<1>2. \A u \in Threads \ {t} : ~InSection(u, p)
  BY <1>1, SectionAlone DEF InSection
<1>3. m_msgList[p] \in Seq(Messages)
  BY <1>1, <1>2 DEF Lists, Popping, InSection
<1>4. Append(m_msgList[p], arg[t]) \in Seq(Messages)
  BY <1>1, <1>3
<1> QED BY <1>1, <1>2, <1>4
        DEF Lists, NoMovedFromMessage, TypeOK, Popping, InSection

LEMMA PopLists ==
  ASSUME TypeOK, Locks, Lists, NEW t \in Threads, PopFront(t)
  PROVE  Lists'
<1> DEFINE p == port[t]
<1>1. /\ pc[t] = "pop" /\ pc' = [pc EXCEPT ![t] = "idle"]
      /\ m_msgList' = [m_msgList EXCEPT ![p] = Tail(m_msgList[p])]
      /\ arg' = arg /\ port' = port /\ hand' = hand
      /\ p \in Ports /\ Tail(m_msgList[p]) \in Seq(Messages)
  BY DEF PopFront, Goto, TypeOK, Locks, Lists, locals
<1>2. \A u \in Threads \ {t} : ~InSection(u, p)
  BY <1>1, SectionAlone DEF InSection
<1> QED BY <1>1, <1>2 DEF Lists, NoMovedFromMessage, TypeOK, Popping, InSection

LEMMA ClearLists ==
  ASSUME TypeOK, Locks, Lists, NEW t \in Threads, NEW p \in Ports, Clear(t, p)
  PROVE  Lists'
<1>1. \A u \in Threads \ {t} : ~InSection(u, p)
  BY SectionAlone DEF Clear
<1>2. <<>> \in Seq(Messages)
  OBVIOUS
<1> QED BY <1>1, <1>2 DEF Clear, Goto, locals, Lists, NoMovedFromMessage, TypeOK,
                          Popping, InSection

LEMMA NextLists ==
  ASSUME TypeOK, Locks, Lists, NEW t \in Threads, Begin(t) \/ Continue(t)
  PROVE  Lists'
<1> USE DEF registry, ports, messages, locals
<1>1. ASSUME NEW n \in Names, FindPort(t, n) PROVE Lists'
  BY <1>1, ListsAloneLists DEF FindPort, Goto, ListsAlone, TypeOK
<1>2. ASSUME NEW n \in Names, CreateFound(t, n) PROVE Lists'
  BY <1>1, <1>2 DEF CreateFound
<1>3. ASSUME NEW n, CreateConstruct(t, n) PROVE Lists'
  BY <1>3, ListsAloneLists DEF CreateConstruct, Goto, ListsAlone, TypeOK
<1>4. CASE Destroy(t)
  BY <1>4, ListsAloneLists DEF Destroy, Goto, ListsAlone, TypeOK
<1>5. ASSUME NEW p, CloseExchange(t, p) \/ Wait(t, p) PROVE Lists'
  BY <1>5, ListsAloneLists DEF CloseExchange, Wait, Goto, ListsAlone, TypeOK
<1>6. ASSUME NEW p \in Ports, Get(t, p) \/ Clear(t, p) PROVE Lists'
  BY <1>6, SwapLists, ClearLists DEF Get, Goto
<1>7. ASSUME NEW p \in Ports, NEW m \in Messages, PutOpen(t, p, m),
             \A u \in Threads \ {t} : hand'[u] = hand[u]
      PROVE  Lists'
  <2>1. /\ pc[t] = "idle" /\ pc' = [pc EXCEPT ![t] = "append"]
        /\ m_msgList' = m_msgList
        /\ port' = [port EXCEPT ![t] = p] /\ arg' = [arg EXCEPT ![t] = m]
    BY <1>7 DEF PutOpen, Goto
  <2>2. \A u \in Threads : \A q : Popping(u, q)' <=> Popping(u, q)
    BY <2>1 DEF Popping, TypeOK
  <2> QED BY <1>7, <2>1, <2>2 DEF Lists, NoMovedFromMessage, TypeOK
<1>8. ASSUME NEW p, PutDropped(t, p), \A u \in Threads \ {t} : hand'[u] = hand[u]
      PROVE  Lists'
  BY <1>8, ListsAloneLists DEF PutDropped, Goto, ListsAlone, TypeOK
<1>9. CASE CreateEmplace(t) \/ CloseErase(t)
  BY <1>9, ListsAloneLists DEF CreateEmplace, CloseErase, Goto, ListsAlone, TypeOK
<1>10. CASE WaitSwap(t)
  BY <1>10, SwapLists DEF WaitSwap, Goto, Locks, TypeOK
<1>11. CASE WaitEmpty(t) \/ WaitLook(t) \/ WaitReturnsNull(t)
  BY <1>11, ListsAloneLists
     DEF WaitEmpty, WaitLook, WaitReturnsNull, Goto, ListsAlone, TypeOK
<1>12. Known \subseteq Ports
  BY DEF Known, TypeOK
<1>13. ASSUME NEW m, NEW r, NEW p, New(t, m, r) \/ Reply(t, m, p)
       PROVE  \A u \in Threads \ {t} : hand'[u] = hand[u]
  BY <1>13 DEF New, Reply, TypeOK
<1> QED
  BY <1>1, <1>2, <1>3, <1>4, <1>5, <1>6, <1>7, <1>8, <1>9, <1>10, <1>11, <1>12,
     <1>13, AppendLists, PopLists DEF Begin, Continue, Put, ReplyMsg

-----------------------------------------------------------------------------
IInv == TypeOK /\ Locks /\ Registry /\ Lists

LEMMA SpecIInv == Spec => []IInv
<1>1. Init => IInv
  BY InitTypeOK, InitLocks, InitRegistry, InitLists DEF IInv
<1>2. IInv /\ [Next]_vars => IInv'
  <2>1. IInv /\ Next => IInv'
    BY NextTypeOK, NextLocks, NextRegistry, NextLists DEF IInv, Next
  <2>2. IInv /\ UNCHANGED vars => IInv'
    BY DEF vars, registry, ports, messages, locals, IInv, TypeOK, Locks,
           Registry, Lists, Making, Closing, Popping, InSection, Known, Listed,
           Registered, BeingClosed, RegistryExact, NoMovedFromMessage
  <2> QED BY <2>1, <2>2
<1> QED BY <1>1, <1>2, PTL DEF Spec

(***************************************************************************)
(* Every reachable state is well typed; this rests on the locks, without   *)
(* which pop_front could meet an empty list.                               *)
(***************************************************************************)
THEOREM TypeCorrect == Spec => []TypeOK
  BY SpecIInv, PTL DEF IInv

(***************************************************************************)
(* Whatever CreatePort and Close do at the same time, the tables list the  *)
(* ports that are open or about to be taken off, and no others.            *)
(***************************************************************************)
THEOREM RegistryIsExact == Spec => []RegistryExact
  BY SpecIInv, PTL DEF IInv, Registry

(***************************************************************************)
(* Two live ports never share a name.                                      *)
(***************************************************************************)
THEOREM NamesAreUnique == Spec => []OneOpenPortPerName
<1>1. IInv => OneOpenPortPerName
  <2> SUFFICES ASSUME IInv, NEW p \in made, NEW q \in made,
                      m_open[p], m_open[q],
                      m_name[p] = m_name[q], m_name[p] # Anonymous
               PROVE  p = q
    BY DEF OneOpenPortPerName
  <2>1. m_name[p] \in Names /\ Registered(m_name[p]) = s_portTable[m_name[p]]
    BY DEF IInv, TypeOK, Registered
  <2>2. ASSUME NEW r \in Known, m_open[r], m_name[r] = m_name[p]
        PROVE  s_portTable[m_name[p]] = r
    <3>1. Listed(r)
      BY <2>2 DEF IInv, Registry, RegistryExact
    <3>2. r \notin s_portMap
      BY <2>2 DEF IInv, Registry
    <3>3. PICK n \in Names : s_portTable[n] = r
      BY <3>1, <3>2 DEF Listed
    <3>4. n = m_name[r]
      BY <3>3, NullAssumption DEF IInv, Registry, Known, TypeOK
    <3> QED BY <3>3, <3>4, <2>2
  <2>3. ASSUME NEW r \in made, r \notin Known, m_name[r] = m_name[p]
        PROVE  /\ \E t \in Threads : Making(t, r)
               /\ s_portTable[m_name[p]] = NoPort
    BY <2>1, <2>3, KnownPort DEF IInv, Registry, Making
  <2>4. \A t, u \in Threads : Making(t, p) /\ Making(u, q) => p = q
    BY DEF IInv, Locks, Making
  <2>5. NoPort \notin Known
    BY NullAssumption DEF Known, IInv, TypeOK
  <2> QED BY <2>2, <2>3, <2>4, <2>5
<1> QED BY <1>1, SpecIInv, PTL

(***************************************************************************)
(* A receiver never gets the null pointer std::swap leaves at the front.   *)
(***************************************************************************)
THEOREM ReceivedIsAMessage == Spec => []NoMovedFromMessage
  BY SpecIInv, PTL DEF IInv, Lists

-----------------------------------------------------------------------------

Queued(p, m) == \E i \in DOMAIN m_msgList[p] : m_msgList[p][i] = m

Constructed == used \cup {NoMsg}

QueuedOnce ==
  \A p, q \in Ports : \A i \in DOMAIN m_msgList[p] : \A j \in DOMAIN m_msgList[q] :
     m_msgList[p][i] = m_msgList[q][j] /\ m_msgList[p][i] # NoMsg
        => p = q /\ i = j

Owned ==
  /\ \A t \in Threads : arg[t] \in Constructed /\ hand[t] \in Constructed
  /\ \A p \in Ports : \A i \in DOMAIN m_msgList[p] : m_msgList[p][i] \in Constructed
  /\ \A t, u \in Threads : arg[t] = arg[u] /\ arg[t] # NoMsg => t = u
  /\ \A t, u \in Threads : hand[t] = hand[u] /\ hand[t] # NoMsg => t = u
  /\ \A t, u \in Threads : arg[t] = hand[u] => arg[t] = NoMsg
  /\ \A t \in Threads, p \in Ports, m \in Messages :
        Queued(p, m) => arg[t] # m /\ hand[t] # m
  /\ QueuedOnce

LEMMA InitOwned == Init => Owned
  BY DEF Init, Owned, QueuedOnce, Constructed, Queued

\* A step that moves no message.
Unmoved == UNCHANGED <<used, arg, hand, m_msgList>>

LEMMA UnmovedOwned == Owned /\ Unmoved => Owned'
  BY DEF Owned, QueuedOnce, Unmoved, Constructed, Queued

LEMMA SwapOwned ==
  ASSUME TypeOK, Locks, Lists, Owned, NEW t \in Threads, NEW p \in Ports,
         SwapFront(t, p)
  PROVE  Owned'
<1> DEFINE s == m_msgList[p]
<1>1. /\ s # <<>> /\ s \in Seq(Messages \cup {NoMsg})
      /\ hand' = [hand EXCEPT ![t] = Head(s)]
      /\ m_msgList' = [m_msgList EXCEPT ![p] = <<NoMsg>> \o Tail(s)]
      /\ arg' = arg /\ used' = used
  BY DEF SwapFront, TypeOK, messages
<1>2. /\ 1 \in DOMAIN s /\ Head(s) = s[1]
      /\ DOMAIN m_msgList'[p] = DOMAIN s
      /\ \A i \in DOMAIN s : m_msgList'[p][i] = IF i = 1 THEN NoMsg ELSE s[i]
  <2>1. /\ <<NoMsg>> \in Seq(Messages \cup {NoMsg})
        /\ Tail(s) \in Seq(Messages \cup {NoMsg})
    BY <1>1
  <2>2. m_msgList'[p] = <<NoMsg>> \o Tail(s)
    BY <1>1 DEF TypeOK
  <2> QED BY <1>1, <2>1, <2>2
<1>3. \A q \in Ports : q # p => m_msgList'[q] = m_msgList[q]
  BY <1>1 DEF TypeOK
<1>4. \A q \in Ports, m \in Messages : Queued(q, m)' => Queued(q, m) /\ m # Head(s)
  <2> SUFFICES ASSUME NEW q \in Ports, NEW m \in Messages,
                      NEW i \in DOMAIN m_msgList'[q], m_msgList'[q][i] = m
               PROVE  Queued(q, m) /\ m # Head(s)
    BY DEF Queued
  <2>1. /\ i \in DOMAIN m_msgList[q] /\ m_msgList[q][i] = m
        /\ q # p \/ i # 1
    BY <1>2, <1>3, NullAssumption
  <2>2. QueuedOnce
    BY DEF Owned
  <2>3. m # Head(s)
    BY <1>2, <2>1, <2>2, NullAssumption DEF QueuedOnce
  <2> QED BY <2>1, <2>3 DEF Queued
<1>5. Head(s) \in Constructed
  BY <1>2 DEF Owned
<1>6. \A q \in Ports : \A i \in DOMAIN m_msgList'[q] :
         m_msgList'[q][i] \in Constructed
  BY <1>2, <1>3 DEF Owned, Constructed
<1>7. QueuedOnce'
  <2> SUFFICES ASSUME NEW q \in Ports, NEW r \in Ports,
                      NEW i \in DOMAIN m_msgList'[q], NEW j \in DOMAIN m_msgList'[r],
                      m_msgList'[q][i] = m_msgList'[r][j], m_msgList'[q][i] # NoMsg
               PROVE  q = r /\ i = j
    BY DEF QueuedOnce
  <2>1. /\ i \in DOMAIN m_msgList[q] /\ m_msgList'[q][i] = m_msgList[q][i]
        /\ j \in DOMAIN m_msgList[r] /\ m_msgList'[r][j] = m_msgList[r][j]
    BY <1>2, <1>3
  <2>2. QueuedOnce
    BY DEF Owned
  <2>3. m_msgList[q][i] = m_msgList[r][j] /\ m_msgList[q][i] # NoMsg
    BY <2>1
  <2> QED BY <2>1, <2>2, <2>3 DEF QueuedOnce
<1>8. \A u \in Threads : hand'[u] = IF u = t THEN Head(s) ELSE hand[u]
  BY <1>1 DEF TypeOK
<1>9. Queued(p, Head(s)) /\ Head(s) \in Messages
  <2>1. \A u \in Threads : ~Popping(u, p)
    BY NullAssumption DEF SwapFront, Free, Locks, InSection, Popping
  <2> QED BY <1>1, <1>2, <2>1 DEF Queued, Lists
<1> QED BY <1>1, <1>4, <1>5, <1>6, <1>7, <1>8, <1>9 DEF Owned, Constructed

LEMMA AppendOwned ==
  ASSUME TypeOK, Locks, Lists, Owned, NEW t \in Threads, PutAppend(t)
  PROVE  Owned'
<1> DEFINE p == port[t]
           s == m_msgList[p]
           m == arg[t]
<1>1. /\ p \in Ports /\ m \in Messages /\ s \in Seq(Messages \cup {NoMsg})
      /\ m_msgList' = [m_msgList EXCEPT ![p] = Append(s, m)]
      /\ arg' = [arg EXCEPT ![t] = NoMsg]
      /\ hand' = hand /\ used' = used
  BY DEF PutAppend, Goto, TypeOK, Locks, Lists, messages
<1>2. /\ \A i \in DOMAIN s : i # Len(s) + 1 /\ m_msgList'[p][i] = s[i]
      /\ m_msgList'[p][Len(s) + 1] = m
      /\ DOMAIN m_msgList'[p] = DOMAIN s \cup {Len(s) + 1}
  BY <1>1 DEF TypeOK
<1>3. \A q \in Ports : q # p => m_msgList'[q] = m_msgList[q]
  BY <1>1 DEF TypeOK
<1>4. \A u \in Threads : arg'[u] = IF u = t THEN NoMsg ELSE arg[u]
  BY <1>1 DEF TypeOK
<1>5. \A q \in Ports, k \in Messages : Queued(q, k)' => Queued(q, k) \/ k = m
  BY <1>2, <1>3 DEF Queued
<1>6. \A q \in Ports : ~Queued(q, m)
  BY <1>1 DEF Owned
<1>7. \A q \in Ports : \A i \in DOMAIN m_msgList'[q] :
         m_msgList'[q][i] \in Constructed
  BY <1>2, <1>3 DEF Owned
<1>8. QueuedOnce'
  <2> SUFFICES ASSUME NEW q \in Ports, NEW r \in Ports,
                      NEW i \in DOMAIN m_msgList'[q], NEW j \in DOMAIN m_msgList'[r],
                      m_msgList'[q][i] = m_msgList'[r][j], m_msgList'[q][i] # NoMsg
               PROVE  q = r /\ i = j
    BY DEF QueuedOnce
  <2>1. ASSUME NEW o \in Ports, NEW k \in DOMAIN m_msgList'[o]
        PROVE  \/ o = p /\ k = Len(s) + 1 /\ m_msgList'[o][k] = m
               \/ /\ k \in DOMAIN m_msgList[o]
                  /\ m_msgList'[o][k] = m_msgList[o][k] /\ m_msgList[o][k] # m
    BY <1>2, <1>3, <1>6 DEF Queued
  <2>2. QueuedOnce
    BY DEF Owned
  <2>3. CASE m_msgList'[q][i] = m
    <3>1. m_msgList'[r][j] = m
      BY <2>3
    <3> HIDE DEF p, s, m
    <3> QED BY <2>1, <2>3, <3>1
  <2>4. CASE m_msgList'[q][i] # m
    <3> HIDE DEF p, s, m
    <3>1. /\ i \in DOMAIN m_msgList[q] /\ j \in DOMAIN m_msgList[r]
          /\ m_msgList[q][i] = m_msgList[r][j] /\ m_msgList[q][i] # NoMsg
      BY <2>1, <2>4
    <3> QED BY <3>1, <2>2 DEF QueuedOnce
  <2> QED BY <2>3, <2>4
<1>9. \A u, v \in Threads :
         /\ arg[u] = m => u = t
         /\ hand[v] # m
  BY <1>1, NullAssumption DEF Owned
<1>10. /\ \A u \in Threads : arg'[u] \in Constructed' /\ hand'[u] \in Constructed'
       /\ \A u, v \in Threads : arg'[u] = arg'[v] /\ arg'[u] # NoMsg => u = v
       /\ \A u, v \in Threads : hand'[u] = hand'[v] /\ hand'[u] # NoMsg => u = v
       /\ \A u, v \in Threads : arg'[u] = hand'[v] => arg'[u] = NoMsg
  BY <1>1, <1>4 DEF Owned, Constructed
<1>11. \A u \in Threads, q \in Ports, k \in Messages :
          Queued(q, k)' => arg'[u] # k /\ hand'[u] # k
  BY <1>1, <1>4, <1>5, <1>9, NullAssumption DEF Owned
<1> HIDE DEF p, s, m
<1> QED BY <1>1, <1>7, <1>8, <1>10, <1>11 DEF Owned, Constructed

LEMMA PopOwned ==
  ASSUME TypeOK, Locks, Lists, Owned, NEW t \in Threads, PopFront(t)
  PROVE  Owned'
<1> DEFINE p == port[t]
           s == m_msgList[p]
<1>1. /\ p \in Ports /\ s # <<>> /\ s \in Seq(Messages \cup {NoMsg})
      /\ m_msgList' = [m_msgList EXCEPT ![p] = Tail(s)]
      /\ arg' = arg /\ hand' = hand /\ used' = used
  BY DEF PopFront, Goto, TypeOK, Locks, Lists, messages, locals
<1>2. \A i \in DOMAIN m_msgList'[p] :
         i \in Nat /\ i + 1 \in DOMAIN s /\ m_msgList'[p][i] = s[i + 1]
  BY <1>1 DEF TypeOK
<1>3. \A q \in Ports : q # p => m_msgList'[q] = m_msgList[q]
  BY <1>1 DEF TypeOK
<1>4. \A q \in Ports, k \in Messages : Queued(q, k)' => Queued(q, k)
  BY <1>2, <1>3 DEF Queued
<1>5. \A q \in Ports : \A i \in DOMAIN m_msgList'[q] :
         m_msgList'[q][i] \in Constructed
  BY <1>2, <1>3 DEF Owned
<1>6. QueuedOnce'
  <2> SUFFICES ASSUME NEW q \in Ports, NEW r \in Ports,
                      NEW i \in DOMAIN m_msgList'[q], NEW j \in DOMAIN m_msgList'[r],
                      m_msgList'[q][i] = m_msgList'[r][j], m_msgList'[q][i] # NoMsg
               PROVE  q = r /\ i = j
    BY DEF QueuedOnce
  <2> DEFINE At(o, k) == IF o = p THEN k + 1 ELSE k
  <2>1. ASSUME NEW o \in Ports, NEW k \in DOMAIN m_msgList'[o]
        PROVE  /\ At(o, k) \in DOMAIN m_msgList[o]
               /\ m_msgList'[o][k] = m_msgList[o][At(o, k)]
    BY <1>2, <1>3
  <2>2. QueuedOnce
    BY DEF Owned
  <2>3. q = r /\ At(q, i) = At(r, j)
    BY <2>1, <2>2 DEF QueuedOnce
  <2> QED BY <1>2, <2>3
<1> QED BY <1>1, <1>4, <1>5, <1>6 DEF Owned, Constructed

LEMMA ClearOwned ==
  ASSUME TypeOK, Owned, NEW t \in Threads, NEW p \in Ports, Clear(t, p)
  PROVE  Owned'
<1>1. /\ \A q \in Ports : m_msgList'[q] = IF q = p THEN <<>> ELSE m_msgList[q]
      /\ arg' = arg /\ hand' = hand /\ used' = used
  BY DEF Clear, TypeOK, messages, locals
<1>2. \A q \in Ports : \A i \in DOMAIN m_msgList'[q] :
         /\ i \in DOMAIN m_msgList[q]
         /\ m_msgList'[q] = m_msgList[q]
  BY <1>1
<1>3. QueuedOnce'
  BY <1>2 DEF Owned, QueuedOnce
<1> QED BY <1>1, <1>2, <1>3 DEF Owned, Constructed, Queued

\* The message t has just constructed, or has in hand, goes where it is put.
LEMMA PutOwned ==
  ASSUME TypeOK, Owned, NEW t \in Threads, NEW p \in Ports, NEW m \in Messages,
         \/ \E r : New(t, m, r)
         \/ Reply(t, m, p),
         PutOpen(t, p, m) \/ PutDropped(t, p)
  PROVE  Owned'
<1>1. /\ m_msgList' = m_msgList
      /\ \A u \in Threads : arg'[u] = arg[u] \/ (u = t /\ arg'[u] = m)
  BY DEF PutOpen, PutDropped, ports, TypeOK
<1>2. /\ used \subseteq used' /\ m \in used'
      /\ \A u \in Threads : /\ hand'[u] = hand[u] \/ hand'[u] = NoMsg
                            /\ hand'[u] # m /\ arg[u] # m
      /\ \A q \in Ports : ~Queued(q, m)
  <2>1. ASSUME NEW r, New(t, m, r) PROVE <1>2
    BY <2>1, NullAssumption DEF New, Owned, Constructed, Queued
  <2>2. CASE Reply(t, m, p)
    BY <2>2, NullAssumption DEF Reply, messages, TypeOK, Owned, Constructed
  <2> QED BY <2>1, <2>2
<1>3. QueuedOnce'
  BY <1>1 DEF Owned, QueuedOnce
<1>4. \A u \in Threads : arg'[u] \in Constructed' /\ hand'[u] \in Constructed'
  BY <1>1, <1>2 DEF Owned, Constructed
<1>5. /\ \A u, v \in Threads : arg'[u] = arg'[v] /\ arg'[u] # NoMsg => u = v
      /\ \A u, v \in Threads : hand'[u] = hand'[v] /\ hand'[u] # NoMsg => u = v
      /\ \A u, v \in Threads : arg'[u] = hand'[v] => arg'[u] = NoMsg
  BY <1>1, <1>2 DEF Owned
<1>6. \A u \in Threads, q \in Ports, k \in Messages :
         Queued(q, k)' => arg'[u] # k /\ hand'[u] # k
  BY <1>1, <1>2, NullAssumption DEF Owned, Queued
<1>7. \A q \in Ports : \A i \in DOMAIN m_msgList'[q] :
         m_msgList'[q][i] \in Constructed'
  BY <1>1, <1>2 DEF Owned, Constructed
<1> QED BY <1>3, <1>4, <1>5, <1>6, <1>7 DEF Owned

LEMMA NextOwned ==
  ASSUME TypeOK, Locks, Lists, Owned, NEW t \in Threads, Begin(t) \/ Continue(t)
  PROVE  Owned'
<1> USE DEF ports, messages, locals, Unmoved
<1>1. ASSUME NEW n, FindPort(t, n) \/ CreateFound(t, n) \/ CreateConstruct(t, n)
      PROVE  Owned'
  BY <1>1, UnmovedOwned DEF FindPort, CreateFound, CreateConstruct
<1>2. CASE Destroy(t)
  <2>1. /\ UNCHANGED <<used, arg, m_msgList>>
        /\ \A u \in Threads : hand'[u] = hand[u] \/ hand'[u] = NoMsg
    BY <1>2 DEF Destroy, TypeOK
  <2>2. \A q, m : Queued(q, m)' <=> Queued(q, m)
    BY <2>1 DEF Queued
  <2>3. QueuedOnce'
    BY <2>1 DEF Owned, QueuedOnce
  <2> QED BY <2>1, <2>2, <2>3, NullAssumption DEF Owned, Constructed
<1>3. ASSUME NEW p, CloseExchange(t, p) \/ Wait(t, p)
      PROVE  Owned'
  BY <1>3, UnmovedOwned DEF CloseExchange, Wait
<1>4. ASSUME NEW p \in Ports, Get(t, p) \/ Clear(t, p)
      PROVE  Owned'
  BY <1>4, SwapOwned, ClearOwned DEF Get
<1>5. ASSUME NEW p \in Ports, NEW m \in Messages,
             (\E r : Put(t, p, m, r)) \/ ReplyMsg(t, p, m)
      PROVE  Owned'
  BY <1>5, PutOwned DEF Put, ReplyMsg
<1>6. CASE CreateEmplace(t) \/ CloseErase(t)
  BY <1>6, UnmovedOwned DEF CreateEmplace, CloseErase
<1>7. CASE WaitSwap(t)
  BY <1>7, SwapOwned DEF WaitSwap, Goto, Locks, TypeOK
<1>8. CASE WaitEmpty(t) \/ WaitLook(t) \/ WaitReturnsNull(t)
  BY <1>8, UnmovedOwned DEF WaitEmpty, WaitLook, WaitReturnsNull
<1>9. Known \subseteq Ports
  BY DEF Known, TypeOK
<1> QED
  BY <1>1, <1>2, <1>3, <1>4, <1>5, <1>6, <1>7, <1>8, <1>9, AppendOwned, PopOwned
     DEF Begin, Continue

LEMMA SpecOwned == Spec => []Owned
<1>1. IInv /\ Owned /\ [Next]_vars => Owned'
  <2>1. IInv /\ Owned /\ Next => Owned'
    BY NextOwned DEF IInv, Next
  <2>2. Owned /\ UNCHANGED vars => Owned'
    BY UnmovedOwned DEF Unmoved, vars, ports, messages, locals
  <2> QED BY <2>1, <2>2
<1> QED BY <1>1, InitOwned, SpecIInv, PTL DEF Spec

(***************************************************************************)
(* A message the ports carry is owned once, whichever threads put, receive *)
(* and reply at the same time: std::move leaves no second owner behind.    *)
(***************************************************************************)
THEOREM MessagesHaveOneOwner == Spec => []SoleOwner
<1>1. Owned => SoleOwner
  <2> SUFFICES ASSUME Owned, NEW m \in Messages
               PROVE  Cardinality(Places(m)) <= 1
    BY DEF SoleOwner
  <2>1. \A x, y \in Places(m) : x = y
    <3> DEFINE ArgAt(t) == t \in Threads /\ arg[t] = m
               HandAt(t) == t \in Threads /\ hand[t] = m
               ListAt(p, i) == /\ p \in Ports /\ i \in DOMAIN m_msgList[p]
                               /\ m_msgList[p][i] = m
    <3>1. \A x \in Places(m) : \/ \E t : ArgAt(t) /\ x = <<"arg", t>>
                               \/ \E t : HandAt(t) /\ x = <<"hand", t>>
                               \/ \E p, i : ListAt(p, i) /\ x = <<p, i>>
      BY DEF Places
    <3>2. /\ \A t, u : ArgAt(t) /\ ArgAt(u) => t = u
          /\ \A t, u : HandAt(t) /\ HandAt(u) => t = u
          /\ \A t, u : ~(ArgAt(t) /\ HandAt(u))
      BY NullAssumption DEF Owned
    <3>3. /\ \A t, p, i : ListAt(p, i) => ~ArgAt(t) /\ ~HandAt(t)
      BY DEF Owned, Queued
    <3>4. \A p, q, i, j : ListAt(p, i) /\ ListAt(q, j) => p = q /\ i = j
      BY NullAssumption DEF Owned, QueuedOnce
    <3> HIDE DEF ArgAt, HandAt, ListAt
    <3> QED BY <3>1, <3>2, <3>3, <3>4
  <2>2. CASE Places(m) = {}
    BY <2>2, FS_EmptySet
  <2>3. CASE Places(m) # {}
    <3>1. PICK x : x \in Places(m)
      BY <2>3
    <3>2. Places(m) = {x}
      BY <2>1, <3>1
    <3> QED BY <3>2, FS_Singleton
  <2> QED BY <2>2, <2>3
<1> QED BY <1>1, SpecOwned, PTL

-----------------------------------------------------------------------------
Sections ==
  /\ \A t \in Threads : pc[t] = "append" => m_open[port[t]]
  /\ \A t \in Threads : pc[t] \in {"wait", "look"} => hand[t] = NoMsg
  /\ \A t \in Threads : pc[t] = "pop" => m_msgList[port[t]][1] = NoMsg

\* A step of t that enters no section and changes nothing the others rely on.
Outside(t) ==
  /\ pc'[t] \notin {"append", "pop"}
  /\ pc'[t] \in {"wait", "look"} => hand'[t] = NoMsg
  /\ \A u \in Threads \ {t} : /\ pc'[u] = pc[u] /\ port'[u] = port[u]
                              /\ hand'[u] = hand[u]
                              /\ pc[u] = "append" /\ m_open[port[u]]
                                    => m_open'[port[u]]
                              /\ pc[u] = "pop"
                                    => m_msgList'[port[u]] = m_msgList[port[u]]

LEMMA OutsideSections ==
  ASSUME Sections, NEW t \in Threads, Outside(t)
  PROVE  Sections'
  BY DEF Sections, Outside

LEMMA SwapSections ==
  ASSUME TypeOK, Locks, Sections, NEW t \in Threads, NEW p \in Ports,
         SwapFront(t, p), pc' = [pc EXCEPT ![t] = "pop"]
  PROVE  Sections'
<1>1. /\ m_msgList[p] # <<>> /\ port' = [port EXCEPT ![t] = p]
      /\ m_msgList' = [m_msgList EXCEPT ![p] = <<NoMsg>> \o Tail(m_msgList[p])]
      /\ m_open' = m_open
      /\ \A u \in Threads : u # t => hand'[u] = hand[u]
  BY DEF SwapFront, TypeOK
<1>2. \A u \in Threads \ {t} : ~InSection(u, p)
  BY SectionAlone DEF SwapFront
<1>3. m_msgList'[p][1] = NoMsg
  <2>1. /\ <<NoMsg>> \in Seq(Messages \cup {NoMsg})
        /\ Tail(m_msgList[p]) \in Seq(Messages \cup {NoMsg})
    BY <1>1 DEF TypeOK
  <2>2. m_msgList'[p] = <<NoMsg>> \o Tail(m_msgList[p])
    BY <1>1 DEF TypeOK
  <2> QED BY <2>1, <2>2
<1> QED BY <1>1, <1>2, <1>3 DEF Sections, TypeOK, InSection

LEMMA NextSections ==
  ASSUME TypeOK, Locks, Sections, NEW t \in Threads, Begin(t) \/ Continue(t)
  PROVE  Sections'
<1> USE DEF registry, ports, messages, locals, Goto
<1>1. ASSUME NEW n, FindPort(t, n) \/ CreateFound(t, n) PROVE Outside(t)
  BY <1>1 DEF FindPort, CreateFound, Outside, TypeOK
<1>2. ASSUME NEW n, CreateConstruct(t, n) PROVE Outside(t)
  BY <1>2 DEF CreateConstruct, Outside, TypeOK
<1>3. CASE Destroy(t)
  BY <1>3, OutsideSections DEF Destroy, Outside, TypeOK
<1>4. ASSUME NEW p \in Ports, CloseExchange(t, p) PROVE Outside(t)
  <2>1. \A u \in Threads \ {t} : ~InSection(u, p)
    BY <1>4, SectionAlone DEF CloseExchange
  <2> QED BY <1>4, <2>1 DEF CloseExchange, Outside, InSection, TypeOK
<1>5. ASSUME NEW p \in Ports, Get(t, p) PROVE Sections'
  BY <1>5, SwapSections DEF Get
<1>6. ASSUME NEW p \in Ports, Wait(t, p) PROVE Outside(t)
  BY <1>6 DEF Wait, Outside, TypeOK
<1>7. ASSUME NEW p \in Ports, Clear(t, p) PROVE Outside(t)
  <2>1. \A u \in Threads \ {t} : ~InSection(u, p)
    BY <1>7, SectionAlone DEF Clear
  <2> QED BY <1>7, <2>1 DEF Clear, Outside, InSection, TypeOK
<1>8. ASSUME NEW p \in Ports, NEW m,
             (\E r : New(t, m, r)) \/ Reply(t, m, p),
             PutOpen(t, p, m) \/ PutDropped(t, p)
      PROVE  Sections'
  <2>1. \A u \in Threads : u # t => hand'[u] = hand[u]
    BY <1>8 DEF New, Reply, TypeOK
  <2>2. CASE PutOpen(t, p, m)
    BY <2>1, <2>2 DEF PutOpen, Sections, TypeOK
  <2>3. CASE PutDropped(t, p)
    BY <2>1, <2>3 DEF PutDropped, Sections, TypeOK
  <2> QED BY <1>8, <2>2, <2>3
<1>9. ASSUME CreateEmplace(t) \/ CloseErase(t) PROVE Outside(t)
  BY <1>9 DEF CreateEmplace, CloseErase, Outside, TypeOK
<1>10. ASSUME PutAppend(t) \/ PopFront(t) PROVE Outside(t)
  <2>1. InSection(t, port[t]) /\ port[t] \in Ports
    BY <1>10 DEF PutAppend, PopFront, InSection, Locks, TypeOK
  <2>2. \A u \in Threads \ {t} : ~InSection(u, port[t])
    BY <2>1, SectionAlone
  <2>3. CASE PutAppend(t)
    BY <2>1, <2>2, <2>3 DEF PutAppend, Outside, InSection, TypeOK
  <2>4. CASE PopFront(t)
    BY <2>1, <2>2, <2>4 DEF PopFront, Outside, InSection, TypeOK
  <2> QED BY <1>10, <2>3, <2>4
<1>11. CASE WaitSwap(t)
  BY <1>11, SwapSections DEF WaitSwap, Locks, TypeOK
<1>12. CASE WaitEmpty(t) \/ WaitLook(t) \/ WaitReturnsNull(t)
  <2>1. hand[t] = NoMsg \/ pc[t] = "null"
    BY <1>12 DEF WaitEmpty, WaitLook, WaitReturnsNull, Sections
  <2> QED BY <1>12, <2>1, OutsideSections
          DEF WaitEmpty, WaitLook, WaitReturnsNull, Outside, TypeOK
<1>13. Known \subseteq Ports
  BY DEF Known, TypeOK
<1> QED
  BY <1>1, <1>2, <1>3, <1>4, <1>5, <1>6, <1>7, <1>8, <1>9, <1>10, <1>11, <1>12,
     <1>13, OutsideSections DEF Begin, Continue, Put, ReplyMsg

LEMMA SpecSections == Spec => []Sections
<1>1. Init => Sections
  BY DEF Init, Sections
<1>2. IInv /\ Sections /\ [Next]_vars => Sections'
  <2>1. IInv /\ Sections /\ Next => Sections'
    BY NextSections DEF IInv, Next
  <2>2. Sections /\ UNCHANGED vars => Sections'
    BY DEF Sections, vars, ports, locals
  <2> QED BY <2>1, <2>2
<1> QED BY <1>1, <1>2, SpecIInv, PTL DEF Spec

-----------------------------------------------------------------------------
(***************************************************************************)
(* The refinement, one lemma per kind of step.                             *)
(***************************************************************************)
MailInv == IInv /\ Owned /\ Sections

LEMMA SpecMailInv == Spec => []MailInv
  BY SpecIInv, SpecOwned, SpecSections, PTL DEF MailInv

\* A list nobody is popping has no moved-from front.
LEMMA SettledList ==
  ASSUME MailInv, NEW p \in Ports, \A t \in Threads : ~Popping(t, p)
  PROVE  MailboxList[p] = m_msgList[p] /\ m_msgList[p] \in Seq(Messages)
<1>1. m_msgList[p] \in Seq(Messages)
  BY DEF MailInv, IInv, Lists
<1>2. m_msgList[p] # <<>> => m_msgList[p][1] # NoMsg
  BY <1>1, NullAssumption
<1> QED BY <1>1, <1>2 DEF MailboxList

LEMMA ElsewhereDirectory ==
  ASSUME NEW t \in Threads, Elsewhere(t)
  PROVE  UNCHANGED <<MailboxState, s_portTable, s_portMap>>
<1>1. Known' = Known
  BY DEF Elsewhere, Known
<1> QED BY <1>1 DEF Elsewhere, MailboxState

LEMMA ListsSame == m_msgList' = m_msgList => MailboxList' = MailboxList
  BY DEF MailboxList

LEMMA GiveUpStep ==
  ASSUME MailInv, NEW t \in Threads, Elsewhere(t), m_msgList' = m_msgList,
         hand[t] # NoMsg, hand' = [hand EXCEPT ![t] = NoMsg]
  PROVE  Mail!GiveUp(t)
  BY ElsewhereDirectory, ListsSame DEF Mail!GiveUp

LEMMA StutterStep ==
  ASSUME NEW t \in Threads, Elsewhere(t), hand' = hand, MailboxList' = MailboxList
  PROVE  UNCHANGED Mail!vars
  BY ElsewhereDirectory DEF Mail!vars

LEMMA TakeStep ==
  ASSUME MailInv, NEW t \in Threads, NEW p \in Ports, Elsewhere(t),
         SwapFront(t, p), hand[t] = NoMsg
  PROVE  Mail!Take(t, p)
<1>1. /\ m_msgList[p] # <<>> /\ hand' = [hand EXCEPT ![t] = Head(m_msgList[p])]
      /\ m_msgList' = [m_msgList EXCEPT ![p] = <<NoMsg>> \o Tail(m_msgList[p])]
  BY DEF SwapFront, MailInv, IInv, TypeOK
<1>2. \A u \in Threads : ~Popping(u, p)
  BY NullAssumption DEF SwapFront, Free, MailInv, IInv, Locks, InSection, Popping
<1>3. MailboxList[p] = m_msgList[p] /\ m_msgList[p] \in Seq(Messages)
  BY <1>2, SettledList
<1>4. MailboxList'[p] = Tail(m_msgList[p])
  <2> DEFINE s == Tail(m_msgList[p])
  <2>1. s \in Seq(Messages)
    BY <1>1, <1>3
  <2>2. s \in Seq(Messages \cup {NoMsg}) /\ <<NoMsg>> \in Seq(Messages \cup {NoMsg})
    BY <2>1
  <2>3. m_msgList'[p] = <<NoMsg>> \o s
    BY <1>1 DEF MailInv, IInv, TypeOK
  <2> HIDE DEF s
  <2>4. /\ <<NoMsg>> \o s # <<>> /\ (<<NoMsg>> \o s)[1] = NoMsg
        /\ Tail(<<NoMsg>> \o s) = s
    BY <2>2
  <2>5. MailboxList'[p] = s
    BY <2>3, <2>4 DEF MailboxList
  <2> QED BY <2>5 DEF s
<1>5. MailboxList' = [MailboxList EXCEPT ![p] = Tail(MailboxList[p])]
  BY <1>1, <1>3, <1>4 DEF MailboxList, MailInv, IInv, TypeOK
<1>6. MailboxList[p] # <<>> /\ hand' = [hand EXCEPT ![t] = Head(MailboxList[p])]
  BY <1>1, <1>3
<1> QED BY <1>5, <1>6, ElsewhereDirectory DEF Mail!Take

LEMMA PopStep ==
  ASSUME MailInv, NEW t \in Threads, PopFront(t)
  PROVE  MailboxList' = MailboxList
<1> DEFINE p == port[t]
<1>1. /\ p \in Ports /\ m_msgList[p] # <<>> /\ m_msgList[p][1] = NoMsg
      /\ m_msgList' = [m_msgList EXCEPT ![p] = Tail(m_msgList[p])]
      /\ Tail(m_msgList[p]) \in Seq(Messages)
  BY DEF PopFront, Goto, MailInv, IInv, Sections, Lists, Locks, TypeOK
<1>2. Tail(m_msgList[p]) # <<>> => Tail(m_msgList[p])[1] # NoMsg
  BY <1>1, NullAssumption
<1> HIDE DEF p
<1>3. m_msgList'[p] = Tail(m_msgList[p])
  BY <1>1 DEF MailInv, IInv, TypeOK
<1>4. MailboxList'[p] = MailboxList[p]
  BY <1>1, <1>2, <1>3 DEF MailboxList
<1> QED BY <1>1, <1>4 DEF MailboxList, MailInv, IInv, TypeOK

LEMMA SendStep ==
  ASSUME MailInv, NEW t \in Threads, PutAppend(t), Elsewhere(t)
  PROVE  Mail!Send(port[t], arg[t])
<1> DEFINE p == port[t]
           m == arg[t]
<1>1. /\ p \in Ports /\ m \in Messages /\ m_open[p] /\ p \in made
      /\ m_msgList' = [m_msgList EXCEPT ![p] = Append(m_msgList[p], m)]
      /\ hand' = hand /\ InSection(t, p) /\ pc[t] = "append"
  BY DEF PutAppend, Goto, MailInv, IInv, Lists, Locks, TypeOK, Sections, InSection
<1>2. \A u \in Threads : ~Popping(u, p)
  <2>1. \A u \in Threads \ {t} : ~InSection(u, p)
    BY <1>1, SectionAlone DEF MailInv, IInv
  <2> QED BY <1>1, <2>1 DEF InSection, Popping
<1>3. MailboxList[p] = m_msgList[p] /\ m_msgList[p] \in Seq(Messages)
  BY <1>1, <1>2, SettledList
<1>4. MailboxState[p] = "open"
  <2>1. p \in Known
    BY <1>1, KnownPort DEF MailInv, IInv, Locks, Making
  <2> QED BY <1>1, <2>1 DEF MailboxState
<1>5. ~Mail!Waiting(m)
  <2> SUFFICES ASSUME NEW q \in Ports, NEW i \in 1 .. Len(MailboxList[q]),
                      MailboxList[q][i] = m
               PROVE  FALSE
    BY DEF Mail!Waiting
  <2>1. m_msgList[q] \in Seq(Messages \cup {NoMsg})
    BY DEF MailInv, IInv, TypeOK
  <2>2. Queued(q, m)
    <3>1. CASE MailboxList[q] = m_msgList[q]
      BY <2>1, <3>1 DEF Queued
    <3>2. CASE m_msgList[q] # <<>> /\ MailboxList[q] = Tail(m_msgList[q])
      <4>1. i + 1 \in DOMAIN m_msgList[q] /\ m_msgList[q][i + 1] = m
        BY <2>1, <3>2
      <4> QED BY <4>1 DEF Queued
    <3> QED BY <3>1, <3>2 DEF MailboxList
  <2> QED BY <1>1, <2>2 DEF MailInv, Owned
<1>6. \A u \in Threads : hand[u] # m
  BY <1>1, NullAssumption DEF MailInv, Owned
<1>7. MailboxList' = [MailboxList EXCEPT ![p] = Append(MailboxList[p], m)]
  <2>1. /\ Append(m_msgList[p], m) # <<>>
        /\ Append(m_msgList[p], m)[1] # NoMsg
    BY <1>1, <1>3, NullAssumption
  <2> HIDE DEF p, m
  <2>2. MailboxList'[p] = Append(m_msgList[p], m)
    BY <1>1, <2>1 DEF MailboxList, MailInv, IInv, TypeOK
  <2> QED BY <1>1, <1>3, <2>2 DEF MailboxList, MailInv, IInv, TypeOK
<1> QED BY <1>1, <1>4, <1>5, <1>6, <1>7, ElsewhereDirectory DEF Mail!Send

LEMMA DiscardStep ==
  ASSUME MailInv, NEW t \in Threads, NEW p \in Ports, Clear(t, p), Elsewhere(t)
  PROVE  Mail!Discard(p) \/ UNCHANGED Mail!vars
<1>1. \A u \in Threads : ~Popping(u, p)
  BY NullAssumption DEF Clear, Free, MailInv, IInv, Locks, InSection, Popping
<1>2. MailboxList[p] = m_msgList[p]
  BY <1>1, SettledList
<1>3. m_msgList' = [m_msgList EXCEPT ![p] = <<>>] /\ hand' = hand
  BY DEF Clear, locals
<1>4. MailboxList' = [MailboxList EXCEPT ![p] = <<>>]
  BY <1>3 DEF MailboxList, MailInv, IInv, TypeOK
<1>5. CASE m_msgList[p] = <<>>
  <2>1. MailboxList' = MailboxList
    BY <1>2, <1>4, <1>5 DEF MailboxList
  <2> QED BY <1>3, <2>1, StutterStep
<1>6. CASE m_msgList[p] # <<>>
  BY <1>2, <1>3, <1>4, <1>6, ElsewhereDirectory DEF Mail!Discard
<1> QED BY <1>5, <1>6

LEMMA ConstructStep ==
  ASSUME MailInv, NEW t \in Threads, NEW n \in Names \cup {Anonymous},
         CreateConstruct(t, n)
  PROVE  UNCHANGED Mail!vars
<1>1. PICK p \in Ports \ made : /\ made' = made \cup {p}
                                /\ m_open' = [m_open EXCEPT ![p] = TRUE]
                                /\ port' = [port EXCEPT ![t] = p]
  BY DEF CreateConstruct
<1>2. /\ pc[t] = "idle" /\ pc' = [pc EXCEPT ![t] = "emplace"]
      /\ UNCHANGED <<s_portTable, s_portMap, m_msgList, hand>>
  BY DEF CreateConstruct, Goto
<1>3. \A q : q \in Known' <=> q \in Known
  BY <1>1, <1>2 DEF MailInv, IInv, TypeOK, Locks, Known
<1>4. p \notin Known
  BY <1>1 DEF Known
<1>5. MailboxState' = MailboxState
  BY <1>1, <1>3, <1>4 DEF MailboxState, MailInv, IInv, TypeOK
<1> QED BY <1>2, <1>5, ListsSame DEF Mail!vars

LEMMA OpenStep ==
  ASSUME MailInv, NEW t \in Threads, CreateEmplace(t)
  PROVE  Mail!Open(port[t])
<1> DEFINE p == port[t]
<1>1. /\ pc[t] = "emplace" /\ pc' = [pc EXCEPT ![t] = "idle"]
      /\ UNCHANGED <<made, m_open, port, m_msgList, hand>>
      /\ p \in Ports /\ p \in made /\ m_open[p] /\ Registered(m_name[p]) = NoPort
  BY DEF CreateEmplace, Goto, ports, locals, MailInv, IInv, TypeOK, Locks, Registry
<1>2. \A q : q \in Known <=> q \in made /\ q # p
  BY <1>1, KnownPort DEF MailInv, IInv, TypeOK, Locks, Making
<1>3. \A q : q \in Known' <=> q \in made
  BY <1>1 DEF Known, MailInv, IInv, TypeOK, Locks
<1>4. MailboxState[p] = "unmade"
  BY <1>1, <1>2 DEF MailboxState
<1>5. MailboxState' = [MailboxState EXCEPT ![p] = "open"]
  BY <1>1, <1>2, <1>3 DEF MailboxState
<1>6. \/ /\ \E n \in Names : /\ s_portTable[n] = NoPort
                             /\ s_portTable' = [s_portTable EXCEPT ![n] = p]
         /\ s_portMap' = s_portMap
      \/ s_portMap' = s_portMap \cup {p} /\ s_portTable' = s_portTable
  BY <1>1 DEF CreateEmplace, Registered, MailInv, IInv, TypeOK
<1> QED BY <1>1, <1>4, <1>5, <1>6, ListsSame DEF Mail!Open

LEMMA ShutStep ==
  ASSUME MailInv, NEW t \in Threads, NEW p \in Known, CloseExchange(t, p)
  PROVE  Mail!Shut(p) \/ UNCHANGED Mail!vars
<1>1. /\ pc[t] = "idle" /\ pc'[t] # "emplace"
      /\ \A u \in Threads \ {t} : pc'[u] = pc[u] /\ port'[u] = port[u]
      /\ m_open' = [m_open EXCEPT ![p] = FALSE] /\ p \in Ports
      /\ UNCHANGED <<s_portTable, s_portMap, made, m_msgList, hand>>
  BY DEF CloseExchange, Goto, registry, Known, MailInv, IInv, TypeOK
<1>2. Known' = Known
  BY <1>1 DEF Known
<1>3. CASE m_open[p]
  <2>1. MailboxState' = [MailboxState EXCEPT ![p] = "closed"]
    BY <1>1, <1>2 DEF MailboxState, MailInv, IInv, TypeOK
  <2> QED BY <1>1, <1>3, <2>1, ListsSame DEF Mail!Shut, MailboxState
<1>4. CASE ~m_open[p]
  <2>1. m_open' = m_open
    BY <1>1, <1>4 DEF MailInv, IInv, TypeOK
  <2>2. MailboxState' = MailboxState
    BY <1>2, <2>1 DEF MailboxState
  <2> QED BY <1>1, <2>2, ListsSame DEF Mail!vars
<1> QED BY <1>3, <1>4

LEMMA ForgetStep ==
  ASSUME MailInv, NEW t \in Threads, CloseErase(t)
  PROVE  Mail!Forget(port[t])
<1> DEFINE p == port[t]
<1>1. /\ pc[t] = "closing" /\ pc' = [pc EXCEPT ![t] = "idle"]
      /\ s_portMap' = s_portMap \ {p}
      /\ s_portTable' = [n \in Names |-> IF s_portTable[n] = p
                                            THEN NoPort ELSE s_portTable[n]]
      /\ UNCHANGED <<made, m_open, port, m_msgList, hand>>
      /\ p \in Ports /\ p \in made /\ ~m_open[p]
  BY DEF CloseErase, Goto, ports, locals, MailInv, IInv, TypeOK, Locks, Registry
<1>2. p \in Known
  BY <1>1, KnownPort DEF MailInv, IInv, Locks, Making
<1>3. Known' = Known
  BY <1>1 DEF Known, MailInv, IInv, TypeOK
<1>4. MailboxState[p] = "closed" /\ MailboxState' = MailboxState
  BY <1>1, <1>2, <1>3 DEF MailboxState
<1>5. Listed(p)
  BY <1>1, <1>2 DEF MailInv, IInv, Registry, RegistryExact, BeingClosed
<1>6. /\ \A n \in Names : s_portTable[n] = p => m_name[p] = n
      /\ p \in s_portMap => m_name[p] = Anonymous
  BY <1>1, NullAssumption DEF MailInv, IInv, Registry
<1>7. CASE p \in s_portMap
  <2>1. \A n \in Names : s_portTable[n] # p
    BY <1>6, <1>7, NullAssumption
  <2>2. s_portTable' = s_portTable
    BY <1>1, <2>1 DEF MailInv, IInv, TypeOK
  <2> QED BY <1>1, <1>4, <1>7, <2>2, ListsSame DEF Mail!Forget
<1>8. CASE p \notin s_portMap
  <2>1. PICK n \in Names : s_portTable[n] = p
    BY <1>5, <1>8 DEF Listed
  <2>2. s_portTable' = [s_portTable EXCEPT ![n] = NoPort]
    BY <1>1, <1>6, <2>1 DEF MailInv, IInv, TypeOK
  <2>3. s_portMap' = s_portMap
    BY <1>1, <1>8
  <2> QED BY <1>1, <1>4, <2>1, <2>2, <2>3, ListsSame DEF Mail!Forget
<1> QED BY <1>7, <1>8

LEMMA NextMailbox ==
  ASSUME MailInv, NEW t \in Threads, Begin(t) \/ Continue(t)
  PROVE  Mail!Next \/ UNCHANGED Mail!vars
<1>a. TypeOK /\ Known \subseteq Ports
  BY DEF MailInv, IInv, TypeOK, Known
<1> USE DEF Mail!Next
<1>1. ASSUME NEW n, FindPort(t, n) \/ CreateFound(t, n)
      PROVE  UNCHANGED Mail!vars
  BY <1>1, <1>a, ElsewhereSteps, StutterStep, ListsSame
     DEF FindPort, CreateFound, ports
<1>2. CASE Destroy(t)
  <2>1. Mail!GiveUp(t)
    BY <1>2, <1>a, ElsewhereSteps, GiveUpStep DEF Destroy, ports
  <2> QED BY <2>1
<1>3. ASSUME NEW p, Wait(t, p) PROVE UNCHANGED Mail!vars
  BY <1>3, <1>a, ElsewhereSteps, StutterStep, ListsSame DEF Wait, ports
<1>4. ASSUME NEW p \in Ports, Get(t, p) PROVE Mail!Take(t, p)
  BY <1>4, <1>a, ElsewhereSteps, TakeStep DEF Get
<1>5. ASSUME NEW p \in Ports, Clear(t, p)
      PROVE  Mail!Discard(p) \/ UNCHANGED Mail!vars
  BY <1>5, <1>a, ElsewhereSteps, DiscardStep
<1>6. ASSUME NEW p, NEW m, NEW r, Put(t, p, m, r) PROVE UNCHANGED Mail!vars
  BY <1>6, <1>a, ElsewhereSteps, StutterStep, ListsSame
     DEF Put, New, PutOpen, PutDropped, ports
<1>7. ASSUME NEW p, NEW m \in Messages, ReplyMsg(t, p, m) PROVE Mail!GiveUp(t)
  BY <1>7, <1>a, ElsewhereSteps, GiveUpStep, NullAssumption
     DEF ReplyMsg, Reply, PutOpen, PutDropped, ports
<1>8. CASE CreateEmplace(t)
  <2>1. port[t] \in Ports
    BY <1>8 DEF CreateEmplace, Goto, MailInv, IInv, Locks, TypeOK
  <2> QED BY <1>8, <2>1, OpenStep
<1>9. CASE CloseErase(t)
  <2>1. port[t] \in Ports
    BY <1>9 DEF CloseErase, Goto, MailInv, IInv, Locks, TypeOK
  <2> QED BY <1>9, <2>1, ForgetStep
<1>10. CASE PutAppend(t)
  <2>1. port[t] \in Ports /\ arg[t] \in Messages
    BY <1>10 DEF PutAppend, Goto, MailInv, IInv, Locks, Lists, TypeOK
  <2> QED BY <1>10, <1>a, <2>1, ElsewhereSteps, SendStep
<1>11. CASE PopFront(t)
  BY <1>11, <1>a, ElsewhereSteps, StutterStep, PopStep DEF PopFront, locals
<1>12. CASE WaitSwap(t)
  <2>1. port[t] \in Ports /\ hand[t] = NoMsg
    BY <1>12 DEF WaitSwap, Goto, MailInv, IInv, Locks, Sections, TypeOK
  <2>2. Mail!Take(t, port[t])
    BY <1>12, <1>a, <2>1, ElsewhereSteps, TakeStep DEF WaitSwap
  <2> QED BY <2>1, <2>2
<1>13. CASE WaitEmpty(t) \/ WaitLook(t) \/ WaitReturnsNull(t)
  BY <1>13, <1>a, ElsewhereSteps, StutterStep, ListsSame
     DEF WaitEmpty, WaitLook, WaitReturnsNull, ports, locals
<1>14. ASSUME NEW p \in Known, CloseExchange(t, p)
       PROVE  Mail!Shut(p) \/ UNCHANGED Mail!vars
  BY <1>14, ShutStep
<1>15. ASSUME NEW n \in Names \cup {Anonymous}, CreateConstruct(t, n)
       PROVE  UNCHANGED Mail!vars
  BY <1>15, ConstructStep
<1> QED
  BY <1>a, <1>1, <1>2, <1>3, <1>4, <1>5, <1>6, <1>7, <1>8, <1>9, <1>10, <1>11,
     <1>12, <1>13, <1>14, <1>15 DEF Begin, Continue

(***************************************************************************)
(* The message ports implement the mailboxes: a port opens when CreatePort *)
(* emplaces it, a message is sent by push_back, taken by std::swap, and    *)
(* every other step of msgports.cpp is invisible.                          *)
(***************************************************************************)
THEOREM PortsImplementMailbox == Spec => ImplementsMailbox
<1>1. Init => Mail!Init
  BY DEF Init, Mail!Init, MailboxState, MailboxList, Known
<1>2. MailInv /\ [Next]_vars => [Mail!Next]_(Mail!vars)
  <2>1. MailInv /\ Next => [Mail!Next]_(Mail!vars)
    BY NextMailbox DEF Next
  <2>2. UNCHANGED vars => UNCHANGED Mail!vars
    BY ListsSame DEF vars, registry, ports, messages, locals, Mail!vars,
                     MailboxState, Known
  <2> QED BY <2>1, <2>2
<1> QED BY <1>1, <1>2, SpecMailInv, PTL DEF Spec, ImplementsMailbox, Mail!Spec
=============================================================================
