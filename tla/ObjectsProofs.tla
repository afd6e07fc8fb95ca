--------------------------- MODULE ObjectsProofs ---------------------------
(***************************************************************************)
(* Proofs about Objects, for any objects, states, rooms and rank.  That no *)
(* object is lost rests on two more facts than the types: somebody who     *)
(* plays is in a room, so that what he drops lies somewhere; and a thread  *)
(* that waits for the critical section it holds has not set off anywhere,  *)
(* so that no arrival lets it go on with an object nowhere and unmarked.   *)
(***************************************************************************)
EXTENDS Objects, FiniteSetTheorems, WellFoundedInduction, TLAPS

\* A thread that waits for itself: it is in the critical section for adestroy.
Stuck == critical /\ dest = Nowhere

InRoom    == online => avatars[Player].room \in Rooms
Marked    == \A o \in Objs : location[o] = Nowhere => o \in zonked \/ Stuck
StateFunc == state \in [Objs -> Int]

IInv == TypeOK /\ StateFunc /\ InRoom /\ Marked

-----------------------------------------------------------------------------
LEMMA Numbers ==
  /\ Player # Idle /\ Slots = {Player, Idle}
  /\ Held(Player) = -5 /\ Held(Idle) = -15 /\ Nowhere = -1
  /\ Nowhere \notin Rooms /\ Held(Player) \notin Rooms /\ Held(Idle) \notin Rooms
  BY WorldAssumption DEF Slots, Player, Idle, Held, Nowhere

\* Of the locations there are, the two marks of add_obj are owned.
LEMMA Owners ==
  ASSUME TypeOK, NEW o \in Objs
  PROVE  /\ Owner(o) \in {-1, Idle, 20}
         /\ Owner(o) \in Slots \cup {-1} => Owner(o) \in {-1, Idle}
         /\ Owner(o) # -1 => IsOwned(o)
         /\ Owner(o) = Idle => location[o] = Held(Player)
         /\ Owner(o) = 20 => location[o] = Held(Idle)
<1>1. location[o] \in Nat \/ location[o] \in {-1, -5, -15}
  BY Numbers, WorldAssumption DEF TypeOK
<1> QED BY <1>1, Numbers DEF Owner, IsOwned, OwnerOffset, MAXU, Slots, Player, Idle

LEMMA StatesShared ==
  ASSUME NEW o \in Objs, NEW n \in States(o)
  PROVE  n \in Shared /\ Weight(n) \in Nat /\ Burden(n) \in Int
<1>1. n \in Shared
  BY DEF Shared
<1>2. Weight(n) \in Nat
  BY <1>1, WorldAssumption DEF Weight
<1>3. RankStrength * Weight(n) \in Nat
  BY <1>2, WorldAssumption
<1>4. (RankStrength * Weight(n)) \div RankMaxWeight \in Int
  BY <1>3, WorldAssumption
<1> QED BY <1>1, <1>2, <1>4 DEF Burden

\* The light of an avatar wraps, as an uint16_t does.
LEMMA Wraps ==
  ASSUME NEW n \in Int
  PROVE  n % Word \in 0 .. Word - 1
  BY DEF Word

LEMMA Books ==
  ASSUME NEW a \in Avatar, NEW o \in Objs, NEW n \in States(o), NEW lit \in BOOLEAN
  PROVE  /\ Laden(a, n, lit) \in Avatar /\ Laden(a, n, lit).room = a.room
         /\ Relieved(a, n, lit) \in Avatar /\ Relieved(a, n, lit).room = a.room
<1>1. Weight(n) \in Int /\ Burden(n) \in Int /\ Bit(lit) \in Int
  BY StatesShared DEF Bit
<1>2. a.light \in Int /\ a.numobj \in Int /\ a.weight \in Int /\ a.strength \in Int
  <2>1. a.light \in 0 .. Word - 1
    BY DEF Avatar
  <2>2. \A x \in 0 .. Word - 1 : x \in Int
    BY DEF Word
  <2> QED BY <2>1, <2>2 DEF Avatar
<1>3. /\ (a.light + Bit(lit)) % Word \in 0 .. Word - 1
      /\ (a.light - Bit(lit)) % Word \in 0 .. Word - 1
  BY <1>1, <1>2, Wraps
<1>4. /\ a.numobj + 1 \in Int /\ a.weight + Weight(n) \in Int
      /\ a.strength - Burden(n) \in Int
      /\ a.numobj - 1 \in Int /\ a.weight - Weight(n) \in Int
      /\ a.strength + Burden(n) \in Int
  BY <1>1, <1>2
<1> QED BY <1>3, <1>4 DEF Laden, Relieved, Avatar

LEMMA AvatarsAt ==
  ASSUME NEW av \in [Slots -> Avatar], NEW s \in Slots, NEW a \in Avatar
  PROVE  /\ [av EXCEPT ![s] = a] \in [Slots -> Avatar]
         /\ a.room = av[s].room =>
               \A p \in Slots : [av EXCEPT ![s] = a][p].room = av[p].room
  OBVIOUS

\* Booking and lighting leave everybody where he is.
LEMMA Booked ==
  ASSUME NEW av \in [Slots -> Avatar], NEW s \in Slots, NEW o \in Objs,
         NEW n \in States(o), NEW lit \in BOOLEAN
  PROVE  /\ add_obj(av, s, n, lit) \in [Slots -> Avatar]
         /\ rem_obj(av, s, n, lit) \in [Slots -> Avatar]
         /\ \A p \in Slots : /\ add_obj(av, s, n, lit)[p].room = av[p].room
                             /\ rem_obj(av, s, n, lit)[p].room = av[p].room
<1>1. /\ Laden(av[s], n, lit) \in Avatar
      /\ Laden(av[s], n, lit).room = av[s].room
      /\ Relieved(av[s], n, lit) \in Avatar
      /\ Relieved(av[s], n, lit).room = av[s].room
  BY Books
<1> QED BY <1>1, AvatarsAt DEF add_obj, rem_obj

LEMMA Lit ==
  ASSUME NEW av \in [Slots -> Avatar], NEW s \in Slots, NEW stray \in BOOLEAN
  PROVE  /\ lighting(av, s, stray) \in [Slots -> Avatar]
         /\ \A p \in Slots : lighting(av, s, stray)[p].room = av[p].room
<1>1. av[s].light \in 0 .. Word - 1
  BY DEF Avatar
<1>2. /\ [av[s] EXCEPT !.hadlight = av[s].light] \in Avatar
      /\ [av[s] EXCEPT !.hadlight = av[s].light].room = av[s].room
  BY <1>1 DEF Avatar
<1>3. /\ [av EXCEPT ![s].hadlight = av[s].light] \in [Slots -> Avatar]
      /\ \A p \in Slots : [av EXCEPT ![s].hadlight = av[s].light][p].room = av[p].room
  BY <1>2, AvatarsAt
<1> QED BY <1>3 DEF lighting

LEMMA Lost ==
  ASSUME TypeOK, NEW o \in Objs, Owner(o) \in Slots \cup {-1},
         NEW av \in [Slots -> Avatar], NEW stray \in BOOLEAN
  PROVE  /\ LoseObj(o, av, stray) \in [Slots -> Avatar]
         /\ \A p \in Slots : LoseObj(o, av, stray)[p].room = av[p].room
<1>1. state[o] \in States(o) /\ IsLit(o) \in BOOLEAN
  BY StatesShared DEF TypeOK, IsLit
<1>2. CASE Owner(o) \in Slots
  <2>1. PICK s \in Slots : s = Owner(o)
    BY <1>2
  <2>2. PICK m : m = rem_obj(av, s, state[o], IsLit(o))
    OBVIOUS
  <2>3. m \in [Slots -> Avatar] /\ \A p \in Slots : m[p].room = av[p].room
    BY <1>1, <2>2, Booked
  <2>4. /\ lighting(m, s, stray) \in [Slots -> Avatar]
        /\ \A p \in Slots : lighting(m, s, stray)[p].room = m[p].room
    BY <2>3, Lit
  <2>5. LoseObj(o, av, stray) = lighting(m, s, stray)
    BY <1>2, <2>1, <2>2 DEF LoseObj, Slots, Player, Idle
  <2> QED BY <2>3, <2>4, <2>5
<1>3. CASE Owner(o) = -1
  BY <1>3 DEF LoseObj
<1> QED BY <1>2, <1>3

LEMMA TakenIs ==
  ASSUME TypeOK, NEW o \in Objs, Owner(o) \in Slots \cup {-1}
  PROVE  /\ Taken(o) \in [Slots -> Avatar]
         /\ \A p \in Slots : Taken(o)[p].room = avatars[p].room
<1>1. state[o] \in States(o) /\ IsLit(o) \in BOOLEAN /\ avatars \in [Slots -> Avatar]
  BY StatesShared DEF TypeOK, IsLit
<1>2. CASE Owner(o) = -1
  BY <1>1, <1>2 DEF Taken
<1>3. CASE Owner(o) # -1
  <2>1. PICK s \in Slots : s = Owner(o)
    BY <1>3
  <2>2. Taken(o) = rem_obj(avatars, s, state[o], IsLit(o))
    BY <1>3, <2>1 DEF Taken
  <2> QED BY <1>1, <2>2, Booked
<1> QED BY <1>2, <1>3

LEMMA GivenLit ==
  ASSUME NEW av \in [Slots -> Avatar], NEW own \in Slots \cup {-1},
         NEW near \in BOOLEAN, NEW stray \in BOOLEAN
  PROVE  /\ GivenLight(av, own, near, stray) \in [Slots -> Avatar]
         /\ \A p \in Slots : GivenLight(av, own, near, stray)[p].room = av[p].room
<1>1. Player \in Slots /\ FALSE \in BOOLEAN
  BY DEF Slots
<1>2. PICK mine : mine = lighting(av, Player, FALSE)
  OBVIOUS
<1>3. mine \in [Slots -> Avatar] /\ \A p \in Slots : mine[p].room = av[p].room
  BY <1>1, <1>2, Lit
<1>4. CASE own = -1
  BY <1>2, <1>3, <1>4 DEF GivenLight
<1>5. CASE own # -1
  <2>1. PICK s \in Slots : s = own
    BY <1>5
  <2>2. PICK his : his = lighting(av, s, stray)
    OBVIOUS
  <2>3. his \in [Slots -> Avatar] /\ \A p \in Slots : his[p].room = av[p].room
    BY <2>2, Lit
  <2>4. PICK both : both = lighting(his, Player, FALSE)
    OBVIOUS
  <2>5. both \in [Slots -> Avatar] /\ \A p \in Slots : both[p].room = his[p].room
    BY <1>1, <2>3, <2>4, Lit
  <2>6. GivenLight(av, own, near, stray) \in {av, both}
    BY <1>5, <2>1, <2>2, <2>4 DEF GivenLight
  <2> QED BY <2>3, <2>5, <2>6
<1> QED BY <1>4, <1>5

LEMMA Rebooked ==
  ASSUME TypeOK, NEW o \in Objs, Owner(o) \in Slots \cup {-1},
         NEW n \in States(o), NEW lit \in BOOLEAN
  PROVE  /\ Rebook(o, avatars, n, lit) \in [Slots -> Avatar]
         /\ \A p \in Slots : Rebook(o, avatars, n, lit)[p].room = avatars[p].room
<1>1. state[o] \in States(o) /\ IsLit(o) \in BOOLEAN /\ avatars \in [Slots -> Avatar]
  BY StatesShared DEF TypeOK, IsLit
<1>2. CASE Owner(o) \in Slots
  <2>1. PICK s \in Slots : s = Owner(o)
    BY <1>2
  <2>2. PICK m : m = rem_obj(avatars, s, state[o], IsLit(o))
    OBVIOUS
  <2>3. m \in [Slots -> Avatar] /\ \A p \in Slots : m[p].room = avatars[p].room
    BY <1>1, <2>2, Booked
  <2>4. /\ add_obj(m, s, n, lit) \in [Slots -> Avatar]
        /\ \A p \in Slots : add_obj(m, s, n, lit)[p].room = m[p].room
    BY <2>3, Booked
  <2>5. Rebook(o, avatars, n, lit) = add_obj(m, s, n, lit)
    BY <1>2, <2>1, <2>2 DEF Rebook, Slots, Player, Idle
  <2> QED BY <2>3, <2>4, <2>5
<1>3. CASE Owner(o) = -1
  BY <1>1, <1>3 DEF Rebook
<1> QED BY <1>2, <1>3

\* A walk ends in the room it was for.
LEMMA Walked ==
  ASSUME TypeOK, NEW r \in Rooms
  PROVE  Walk(r) \in [Slots -> Avatar] /\ Walk(r)[Player].room = r
<1>1. Player \in Slots /\ avatars \in [Slots -> Avatar] /\ FALSE \in BOOLEAN
      /\ 0 \in 0 .. Word - 1
  BY DEF Slots, TypeOK, Word
<1>2. PICK out : out = [avatars EXCEPT ![Player].light = 0]
  OBVIOUS
<1>3. out \in [Slots -> Avatar]
  <2>1. [avatars[Player] EXCEPT !.light = 0] \in Avatar
    BY <1>1 DEF Avatar
  <2> QED BY <1>1, <1>2, <2>1
<1>4. PICK dimmed : dimmed = lighting(out, Player, FALSE)
  OBVIOUS
<1>5. dimmed \in [Slots -> Avatar]
  BY <1>1, <1>3, <1>4, Lit
<1>6. PICK arrived : arrived = [dimmed EXCEPT ![Player].room = r, ![Player].hadlight = 0,
                                              ![Player].light = avatars[Player].light]
  OBVIOUS
<1>7. arrived \in [Slots -> Avatar] /\ arrived[Player].room = r
  <2>1. avatars[Player].light \in 0 .. Word - 1
    BY <1>1 DEF Avatar
  <2>2. PICK a : a = [dimmed[Player] EXCEPT !.room = r, !.hadlight = 0,
                                           !.light = avatars[Player].light]
    OBVIOUS
  <2>3. a \in Avatar /\ a.room = r
    BY <1>1, <1>5, <2>1, <2>2 DEF Avatar
  <2>4. arrived = [dimmed EXCEPT ![Player] = a]
    BY <1>1, <1>5, <1>6, <2>2 DEF Avatar
  <2> QED BY <1>1, <1>5, <2>3, <2>4
<1>8. /\ lighting(arrived, Player, FALSE) \in [Slots -> Avatar]
      /\ lighting(arrived, Player, FALSE)[Player].room = arrived[Player].room
  BY <1>1, <1>7, Lit
<1>9. Walk(r) = lighting(arrived, Player, FALSE)
  BY <1>2, <1>4, <1>6 DEF Walk
<1> QED BY <1>7, <1>8, <1>9

-----------------------------------------------------------------------------
(***************************************************************************)
(* What a verb does to one object: it keeps the types, moves nobody, and   *)
(* where it puts the object nowhere, it marks it or its thread is stuck.   *)
(***************************************************************************)
LEMMA ObjectStep ==
  ASSUME IInv, Ready, NEW o \in Objs,
         NEW loc \in Rooms \cup {Nowhere, Held(Player), Held(Idle)},
         location' = [location EXCEPT ![o] = loc],
         state' \in [Objs -> Int], \A p \in Objs : state'[p] \in States(p),
         isLit' \in [Shared -> BOOLEAN],
         zonked' \subseteq Objs, \A p \in Objs : p # o => (p \in zonked' <=> p \in zonked),
         avatars' \in [Slots -> Avatar], avatars'[Player].room = avatars[Player].room,
         critical' \in BOOLEAN, UNCHANGED <<dest, visit, wild>>,
         loc = Nowhere => o \in zonked' \/ critical'
  PROVE  IInv'
<1>1. /\ location' \in [Objs -> Rooms \cup {Nowhere, Held(Player), Held(Idle)}]
      /\ location'[o] = loc
      /\ \A p \in Objs : p # o => location'[p] = location[p]
  BY DEF IInv, TypeOK
<1>2. online /\ dest = Nowhere /\ dest' = Nowhere /\ ~critical /\ online' = online
      /\ logins' = logins
  BY DEF Ready, visit
<1>3. TypeOK'
  BY <1>1, <1>2 DEF IInv, TypeOK, Held, Player, Idle
<1>4. \A p \in Objs : location'[p] = Nowhere => p \in zonked' \/ Stuck'
  BY <1>1, <1>2 DEF IInv, Marked, Stuck
<1> QED BY <1>2, <1>3, <1>4 DEF IInv, StateFunc, InRoom, Marked

\* Nothing but the avatars, and where the thread is.
LEMMA WalkStep ==
  ASSUME IInv, UNCHANGED <<things, visit, wild>>,
         avatars' \in [Slots -> Avatar], online => avatars'[Player].room \in Rooms,
         dest' \in Rooms \cup {Nowhere}, critical' \in BOOLEAN,
         ~online => dest' = Nowhere /\ ~critical',
         Stuck => Stuck'
  PROVE  IInv'
<1>1. TypeOK'
  BY DEF IInv, TypeOK, things, visit
<1> QED BY <1>1 DEF IInv, StateFunc, InRoom, Marked, things, visit

LEMMA ActIInv ==
  ASSUME IInv, NEW o \in Objs, Act(o)
  PROVE  IInv'
<1>1. /\ TypeOK /\ avatars \in [Slots -> Avatar] /\ state \in [Objs -> Int]
      /\ \A p \in Objs : state[p] \in States(p)
      /\ isLit \in [Shared -> BOOLEAN] /\ zonked \subseteq Objs /\ critical \in BOOLEAN
      /\ Player \in Slots /\ FALSE \in BOOLEAN
  BY DEF IInv, TypeOK, StateFunc, Slots
<1>2. Ready
  BY DEF Act, Get, Drop, Destroy, Recover, Send, SetState, osflag
<1>3. avatars[Player].room \in Rooms
  BY <1>2 DEF IInv, InRoom, Ready
<1>4. state[o] \in States(o) /\ IsLit(o) \in BOOLEAN
  BY <1>1, StatesShared DEF IsLit
<1>5. ASSUME Get(o), ~RunsWild(o)
      PROVE  IInv'
  <2>1. /\ Owner(o) \in Slots \cup {-1}
        /\ location' = [location EXCEPT ![o] = Held(Player)]
        /\ UNCHANGED <<state, isLit, zonked, dest, critical, visit, wild>>
    BY <1>5 DEF Get, thread
  <2>2. PICK near, stray, given :
          /\ near \in BOOLEAN /\ stray \in BOOLEAN
          /\ given = add_obj(Taken(o), Player, state[o], IsLit(o))
          /\ avatars' = IF IsLit(o) THEN GivenLight(given, Owner(o), near, stray) ELSE given
    BY <1>5 DEF Get
  <2>3. given \in [Slots -> Avatar] /\ given[Player].room = avatars[Player].room
    <3>1. PICK m \in [Slots -> Avatar] : m = Taken(o) /\ m[Player].room = avatars[Player].room
      BY <1>1, <2>1, TakenIs
    <3>2. given = add_obj(m, Player, state[o], IsLit(o))
      BY <2>2, <3>1
    <3> QED BY <1>1, <1>4, <3>1, <3>2, Booked
  <2>4. avatars' \in [Slots -> Avatar] /\ avatars'[Player].room = avatars[Player].room
    <3>1. /\ GivenLight(given, Owner(o), near, stray) \in [Slots -> Avatar]
          /\ \A p \in Slots :
                GivenLight(given, Owner(o), near, stray)[p].room = given[p].room
      BY <2>1, <2>2, <2>3, GivenLit
    <3> QED BY <1>1, <2>2, <2>3, <3>1
  <2>5. Held(Player) # Nowhere
    BY Numbers
  <2> QED BY <1>1, <1>2, <2>1, <2>4, <2>5, ObjectStep
<1>6. CASE Drop(o)
  <2>1. PICK lost : lost = rem_obj(avatars, Player, state[o], IsLit(o))
    OBVIOUS
  <2>2. lost \in [Slots -> Avatar] /\ lost[Player].room = avatars[Player].room
    BY <1>1, <1>4, <2>1, Booked
  <2>3. avatars' = lighting(lost, Player, FALSE)
    BY <1>6, <2>1 DEF Drop
  <2>4. avatars' \in [Slots -> Avatar] /\ avatars'[Player].room = avatars[Player].room
    BY <1>1, <2>2, <2>3, Lit
  <2>5. /\ location' = [location EXCEPT ![o] = avatars[Player].room]
        /\ UNCHANGED <<state, isLit, zonked, dest, critical, visit, wild>>
    BY <1>6 DEF Drop, thread
  <2>6. avatars[Player].room # Nowhere
    BY <1>3, Numbers
  <2> QED BY <1>1, <1>2, <1>3, <2>4, <2>5, <2>6, ObjectStep
<1>7. CASE Recover(o)
  <2>1. PICK seen : seen = [avatars EXCEPT ![Player].light = (@ + Bit(IsLit(o))) % Word]
    OBVIOUS
  <2>2. seen \in [Slots -> Avatar] /\ seen[Player].room = avatars[Player].room
    <3>1. avatars[Player].light + Bit(IsLit(o)) \in Int
      <4>1. avatars[Player].light \in 0 .. Word - 1
        BY <1>1 DEF Avatar
      <4>2. Bit(IsLit(o)) \in Int
        BY DEF Bit
      <4>3. \A x \in 0 .. Word - 1 : x \in Int
        BY DEF Word
      <4>4. avatars[Player].light \in Int
        BY <4>1, <4>3
      <4> QED BY <4>2, <4>4
    <3>2. PICK a : a = [avatars[Player] EXCEPT
                           !.light = (avatars[Player].light + Bit(IsLit(o))) % Word]
      OBVIOUS
    <3>3. a \in Avatar /\ a.room = avatars[Player].room
      BY <1>1, <3>1, <3>2, Wraps DEF Avatar
    <3>4. seen = [avatars EXCEPT ![Player] = a]
      BY <1>1, <2>1, <3>2
    <3> QED BY <1>1, <3>3, <3>4
  <2>3. avatars' = lighting(seen, Player, FALSE)
    BY <1>7, <2>1 DEF Recover
  <2>4. avatars' \in [Slots -> Avatar] /\ avatars'[Player].room = avatars[Player].room
    BY <1>1, <2>2, <2>3, Lit
  <2>5. /\ location' = [location EXCEPT ![o] = avatars[Player].room]
        /\ zonked' = zonked \ {o}
        /\ UNCHANGED <<state, isLit, dest, critical, visit, wild>>
    BY <1>7 DEF Recover, thread
  <2>6. avatars[Player].room # Nowhere
    BY <1>3, Numbers
  <2> QED BY <1>1, <1>2, <1>3, <2>4, <2>5, <2>6, ObjectStep
<1>8. CASE RunsWild(o)
  <2>1. wild' = TRUE /\ UNCHANGED <<things, avatars, thread, visit>>
    BY <1>8 DEF RunsWild
  <2> QED BY <2>1
          DEF IInv, TypeOK, StateFunc, InRoom, Marked, Stuck, things, thread, visit
<1>9. ASSUME NEW r \in Rooms, Send(o, r), ~RunsWild(o)
      PROVE  IInv'
  <2>1. /\ Owner(o) \in Slots \cup {-1}
        /\ location' = [location EXCEPT ![o] = r]
        /\ UNCHANGED <<state, isLit, zonked, dest, critical, visit, wild>>
    BY <1>9 DEF Send, thread
  <2>2. PICK stray \in BOOLEAN : avatars' = LoseObj(o, avatars, stray)
    BY <1>9 DEF Send
  <2>3. avatars' \in [Slots -> Avatar] /\ avatars'[Player].room = avatars[Player].room
    BY <1>1, <2>1, <2>2, Lost
  <2>4. r # Nowhere
    BY Numbers
  <2> QED BY <1>1, <1>2, <2>1, <2>3, <2>4, ObjectStep
<1>10. ASSUME Destroy(o), ~RunsWild(o)
       PROVE  IInv'
  <2>1. /\ Owner(o) \in Slots \cup {-1}
        /\ location' = [location EXCEPT ![o] = Nowhere]
        /\ UNCHANGED <<state, isLit, dest, visit, wild>>
    BY <1>10 DEF Destroy
  <2>2. PICK stray, lost :
          /\ stray \in BOOLEAN
          /\ lost = rem_obj(avatars, Owner(o), state[o], IsLit(o))
          /\ IF Owner(o) # -1 /\ Lights(lost[Owner(o)], stray)
               THEN /\ critical' = TRUE
                    /\ avatars' = IF lost[Owner(o)].light = 0
                                    THEN lighting(lost, Owner(o), stray)
                                    ELSE lost
                    /\ UNCHANGED zonked
               ELSE /\ avatars' = LoseObj(o, avatars, stray)
                    /\ zonked' = zonked \cup {o}
                    /\ UNCHANGED critical
    BY <1>10 DEF Destroy
  <2>3. CASE Owner(o) # -1 /\ Lights(lost[Owner(o)], stray)
    <3>1. PICK s \in Slots : s = Owner(o)
      BY <2>1, <2>3
    <3>2. lost \in [Slots -> Avatar] /\ lost[Player].room = avatars[Player].room
      BY <1>1, <1>4, <2>2, <3>1, Booked
    <3>3. critical' = TRUE /\ zonked' = zonked
          /\ avatars' \in {lost, lighting(lost, s, stray)}
      BY <2>2, <2>3, <3>1
    <3>4. avatars' \in [Slots -> Avatar] /\ avatars'[Player].room = avatars[Player].room
      BY <1>1, <2>2, <3>2, <3>3, Lit
    <3> QED BY <1>1, <1>2, <2>1, <3>3, <3>4, ObjectStep
  <2>4. CASE ~(Owner(o) # -1 /\ Lights(lost[Owner(o)], stray))
    <3>1. /\ avatars' = LoseObj(o, avatars, stray)
          /\ zonked' = zonked \cup {o} /\ critical' = critical
      BY <2>2, <2>4
    <3>2. avatars' \in [Slots -> Avatar] /\ avatars'[Player].room = avatars[Player].room
      BY <1>1, <2>1, <2>2, <3>1, Lost
    <3> QED BY <1>1, <1>2, <2>1, <3>1, <3>2, ObjectStep
  <2> QED BY <2>3, <2>4
\* The object is where it was, or with the one add_obj writes it for.
<1>11. ASSUME GiveBack(o), Owner(o) \in Slots \cup {-1}
       PROVE  \E loc \in Rooms \cup {Nowhere, Held(Player), Held(Idle)} :
                 /\ location' = [location EXCEPT ![o] = loc]
                 /\ loc = Nowhere => location[o] = Nowhere
  <2>1. CASE Owner(o) = -1
    <3>1. location = [location EXCEPT ![o] = location[o]]
      BY <1>1 DEF TypeOK
    <3>2. /\ location' = location
          /\ location[o] \in Rooms \cup {Nowhere, Held(Player), Held(Idle)}
      BY <1>1, <1>11, <2>1 DEF GiveBack, TypeOK
    <3> QED BY <3>1, <3>2
  <2>2. CASE Owner(o) # -1
    <3>1. Owner(o) = Idle
      BY <1>1, <1>11, <2>2, Owners
    <3>2. location' = [location EXCEPT ![o] = Held(Idle)]
      BY <1>11, <2>2, <3>1 DEF GiveBack
    <3>3. Held(Idle) # Nowhere
      BY Numbers
    <3> QED BY <3>2, <3>3
  <2> QED BY <2>1, <2>2
<1>12. location[o] = Nowhere => o \in zonked
  BY <1>2 DEF IInv, Marked, Stuck, Ready
<1>13. ASSUME NEW n \in States(o), SetState(o, n), ~RunsWild(o)
       PROVE  IInv'
  <2>1. /\ Owner(o) \in Slots \cup {-1} /\ GiveBack(o)
        /\ state' = [state EXCEPT ![o] = n]
        /\ isLit' = IF o \in ShowFire
                      THEN [isLit EXCEPT ![n] = IsLit(o)] ELSE isLit
        /\ UNCHANGED <<zonked, dest, critical, visit, wild>>
    BY <1>13 DEF SetState, thread
  <2>2. n \in Shared /\ n \in Int
    BY StatesShared, WorldAssumption DEF States
  <2>3. isLit' \in [Shared -> BOOLEAN] /\ isLit'[n] \in BOOLEAN
    BY <1>1, <1>4, <2>1, <2>2
  <2>4. state' \in [Objs -> Int] /\ \A p \in Objs : state'[p] \in States(p)
    BY <1>1, <2>1, <2>2
  <2>5. PICK stray, back :
          /\ stray \in BOOLEAN
          /\ back = Rebook(o, avatars, n, isLit'[n])
          /\ avatars' = IF Owner(o) = -1 \/ o \in ShowFire THEN back
                        ELSE lighting(back, Owner(o), stray)
    BY <1>13 DEF SetState
  <2>6. back \in [Slots -> Avatar] /\ back[Player].room = avatars[Player].room
    <3>1. PICK lit \in BOOLEAN : lit = isLit'[n]
      BY <2>3
    <3> QED BY <1>1, <2>1, <2>5, <3>1, Rebooked
  <2>7. avatars' \in [Slots -> Avatar] /\ avatars'[Player].room = avatars[Player].room
    <3>1. CASE Owner(o) = -1 \/ o \in ShowFire
      BY <2>5, <2>6, <3>1
    <3>2. CASE ~(Owner(o) = -1 \/ o \in ShowFire)
      <4>1. PICK s \in Slots : s = Owner(o)
        BY <2>1, <3>2
      <4>2. /\ lighting(back, s, stray) \in [Slots -> Avatar]
            /\ lighting(back, s, stray)[Player].room = back[Player].room
        BY <1>1, <2>5, <2>6, Lit
      <4> QED BY <2>5, <2>6, <3>2, <4>1, <4>2
    <3> QED BY <3>1, <3>2
  <2> QED BY <1>1, <1>2, <1>11, <1>12, <2>1, <2>3, <2>4, <2>7, ObjectStep
<1>14. ASSUME NEW b \in BOOLEAN, osflag(o, b), ~RunsWild(o)
       PROVE  IInv'
  <2>1. /\ Owner(o) \in Slots \cup {-1} /\ GiveBack(o)
        /\ isLit' = [isLit EXCEPT ![state[o]] = b]
        /\ UNCHANGED <<state, zonked, dest, critical, visit, wild>>
    BY <1>14 DEF osflag, thread
  <2>2. isLit' \in [Shared -> BOOLEAN]
    BY <1>1, <1>4, <2>1, StatesShared
  <2>3. PICK stray, back :
          /\ stray \in BOOLEAN
          /\ back = Rebook(o, avatars, state[o], b)
          /\ avatars' = IF Owner(o) = -1 THEN avatars
                        ELSE lighting(back, Owner(o), stray)
    BY <1>14 DEF osflag
  <2>4. back \in [Slots -> Avatar] /\ back[Player].room = avatars[Player].room
    BY <1>1, <1>4, <2>1, <2>3, Rebooked
  <2>5. avatars' \in [Slots -> Avatar] /\ avatars'[Player].room = avatars[Player].room
    BY <1>1, <2>1, <2>3, <2>4, Lit
  <2> QED BY <1>1, <1>2, <1>11, <1>12, <2>1, <2>2, <2>5, ObjectStep
<1> QED BY <1>5, <1>6, <1>7, <1>8, <1>9, <1>10, <1>13, <1>14 DEF Act

-----------------------------------------------------------------------------
LEMMA GoIInv ==
  ASSUME IInv, Go
  PROVE  IInv'
<1>1. TypeOK /\ avatars \in [Slots -> Avatar] /\ critical \in BOOLEAN
      /\ dest \in Rooms \cup {Nowhere} /\ (~online => dest = Nowhere /\ ~critical)
  BY DEF IInv, TypeOK
<1>2. CASE Arrive
  <2>1. /\ dest # Nowhere /\ dest \in Rooms /\ avatars' = Walk(dest)
        /\ dest' = Nowhere /\ critical' = FALSE
        /\ UNCHANGED <<things, visit, wild>>
    BY <1>1, <1>2 DEF Arrive
  <2>2. avatars' \in [Slots -> Avatar] /\ avatars'[Player].room \in Rooms
    BY <1>1, <2>1, Walked
  <2>3. ~Stuck
    BY <2>1 DEF Stuck
  <2> QED BY <2>1, <2>2, <2>3, WalkStep
<1>3. ASSUME NEW r \in Rooms, Move(r)
      PROVE  IInv'
  <2>1. avatars' = Walk(r) /\ UNCHANGED <<things, dest, critical, visit, wild>>
    BY <1>3 DEF Move, thread
  <2>2. avatars' \in [Slots -> Avatar] /\ avatars'[Player].room \in Rooms
    BY <1>1, <2>1, Walked
  <2>3. Stuck => Stuck'
    BY <2>1 DEF Stuck
  <2> QED BY <1>1, <2>1, <2>2, <2>3, WalkStep
<1>4. ASSUME NEW r \in Rooms, SetOff(r)
      PROVE  IInv'
  <2>1. /\ dest' = r /\ critical' = TRUE /\ online /\ ~critical
        /\ UNCHANGED <<things, avatars, visit, wild>>
    BY <1>4 DEF SetOff, Ready
  <2>2. ~Stuck
    BY <2>1 DEF Stuck
  <2>3. avatars'[Player].room \in Rooms
    BY <2>1 DEF IInv, InRoom
  <2> QED BY <1>1, <2>1, <2>2, <2>3, WalkStep
<1> QED BY <1>2, <1>3, <1>4 DEF Go

LEMMA ComeIInv ==
  ASSUME IInv, Come
  PROVE  IInv'
<1>1. /\ TypeOK /\ avatars \in [Slots -> Avatar] /\ Player \in Slots
      /\ (~online => dest = Nowhere /\ ~critical) /\ 0 \in 0 .. Word - 1
  BY DEF IInv, TypeOK, Slots, Word
<1>2. CASE Leave
  <2>1. /\ dest = Nowhere /\ ~critical /\ online' = FALSE
        /\ UNCHANGED <<things, thread, logins, wild>>
        /\ avatars' = [avatars EXCEPT ![Player].room = Nowhere]
    BY <1>2 DEF Leave, Ready
  <2>2. avatars' \in [Slots -> Avatar]
    <3>1. [avatars[Player] EXCEPT !.room = Nowhere] \in Avatar
      BY <1>1 DEF Avatar
    <3> QED BY <1>1, <2>1, <3>1
  <2>3. TypeOK'
    BY <2>1, <2>2 DEF IInv, TypeOK, things, thread
  <2> QED BY <2>1, <2>3 DEF IInv, StateFunc, InRoom, Marked, Stuck, things, thread
<1>3. ASSUME NEW r \in Rooms, Login(r)
      PROVE  IInv'
  <2>1. /\ dest = Nowhere /\ ~critical /\ online' = TRUE
        /\ logins < MaxLogins /\ logins' = logins + 1
        /\ UNCHANGED <<things, thread, wild>>
        /\ avatars' = [avatars EXCEPT ![Player].numobj = 0,
                                      ![Player].weight = 0,
                                      ![Player].light = 0,
                                      ![Player].hadlight = 0,
                                      ![Player].room = r]
    BY <1>1, <1>3 DEF Login
  <2>2. avatars' \in [Slots -> Avatar] /\ avatars'[Player].room = r
    <3>1. PICK a : a = [avatars[Player] EXCEPT !.numobj = 0, !.weight = 0, !.light = 0,
                                              !.hadlight = 0, !.room = r]
      OBVIOUS
    <3>2. a \in Avatar /\ a.room = r
      <4>1. PICK b \in Avatar : b = avatars[Player]
        BY <1>1
      <4>2. a = [b EXCEPT !.numobj = 0, !.weight = 0, !.light = 0, !.hadlight = 0,
                          !.room = r]
        BY <3>1, <4>1
      <4>3. r \in Rooms \cup {Nowhere} /\ b.strength \in Int
        BY DEF Avatar
      <4>4. a = [numobj |-> 0, weight |-> 0, strength |-> b.strength, light |-> 0,
                 hadlight |-> 0, room |-> r]
        BY <4>2 DEF Avatar
      <4> QED BY <1>1, <4>3, <4>4 DEF Avatar
    <3>3. avatars' = [avatars EXCEPT ![Player] = a]
      BY <1>1, <2>1, <3>1 DEF Avatar
    <3> QED BY <1>1, <3>2, <3>3
  <2>3. logins' \in 0 .. MaxLogins
    BY <2>1, WorldAssumption DEF IInv, TypeOK
  <2>4. TypeOK'
    BY <2>1, <2>2, <2>3 DEF IInv, TypeOK, things, thread
  <2> QED BY <2>1, <2>2, <2>4 DEF IInv, StateFunc, InRoom, Marked, Stuck, things, thread
<1> QED BY <1>2, <1>3 DEF Come

LEMMA InitIInv == Init => IInv
<1> SUFFICES ASSUME Init PROVE IInv
  OBVIOUS
<1>1. avatars \in [Slots -> Avatar]
  <2>1. [numobj |-> 0, weight |-> 0, strength |-> 0, light |-> 1, hadlight |-> 1,
         room |-> Nowhere] \in Avatar
    BY DEF Avatar, Word
  <2> QED BY <2>1 DEF Init
<1>2. \A o \in Objs : state[o] \in States(o) /\ state[o] \in Int
  BY WorldAssumption DEF Init, States
<1>3. isLit \in [Shared -> BOOLEAN] /\ logins \in 0 .. MaxLogins
  BY WorldAssumption DEF Init
<1>4. TypeOK
  BY <1>1, <1>2, <1>3 DEF Init, TypeOK
<1>5. \A o \in Objs : location[o] # Nowhere
  BY Numbers DEF Init
<1> QED BY <1>2, <1>4, <1>5 DEF Init, IInv, StateFunc, InRoom, Marked

LEMMA NextIInv == IInv /\ [Next]_vars => IInv'
<1> SUFFICES ASSUME IInv, [Next]_vars PROVE IInv'
  OBVIOUS
<1>1. CASE Next
  BY <1>1, ActIInv, GoIInv, ComeIInv DEF Next
<1>2. CASE UNCHANGED vars
  BY <1>2 DEF vars, things, thread, visit, IInv, TypeOK, StateFunc, InRoom, Marked, Stuck
<1> QED BY <1>1, <1>2

LEMMA SpecIInv == Spec => []IInv
  BY InitIInv, NextIInv, PTL DEF Spec

-----------------------------------------------------------------------------
(***************************************************************************)
(* Types: no verb writes a location but a room, nowhere, or one of the two *)
(* marks that add_obj leaves for slot 0 and for the slot Owner() takes it  *)
(* for; the lights stay an uint16_t; nobody is away while his thread is    *)
(* under way.                                                              *)
(***************************************************************************)
THEOREM ObjectsTypes == Spec => []TypeOK
<1>1. IInv => TypeOK
  BY DEF IInv
<1> QED BY <1>1, SpecIInv, PTL

(***************************************************************************)
(* Whatever agive, adrop, loseobj, asetstate and osflag do between them,   *)
(* an object is nowhere only if adestroy marked it, so that arecover can   *)
(* bring it back.                                                          *)
(***************************************************************************)
THEOREM ObjectsNotLost == Spec => []NothingIsLost
<1>1. IInv => NothingIsLost
  BY DEF IInv, Marked, Stuck, NothingIsLost
<1> QED BY <1>1, SpecIInv, PTL

(***************************************************************************)
(* adestroy takes the critical section, which is not recursive, and        *)
(* loseobj asks for it again when the light of the owner changes in the    *)
(* dark: a thread that waits there does so for ever, and its player neither*)
(* acts nor leaves.                                                        *)
(***************************************************************************)
THEOREM StuckForEver == Spec => [][Stuck => Stuck' /\ UNCHANGED <<things, visit>>]_vars
<1>1. IInv /\ [Next]_vars => [Stuck => Stuck' /\ UNCHANGED <<things, visit>>]_vars
  <2> SUFFICES ASSUME IInv, Next, Stuck
               PROVE  Stuck' /\ UNCHANGED <<things, visit>>
    BY DEF vars
  <2>1. online
    BY DEF IInv, TypeOK, Stuck
  <2>2. ~Ready /\ ~Arrive
    BY DEF Stuck, Ready, Arrive
  <2>3. /\ ~ \E o \in Objs : Act(o)
        /\ ~ \E r \in Rooms : Move(r) \/ SetOff(r)
        /\ ~ Come
    BY <2>1, <2>2 DEF Act, Get, Drop, Destroy, Recover, Send, SetState, osflag, Move,
                      SetOff, Come, Leave, Login
  <2> QED BY <2>2, <2>3 DEF Next, Go
<1> QED BY <1>1, SpecIInv, PTL DEF Spec

-----------------------------------------------------------------------------
(***************************************************************************)
(* SumFunctionOnSet sums a finite set: its recursion has a solution, and   *)
(* the order in which CHOOSE takes the elements does not matter.           *)
(***************************************************************************)
LEMMA LeastNumber ==
  ASSUME NEW S \in SUBSET Nat, S # {}
  PROVE  \E x \in S : \A y \in S : x <= y
<1>1. PICK x \in S : \A y \in S : ~(<<y, x>> \in OpToRel(<, Nat))
  BY NatLessThanWellFounded, WFMin
<1>2. \A y \in S : ~(y < x)
  BY <1>1 DEF OpToRel
<1> QED BY <1>2

LEMMA NatInduct ==
  ASSUME NEW S, 0 \in S, \A n \in Nat : n \in S => n + 1 \in S
  PROVE  \A n \in Nat : n \in S
<1> SUFFICES ASSUME NEW m \in Nat, m \notin S PROVE FALSE
  OBVIOUS
<1> DEFINE T == {n \in Nat : n \notin S}
<1>1. PICK n \in T : \A k \in T : n <= k
  <2>1. T \in SUBSET Nat /\ T # {}
    OBVIOUS
  <2> QED BY <2>1, LeastNumber
<1>2. n # 0 /\ n \in Nat
  OBVIOUS
<1>3. n - 1 \in Nat /\ n - 1 \notin T
  BY <1>1, <1>2
<1>4. n - 1 \in S /\ n - 1 + 1 = n
  BY <1>2, <1>3
<1> QED BY <1>2, <1>3, <1>4

First(s) == CHOOSE x \in s : TRUE

Sums(f, s, h) == h[s] = IF s = {} THEN 0 ELSE f[First(s)] + h[s \ {First(s)}]

SumRec(f, S, h) ==
  h = [s \in SUBSET S |-> IF s = {} THEN 0 ELSE f[First(s)] + h[s \ {First(s)}]]

LEMMA SumIs ==
  ASSUME NEW f, NEW S
  PROVE  \E h : /\ SumFunctionOnSet(f, S) = h[S]
                /\ (\E g : SumRec(f, S, g)) => SumRec(f, S, h)
  BY DEF SumFunctionOnSet, FoldFunctionOnSet, MapThenFoldSet, SumRec, First

LEMMA Smaller ==
  ASSUME NEW s, IsFiniteSet(s), s # {}
  PROVE  /\ First(s) \in s
         /\ IsFiniteSet(s \ {First(s)})
         /\ Cardinality(s \ {First(s)}) = Cardinality(s) - 1
         /\ Cardinality(s) \in Nat /\ Cardinality(s) > 0
<1>1. First(s) \in s
  BY DEF First
<1>2. Cardinality(s) \in Nat /\ Cardinality(s) # 0
  BY FS_CardinalityType, FS_EmptySet
<1> QED BY <1>1, <1>2, FS_RemoveElement

LEMMA SumRecExists ==
  ASSUME NEW D, NEW f \in [D -> Int], NEW S \in SUBSET D, IsFiniteSet(S)
  PROVE  \E h \in [SUBSET S -> Int] : SumRec(f, S, h)
<1> DEFINE Upto(n) == {s \in SUBSET S : Cardinality(s) <= n}
           Good == {n \in Nat : \E h \in [Upto(n) -> Int] : \A s \in Upto(n) : Sums(f, s, h)}
<1>1. \A s \in SUBSET S : IsFiniteSet(s) /\ Cardinality(s) \in Nat
  BY FS_Subset, FS_CardinalityType
<1>2. 0 \in Good
  <2> DEFINE h == [s \in Upto(0) |-> 0]
  <2>1. \A s \in Upto(0) : s = {}
    BY <1>1, FS_EmptySet
  <2>2. \A s \in Upto(0) : Sums(f, s, h)
    BY <2>1 DEF Sums
  <2>3. h \in [Upto(0) -> Int]
    OBVIOUS
  <2> QED BY <2>2, <2>3
<1>3. ASSUME NEW n \in Nat, n \in Good
      PROVE  n + 1 \in Good
  <2>1. PICK h \in [Upto(n) -> Int] : \A s \in Upto(n) : Sums(f, s, h)
    BY <1>3
  <2> DEFINE val(s) == IF s = {} THEN 0 ELSE f[First(s)] + h[s \ {First(s)}]
             g == [s \in Upto(n + 1) |-> val(s)]
  <2>2. ASSUME NEW s \in Upto(n + 1), s # {}
        PROVE  /\ First(s) \in D /\ s \ {First(s)} \in Upto(n)
               /\ s \ {First(s)} \in Upto(n + 1)
    <3>1. s \in SUBSET S /\ Cardinality(s) <= n + 1 /\ IsFiniteSet(s)
      BY <1>1
    <3>2. /\ First(s) \in s /\ Cardinality(s \ {First(s)}) = Cardinality(s) - 1
          /\ Cardinality(s) \in Nat
      BY <3>1, <2>2, Smaller
    <3>3. Cardinality(s \ {First(s)}) <= n /\ Cardinality(s \ {First(s)}) <= n + 1
      BY <3>1, <3>2
    <3> QED BY <3>1, <3>2, <3>3
  <2>3. ASSUME NEW s \in Upto(n)
        PROVE  s \in Upto(n + 1) /\ g[s] = h[s]
    <3>1. s \in Upto(n + 1)
      BY <1>1
    <3> QED BY <2>1, <3>1 DEF Sums
  <2>4. g \in [Upto(n + 1) -> Int]
    <3> SUFFICES ASSUME NEW s \in Upto(n + 1) PROVE val(s) \in Int
      OBVIOUS
    <3>1. CASE s = {}
      BY <3>1
    <3>2. CASE s # {}
      <4>1. f[First(s)] \in Int /\ h[s \ {First(s)}] \in Int
        BY <2>2, <3>2
      <4> QED BY <3>2, <4>1
    <3> QED BY <3>1, <3>2
  <2>5. ASSUME NEW s \in Upto(n + 1)
        PROVE  Sums(f, s, g)
    <3>1. CASE s = {}
      BY <3>1 DEF Sums
    <3>2. CASE s # {}
      <4>1. g[s \ {First(s)}] = h[s \ {First(s)}]
        BY <2>2, <2>3, <3>2
      <4>2. g[s] = f[First(s)] + h[s \ {First(s)}]
        BY <3>2
      <4> HIDE DEF g
      <4> QED BY <3>2, <4>1, <4>2 DEF Sums
    <3> QED BY <3>1, <3>2
  <2> HIDE DEF g, val, Upto
  <2> QED BY <2>4, <2>5
<1>4. \A n \in Nat : n \in Good
  <2> HIDE DEF Good
  <2> QED BY <1>2, <1>3, NatInduct
<1>5. Cardinality(S) \in Good
  BY <1>4, FS_CardinalityType
<1>6. Upto(Cardinality(S)) = SUBSET S
  BY FS_Subset
<1>7. PICK h \in [SUBSET S -> Int] : \A s \in SUBSET S : Sums(f, s, h)
  BY <1>5, <1>6
<1>8. SumRec(f, S, h)
  <2>1. h = [s \in SUBSET S |-> h[s]]
    OBVIOUS
  <2> QED BY <1>7, <2>1 DEF SumRec, Sums
<1> QED BY <1>8

\* The sum as a recursion, and that the recursion does not see the set it began with.
LEMMA RecUnique ==
  ASSUME NEW f, NEW S, NEW g, NEW h, IsFiniteSet(S), NEW T \in SUBSET S,
         SumRec(f, S, g), SumRec(f, T, h)
  PROVE  \A s \in SUBSET T : g[s] = h[s]
<1> DEFINE Same == {n \in Nat : \A s \in SUBSET T : Cardinality(s) = n => g[s] = h[s]}
<1>1. \A s \in SUBSET T : /\ s \in SUBSET S /\ IsFiniteSet(s) /\ Cardinality(s) \in Nat
                          /\ Sums(f, s, g) /\ Sums(f, s, h)
  BY FS_Subset, FS_CardinalityType DEF SumRec, Sums
<1>2. 0 \in Same
  <2>1. ASSUME NEW s \in SUBSET T, Cardinality(s) = 0
        PROVE  g[s] = h[s]
    <3>1. s = {}
      BY <1>1, <2>1, FS_EmptySet
    <3> QED BY <1>1, <3>1 DEF Sums
  <2> QED BY <2>1
<1>3. ASSUME NEW n \in Nat, n \in Same
      PROVE  n + 1 \in Same
  <2>1. ASSUME NEW s \in SUBSET T, Cardinality(s) = n + 1
        PROVE  g[s] = h[s]
    <3>1. s # {}
      BY <2>1, FS_EmptySet
    <3>2. /\ s \ {First(s)} \in SUBSET T /\ Cardinality(s \ {First(s)}) = n
      BY <1>1, <2>1, <3>1, Smaller
    <3>3. g[s \ {First(s)}] = h[s \ {First(s)}]
      BY <1>3, <3>2
    <3> QED BY <1>1, <3>1, <3>3 DEF Sums
  <2> QED BY <2>1
<1>4. \A n \in Nat : n \in Same
  <2> HIDE DEF Same
  <2> QED BY <1>2, <1>3, NatInduct
<1> QED BY <1>1, <1>4

LEMMA SumUnfolds ==
  ASSUME NEW D, NEW f \in [D -> Int], NEW S \in SUBSET D, IsFiniteSet(S)
  PROVE  /\ SumFunctionOnSet(f, S) \in Int
         /\ SumFunctionOnSet(f, S) =
              IF S = {} THEN 0 ELSE f[First(S)] + SumFunctionOnSet(f, S \ {First(S)})
<1>1. PICK g : SumFunctionOnSet(f, S) = g[S] /\ SumRec(f, S, g)
  BY SumIs, SumRecExists
<1>2. PICK k \in [SUBSET S -> Int] : SumRec(f, S, k)
  BY SumRecExists
<1>3. g[S] = k[S]
  <2>1. S \in SUBSET S
    OBVIOUS
  <2> QED BY <1>1, <1>2, <2>1, RecUnique
<1>4. g[S] = IF S = {} THEN 0 ELSE f[First(S)] + g[S \ {First(S)}]
  BY <1>1 DEF SumRec
<1>5. ASSUME S # {}
      PROVE  SumFunctionOnSet(f, S \ {First(S)}) = g[S \ {First(S)}]
  <2> DEFINE T == S \ {First(S)}
  <2>1. T \in SUBSET S /\ T \in SUBSET D /\ IsFiniteSet(T)
    BY Smaller, <1>5
  <2>2. PICK h : SumFunctionOnSet(f, T) = h[T] /\ SumRec(f, T, h)
    <3> HIDE DEF T
    <3> QED BY <2>1, SumIs, SumRecExists
  <2>3. T \in SUBSET T
    OBVIOUS
  <2> HIDE DEF T
  <2>4. g[T] = h[T]
    BY <1>1, <2>1, <2>2, <2>3, RecUnique
  <2> QED BY <2>2, <2>4 DEF T
<1> QED BY <1>1, <1>2, <1>3, <1>4, <1>5

\* Any element may be taken first.
LEMMA SumTakes ==
  ASSUME NEW D, NEW f \in [D -> Int]
  PROVE  \A S \in SUBSET D : IsFiniteSet(S) =>
            \A x \in S : SumFunctionOnSet(f, S) = f[x] + SumFunctionOnSet(f, S \ {x})
<1> DEFINE Takes(S) == \A x \in S :
                          SumFunctionOnSet(f, S) = f[x] + SumFunctionOnSet(f, S \ {x})
           Good == {n \in Nat : \A S \in SUBSET D :
                       IsFiniteSet(S) /\ Cardinality(S) = n => Takes(S)}
<1>1. 0 \in Good
  <2>1. ASSUME NEW S \in SUBSET D, IsFiniteSet(S), Cardinality(S) = 0
        PROVE  Takes(S)
    <3>1. S = {}
      BY <2>1, FS_EmptySet
    <3> QED BY <3>1
  <2> QED BY <2>1
<1>2. ASSUME NEW n \in Nat, n \in Good
      PROVE  n + 1 \in Good
  <2>1. ASSUME NEW S \in SUBSET D, IsFiniteSet(S), Cardinality(S) = n + 1, NEW x \in S
        PROVE  SumFunctionOnSet(f, S) = f[x] + SumFunctionOnSet(f, S \ {x})
    <3>1. PICK c : c = First(S)
      OBVIOUS
    <3>2. S # {} /\ c \in S /\ IsFiniteSet(S \ {c}) /\ Cardinality(S \ {c}) = n
      BY <2>1, <3>1, Smaller
    <3>3. SumFunctionOnSet(f, S) = f[c] + SumFunctionOnSet(f, S \ {c})
      BY <2>1, <3>1, <3>2, SumUnfolds
    <3>4. CASE x = c
      BY <3>3, <3>4
    <3>5. CASE x # c
      <4>1. IsFiniteSet(S \ {x}) /\ Cardinality(S \ {x}) = n
        BY <2>1, FS_RemoveElement
      <4>2. Takes(S \ {c}) /\ Takes(S \ {x})
        BY <1>2, <3>2, <4>1
      <4>3. PICK R : R = S \ {c, x}
        OBVIOUS
      <4>4. /\ (S \ {c}) \ {x} = R /\ (S \ {x}) \ {c} = R /\ x \in S \ {c} /\ c \in S \ {x}
        BY <3>2, <3>5, <4>3
      <4>5. SumFunctionOnSet(f, S \ {c}) = f[x] + SumFunctionOnSet(f, R)
        BY <4>2, <4>4
      <4>6. SumFunctionOnSet(f, S \ {x}) = f[c] + SumFunctionOnSet(f, R)
        BY <4>2, <4>4
      <4>7. R \in SUBSET D /\ IsFiniteSet(R)
        BY <3>2, <4>3, <4>4, FS_RemoveElement
      <4>8. /\ SumFunctionOnSet(f, R) \in Int
            /\ f[x] \in Int /\ f[c] \in Int
        BY <3>2, <4>7, SumUnfolds
      <4> QED BY <3>3, <4>5, <4>6, <4>8
    <3> QED BY <3>4, <3>5
  <2> QED BY <2>1
<1>3. \A n \in Nat : n \in Good
  <2> HIDE DEF Good
  <2> QED BY <1>1, <1>2, NatInduct
<1> QED BY <1>3, FS_CardinalityType

\* Only the values in the set count.
LEMMA SumSame ==
  ASSUME NEW D, NEW f \in [D -> Int], NEW g \in [D -> Int]
  PROVE  \A S \in SUBSET D : IsFiniteSet(S) /\ (\A x \in S : f[x] = g[x]) =>
            SumFunctionOnSet(f, S) = SumFunctionOnSet(g, S)
<1> DEFINE Good == {n \in Nat : \A S \in SUBSET D :
                       IsFiniteSet(S) /\ Cardinality(S) = n /\ (\A x \in S : f[x] = g[x]) =>
                         SumFunctionOnSet(f, S) = SumFunctionOnSet(g, S)}
<1>1. 0 \in Good
  <2>1. ASSUME NEW S \in SUBSET D, IsFiniteSet(S), Cardinality(S) = 0
        PROVE  SumFunctionOnSet(f, S) = SumFunctionOnSet(g, S)
    <3>1. S = {}
      BY <2>1, FS_EmptySet
    <3> QED BY <2>1, <3>1, SumUnfolds
  <2> QED BY <2>1
<1>2. ASSUME NEW n \in Nat, n \in Good
      PROVE  n + 1 \in Good
  <2>1. ASSUME NEW S \in SUBSET D, IsFiniteSet(S), Cardinality(S) = n + 1,
               \A x \in S : f[x] = g[x]
        PROVE  SumFunctionOnSet(f, S) = SumFunctionOnSet(g, S)
    <3>1. PICK c : c = First(S)
      OBVIOUS
    <3>2. S # {}
      BY <2>1, FS_EmptySet
    <3>3. c \in S /\ IsFiniteSet(S \ {c}) /\ Cardinality(S \ {c}) = n
      BY <2>1, <3>1, <3>2, Smaller
    <3>4. /\ SumFunctionOnSet(f, S) = f[c] + SumFunctionOnSet(f, S \ {c})
          /\ SumFunctionOnSet(g, S) = g[c] + SumFunctionOnSet(g, S \ {c})
      BY <2>1, <3>1, <3>2, SumUnfolds
    <3>5. SumFunctionOnSet(f, S \ {c}) = SumFunctionOnSet(g, S \ {c})
      BY <1>2, <2>1, <3>3
    <3> QED BY <2>1, <3>3, <3>4, <3>5
  <2> QED BY <2>1
<1>3. \A n \in Nat : n \in Good
  <2> HIDE DEF Good
  <2> QED BY <1>1, <1>2, NatInduct
<1> QED BY <1>3, FS_CardinalityType

\* One object changes hands, or what it counts for.
LEMMA SumMoves ==
  ASSUME NEW D, IsFiniteSet(D), NEW f \in [D -> Int], NEW g \in [D -> Int],
         NEW A \in SUBSET D, NEW B \in SUBSET D, NEW o \in D,
         \A p \in D : p # o => (p \in A <=> p \in B) /\ f[p] = g[p]
  PROVE  /\ SumFunctionOnSet(f, A) \in Int /\ SumFunctionOnSet(g, B) \in Int
         /\ SumFunctionOnSet(g, B) - SumFunctionOnSet(f, A)
              = (IF o \in B THEN g[o] ELSE 0) - (IF o \in A THEN f[o] ELSE 0)
<1>1. PICK R : R = A \ {o}
  OBVIOUS
<1>2. R = B \ {o} /\ R \in SUBSET D /\ \A p \in R : f[p] = g[p]
  BY <1>1
<1>3. IsFiniteSet(A) /\ IsFiniteSet(B) /\ IsFiniteSet(R)
  BY <1>2, FS_Subset
<1>4. /\ SumFunctionOnSet(f, A) \in Int /\ SumFunctionOnSet(g, B) \in Int
      /\ SumFunctionOnSet(f, R) \in Int /\ f[o] \in Int /\ g[o] \in Int
  BY <1>2, <1>3, SumUnfolds
<1>5. SumFunctionOnSet(f, R) = SumFunctionOnSet(g, R)
  BY <1>2, <1>3, SumSame
<1>6. SumFunctionOnSet(f, A) = (IF o \in A THEN f[o] ELSE 0) + SumFunctionOnSet(f, R)
  <2>1. CASE o \in A
    BY <1>1, <1>3, <2>1, SumTakes
  <2>2. CASE o \notin A
    <3>1. A = R
      BY <1>1, <2>2
    <3> QED BY <1>4, <2>2, <3>1
  <2> QED BY <2>1, <2>2
<1>7. SumFunctionOnSet(g, B) = (IF o \in B THEN g[o] ELSE 0) + SumFunctionOnSet(g, R)
  <2>1. CASE o \in B
    BY <1>2, <1>3, <2>1, SumTakes
  <2>2. CASE o \notin B
    <3>1. B = R
      BY <1>2, <2>2
    <3> QED BY <1>4, <2>2, <3>1
  <2> QED BY <2>1, <2>2
<1> QED BY <1>4, <1>5, <1>6, <1>7

-----------------------------------------------------------------------------
(***************************************************************************)
(* The avatars' books.  Shift says that what the two avatars have booked   *)
(* together changes by n objects, weight w, strength b and light l.        *)
(***************************************************************************)
Total(av, field) == av[Player][field] + av[Idle][field]

Shift(av, bv, n, w, b, l) ==
  /\ Total(bv, "numobj") = Total(av, "numobj") + n
  /\ Total(bv, "weight") = Total(av, "weight") + w
  /\ Total(bv, "strength") = Total(av, "strength") - b
  /\ (Total(bv, "light") - Total(av, "light") - l) % Word = 0

LEMMA Totals ==
  ASSUME NEW av \in [Slots -> Avatar]
  PROVE  /\ Total(av, "numobj") \in Int /\ Total(av, "weight") \in Int
         /\ Total(av, "strength") \in Int /\ Total(av, "light") \in Int
<1>1. Player \in Slots /\ Idle \in Slots
  BY DEF Slots
<1>2. \A a \in Avatar : a.numobj \in Int /\ a.weight \in Int /\ a.strength \in Int
  BY DEF Avatar
<1>3. \A a \in Avatar : a.light \in Int
  <2>1. \A x \in 0 .. Word - 1 : x \in Int
    BY DEF Word
  <2> QED BY <2>1 DEF Avatar
<1> QED BY <1>1, <1>2, <1>3 DEF Total

LEMMA ShiftTwice ==
  ASSUME NEW av \in [Slots -> Avatar], NEW bv \in [Slots -> Avatar], NEW cv \in [Slots -> Avatar],
         NEW n \in Int, NEW w \in Int, NEW b \in Int, NEW l \in Int,
         NEW m \in Int, NEW v \in Int, NEW c \in Int, NEW k \in Int,
         Shift(av, bv, n, w, b, l), Shift(bv, cv, m, v, c, k)
  PROVE  Shift(av, cv, n + m, w + v, b + c, l + k)
<1>1. /\ Total(cv, "numobj") = Total(av, "numobj") + (n + m)
      /\ Total(cv, "weight") = Total(av, "weight") + (w + v)
      /\ Total(cv, "strength") = Total(av, "strength") - (b + c)
  BY Totals DEF Shift
<1>2. (Total(cv, "light") - Total(av, "light") - (l + k)) % Word = 0
  <2>1. PICK x \in Int : x = Total(bv, "light") - Total(av, "light") - l
    BY Totals
  <2>2. PICK y \in Int : y = Total(cv, "light") - Total(bv, "light") - k
    BY Totals
  <2>3. x % Word = 0 /\ y % Word = 0
    BY <2>1, <2>2 DEF Shift
  <2>4. (x + y) % Word = 0
    BY <2>3 DEF Word
  <2>5. Total(cv, "light") - Total(av, "light") - (l + k) = x + y
    BY <2>1, <2>2, Totals
  <2> QED BY <2>4, <2>5
<1> QED BY <1>1, <1>2 DEF Shift

\* One avatar's entry is replaced.
LEMMA ShiftOne ==
  ASSUME NEW av \in [Slots -> Avatar], NEW s \in Slots, NEW a \in Avatar,
         NEW n \in Int, NEW w \in Int, NEW b \in Int, NEW l \in Int,
         a.numobj = av[s].numobj + n, a.weight = av[s].weight + w,
         a.strength = av[s].strength - b, (a.light - av[s].light - l) % Word = 0
  PROVE  Shift(av, [av EXCEPT ![s] = a], n, w, b, l)
<1>1. /\ Player \in Slots /\ Idle \in Slots /\ Player # Idle
      /\ s = Player \/ s = Idle
  BY Numbers DEF Slots
<1>2. PICK bv : bv = [av EXCEPT ![s] = a]
  OBVIOUS
<1>3. \A p \in Slots : bv[p] = IF p = s THEN a ELSE av[p]
  BY <1>2
<1>4. \A c \in Avatar : c.numobj \in Int /\ c.weight \in Int /\ c.strength \in Int /\ c.light \in Int
  <2>1. \A x \in 0 .. Word - 1 : x \in Int
    BY DEF Word
  <2> QED BY <2>1 DEF Avatar
<1>5. /\ Total(bv, "numobj") = Total(av, "numobj") + n
      /\ Total(bv, "weight") = Total(av, "weight") + w
      /\ Total(bv, "strength") = Total(av, "strength") - b
      /\ Total(bv, "light") - Total(av, "light") = a.light - av[s].light
  <2>1. CASE s = Player
    BY <1>1, <1>3, <1>4, <2>1 DEF Total
  <2>2. CASE s = Idle
    BY <1>1, <1>3, <1>4, <2>2 DEF Total
  <2> QED BY <1>1, <2>1, <2>2
<1> QED BY <1>2, <1>5 DEF Shift

LEMMA WrapShifts ==
  ASSUME NEW x \in Int, NEW y \in Int, NEW up, NEW down,
         up = (x + y) % Word, down = (x - y) % Word
  PROVE  (up - x - y) % Word = 0 /\ (down - x - (0 - y)) % Word = 0
<1>1. (up - x - y) % Word = 0
  BY DEF Word
<1>2. (down - x - (0 - y)) % Word = 0
  BY DEF Word
<1> QED BY <1>1, <1>2

LEMMA BookingShifts ==
  ASSUME NEW av \in [Slots -> Avatar], NEW s \in Slots, NEW o \in Objs,
         NEW n \in States(o), NEW lit \in BOOLEAN
  PROVE  /\ Shift(av, add_obj(av, s, n, lit), 1, Weight(n), Burden(n), Bit(lit))
         /\ Shift(av, rem_obj(av, s, n, lit), -1, 0 - Weight(n), 0 - Burden(n), 0 - Bit(lit))
<1>1. Weight(n) \in Int /\ Burden(n) \in Int /\ Bit(lit) \in Int
  BY StatesShared DEF Bit
<1>2. PICK a \in Avatar : a = av[s]
  OBVIOUS
<1>3. a.numobj \in Int /\ a.weight \in Int /\ a.strength \in Int /\ a.light \in Int
  <2>1. \A x \in 0 .. Word - 1 : x \in Int
    BY DEF Word
  <2> QED BY <2>1 DEF Avatar
<1>4. PICK c : c = Laden(a, n, lit)
  OBVIOUS
<1>5. PICK d : d = Relieved(a, n, lit)
  OBVIOUS
<1>6. c \in Avatar /\ d \in Avatar
  BY <1>4, <1>5, Books
<1>7. /\ c.numobj = a.numobj + 1 /\ c.weight = a.weight + Weight(n)
      /\ c.strength = a.strength - Burden(n) /\ c.light = (a.light + Bit(lit)) % Word
  BY <1>4 DEF Laden, Avatar
<1>8. /\ d.numobj = a.numobj - 1 /\ d.weight = a.weight - Weight(n)
      /\ d.strength = a.strength + Burden(n) /\ d.light = (a.light - Bit(lit)) % Word
  BY <1>5 DEF Relieved, Avatar
<1>9. PICK x \in Int, y \in Int : x = a.light /\ y = Bit(lit)
  BY <1>1, <1>3
<1>0. (c.light - x - y) % Word = 0 /\ (d.light - x - (0 - y)) % Word = 0
  <2>1. c.light = (x + y) % Word /\ d.light = (x - y) % Word
    BY <1>7, <1>8, <1>9
  <2>2. \A u, v : u = (x + y) % Word /\ v = (x - y) % Word
                    => (u - x - y) % Word = 0 /\ (v - x - (0 - y)) % Word = 0
    BY WrapShifts
  <2> QED BY <2>1, <2>2
<1>10. Shift(av, [av EXCEPT ![s] = c], 1, Weight(n), Burden(n), Bit(lit))
  <2>1. (c.light - a.light - Bit(lit)) % Word = 0
    BY <1>0, <1>9
  <2>2. PICK m \in Int, w \in Int, b \in Int, l \in Int :
           m = 1 /\ w = Weight(n) /\ b = Burden(n) /\ l = Bit(lit)
    BY <1>1
  <2>3. Shift(av, [av EXCEPT ![s] = c], m, w, b, l)
    BY <1>2, <1>6, <1>7, <2>1, <2>2, ShiftOne
  <2> QED BY <2>2, <2>3
<1>11. Shift(av, [av EXCEPT ![s] = d], -1, 0 - Weight(n), 0 - Burden(n), 0 - Bit(lit))
  <2>1. (d.light - a.light - (0 - Bit(lit))) % Word = 0
    BY <1>0, <1>9
  <2>2. /\ -1 \in Int /\ 0 - Weight(n) \in Int /\ 0 - Burden(n) \in Int /\ 0 - Bit(lit) \in Int
        /\ d.numobj = a.numobj + (-1) /\ d.weight = a.weight + (0 - Weight(n))
        /\ d.strength = a.strength - (0 - Burden(n))
    BY <1>1, <1>3, <1>8
  <2>3. PICK m \in Int, w \in Int, b \in Int, l \in Int :
           m = -1 /\ w = 0 - Weight(n) /\ b = 0 - Burden(n) /\ l = 0 - Bit(lit)
    BY <2>2
  <2>4. Shift(av, [av EXCEPT ![s] = d], m, w, b, l)
    BY <1>2, <1>6, <2>1, <2>2, <2>3, ShiftOne
  <2> QED BY <2>3, <2>4
<1> QED BY <1>2, <1>4, <1>5, <1>10, <1>11 DEF add_obj, rem_obj

\* Whatever leaves numobj, weight, strength and light of every avatar as they are.
LEMMA ShiftNone ==
  ASSUME NEW av \in [Slots -> Avatar], NEW bv \in [Slots -> Avatar],
         \A p \in Slots : /\ bv[p].numobj = av[p].numobj /\ bv[p].weight = av[p].weight
                          /\ bv[p].strength = av[p].strength /\ bv[p].light = av[p].light
  PROVE  Shift(av, bv, 0, 0, 0, 0)
<1>1. Player \in Slots /\ Idle \in Slots
  BY DEF Slots
<1>2. /\ Total(bv, "numobj") = Total(av, "numobj") /\ Total(bv, "weight") = Total(av, "weight")
      /\ Total(bv, "strength") = Total(av, "strength") /\ Total(bv, "light") = Total(av, "light")
  BY <1>1 DEF Total
<1>3. 0 % Word = 0
  BY DEF Word
<1> QED BY <1>2, <1>3, Totals DEF Shift

LEMMA LightingBooks ==
  ASSUME NEW av \in [Slots -> Avatar], NEW s \in Slots, NEW stray \in BOOLEAN
  PROVE  \A p \in Slots : /\ lighting(av, s, stray)[p].numobj = av[p].numobj
                          /\ lighting(av, s, stray)[p].weight = av[p].weight
                          /\ lighting(av, s, stray)[p].strength = av[p].strength
                          /\ lighting(av, s, stray)[p].light = av[p].light
<1>1. PICK a \in Avatar : a = av[s]
  OBVIOUS
<1>2. PICK c : c = [a EXCEPT !.hadlight = a.light]
  OBVIOUS
<1>3. /\ c.numobj = a.numobj /\ c.weight = a.weight
      /\ c.strength = a.strength /\ c.light = a.light
  BY <1>2 DEF Avatar
<1>4. [av EXCEPT ![s].hadlight = av[s].light] = [av EXCEPT ![s] = c]
  BY <1>1, <1>2
<1>5. lighting(av, s, stray) = av \/ lighting(av, s, stray) = [av EXCEPT ![s] = c]
  BY <1>4 DEF lighting
<1> QED BY <1>1, <1>3, <1>5

LEMMA LightingShifts ==
  ASSUME NEW av \in [Slots -> Avatar], NEW s \in Slots, NEW stray \in BOOLEAN
  PROVE  Shift(av, lighting(av, s, stray), 0, 0, 0, 0)
  BY Lit, LightingBooks, ShiftNone

\* MovePlayerTo puts the light back that the way took.
LEMMA WalkShifts ==
  ASSUME TypeOK, NEW r \in Rooms
  PROVE  Shift(avatars, Walk(r), 0, 0, 0, 0)
<1>1. Player \in Slots /\ avatars \in [Slots -> Avatar] /\ FALSE \in BOOLEAN
      /\ 0 \in 0 .. Word - 1
  BY DEF Slots, TypeOK, Word
<1>2. PICK a \in Avatar : a = avatars[Player]
  BY <1>1
<1>3. PICK out : out = [avatars EXCEPT ![Player].light = 0]
  OBVIOUS
<1>4. /\ out \in [Slots -> Avatar] /\ \A p \in Slots : p # Player => out[p] = avatars[p]
      /\ out[Player].numobj = a.numobj /\ out[Player].weight = a.weight
      /\ out[Player].strength = a.strength
  <2>1. PICK c : c = [a EXCEPT !.light = 0]
    OBVIOUS
  <2>2. /\ c \in Avatar /\ c.numobj = a.numobj /\ c.weight = a.weight
        /\ c.strength = a.strength
    BY <1>1, <2>1 DEF Avatar
  <2>3. out = [avatars EXCEPT ![Player] = c]
    BY <1>1, <1>2, <1>3, <2>1
  <2> QED BY <1>1, <2>2, <2>3
<1>5. PICK dimmed : dimmed = lighting(out, Player, FALSE)
  OBVIOUS
<1>6. /\ dimmed \in [Slots -> Avatar]
      /\ \A p \in Slots : /\ dimmed[p].numobj = out[p].numobj
                          /\ dimmed[p].weight = out[p].weight
                          /\ dimmed[p].strength = out[p].strength
                          /\ dimmed[p].light = out[p].light
  <2>1. PICK no \in BOOLEAN : no = FALSE
    OBVIOUS
  <2>2. dimmed = lighting(out, Player, no)
    BY <1>5, <2>1
  <2> QED BY <1>1, <1>4, <2>2, Lit, LightingBooks
<1>7. PICK arrived : arrived = [dimmed EXCEPT ![Player].room = r, ![Player].hadlight = 0,
                                              ![Player].light = avatars[Player].light]
  OBVIOUS
<1>8. /\ arrived \in [Slots -> Avatar]
      /\ \A p \in Slots : /\ arrived[p].numobj = avatars[p].numobj
                          /\ arrived[p].weight = avatars[p].weight
                          /\ arrived[p].strength = avatars[p].strength
                          /\ arrived[p].light = avatars[p].light
  <2>1. a.light \in 0 .. Word - 1
    BY DEF Avatar
  <2>2. PICK d \in Avatar : d = dimmed[Player]
    BY <1>1, <1>6
  <2>3. PICK c : c = [d EXCEPT !.room = r, !.hadlight = 0, !.light = a.light]
    OBVIOUS
  <2>4. /\ c \in Avatar /\ c.numobj = d.numobj /\ c.weight = d.weight
        /\ c.strength = d.strength /\ c.light = a.light
    BY <1>1, <2>1, <2>3 DEF Avatar
  <2>5. arrived = [dimmed EXCEPT ![Player] = c]
    BY <1>1, <1>2, <1>6, <1>7, <2>2, <2>3 DEF Avatar
  <2>6. arrived \in [Slots -> Avatar] /\ \A p \in Slots : arrived[p] = IF p = Player THEN c ELSE dimmed[p]
    BY <1>1, <1>6, <2>4, <2>5
  <2> QED BY <1>1, <1>2, <1>4, <1>6, <2>2, <2>4, <2>6
<1>9. Walk(r) = lighting(arrived, Player, FALSE)
  BY <1>3, <1>5, <1>7 DEF Walk
<1>10. /\ Walk(r) \in [Slots -> Avatar]
       /\ \A p \in Slots : /\ Walk(r)[p].numobj = arrived[p].numobj
                           /\ Walk(r)[p].weight = arrived[p].weight
                           /\ Walk(r)[p].strength = arrived[p].strength
                           /\ Walk(r)[p].light = arrived[p].light
  <2>1. PICK no \in BOOLEAN : no = FALSE
    OBVIOUS
  <2>2. Walk(r) = lighting(arrived, Player, no)
    BY <1>9, <2>1
  <2> QED BY <1>1, <1>8, <2>2, Lit, LightingBooks
<1> QED BY <1>1, <1>8, <1>10, ShiftNone

\* What loseobj takes off the books: all the object counts for, if somebody has it.
Counts(o, x) == IF IsOwned(o) THEN x ELSE 0

LEMMA UnownedIs ==
  ASSUME TypeOK, NEW o \in Objs, Owner(o) = -1
  PROVE  ~IsOwned(o)
<1>1. location[o] \in Nat \/ location[o] \in {-1, -5, -15}
  BY Numbers, WorldAssumption DEF TypeOK
<1> QED BY <1>1 DEF Owner, IsOwned, OwnerOffset, MAXU

LEMMA LoseShifts ==
  ASSUME TypeOK, NEW o \in Objs, Owner(o) \in Slots \cup {-1}, NEW stray \in BOOLEAN
  PROVE  Shift(avatars, LoseObj(o, avatars, stray), 0 - Counts(o, 1), 0 - Counts(o, Weight(state[o])),
               0 - Counts(o, Burden(state[o])), 0 - Counts(o, Bit(IsLit(o))))
<1>1. state[o] \in States(o) /\ IsLit(o) \in BOOLEAN /\ avatars \in [Slots -> Avatar]
  BY StatesShared DEF TypeOK, IsLit
<1>2. CASE Owner(o) \in Slots
  <2>1. PICK s \in Slots : s = Owner(o)
    BY <1>2
  <2>2. PICK m \in [Slots -> Avatar] : m = rem_obj(avatars, s, state[o], IsLit(o))
    BY <1>1, Booked
  <2>3. LoseObj(o, avatars, stray) = lighting(m, s, stray)
    BY <1>2, <2>1, <2>2 DEF LoseObj, Slots, Player, Idle
  <2>4. PICK n \in Int, w \in Int, b \in Int, l \in Int :
          n = -1 /\ w = 0 - Weight(state[o]) /\ b = 0 - Burden(state[o]) /\ l = 0 - Bit(IsLit(o))
    BY <1>1, StatesShared DEF Bit
  <2>5. Shift(avatars, m, n, w, b, l)
    BY <1>1, <2>2, <2>4, BookingShifts
  <2>6. PICK z \in Int : z = 0
    OBVIOUS
  <2>7. PICK k \in [Slots -> Avatar] : k = lighting(m, s, stray) /\ Shift(m, k, z, z, z, z)
    BY <2>6, Lit, LightingShifts
  <2>8. Shift(avatars, k, n + z, w + z, b + z, l + z)
    BY <1>1, <2>5, <2>7, ShiftTwice
  <2>9. IsOwned(o)
    BY <1>2, <2>1, Numbers DEF Owner, Slots, Player, Idle
  <2> QED BY <2>3, <2>4, <2>6, <2>7, <2>8, <2>9 DEF Counts
<1>3. CASE Owner(o) = -1
  <2>1. ~IsOwned(o)
    BY <1>3, UnownedIs
  <2>2. Shift(avatars, avatars, 0, 0, 0, 0)
    BY <1>1, ShiftNone
  <2>3. /\ 0 - Counts(o, 1) = 0 /\ 0 - Counts(o, Weight(state[o])) = 0
        /\ 0 - Counts(o, Burden(state[o])) = 0 /\ 0 - Counts(o, Bit(IsLit(o))) = 0
    <3>1. /\ Counts(o, 1) = 0 /\ Counts(o, Weight(state[o])) = 0
          /\ Counts(o, Burden(state[o])) = 0 /\ Counts(o, Bit(IsLit(o))) = 0
      BY <2>1 DEF Counts
    <3> QED BY <3>1
  <2>4. LoseObj(o, avatars, stray) = avatars
    BY <1>3 DEF LoseObj
  <2> QED BY <2>2, <2>3, <2>4
<1> QED BY <1>2, <1>3

LEMMA TakenShifts ==
  ASSUME TypeOK, NEW o \in Objs, Owner(o) \in Slots \cup {-1}
  PROVE  Shift(avatars, Taken(o), 0 - Counts(o, 1), 0 - Counts(o, Weight(state[o])),
               0 - Counts(o, Burden(state[o])), 0 - Counts(o, Bit(IsLit(o))))
<1>1. state[o] \in States(o) /\ IsLit(o) \in BOOLEAN /\ avatars \in [Slots -> Avatar]
  BY StatesShared DEF TypeOK, IsLit
<1>2. CASE Owner(o) = -1
  <2>1. ~IsOwned(o) /\ Taken(o) = avatars
    BY <1>2, UnownedIs DEF Taken
  <2>2. Shift(avatars, avatars, 0, 0, 0, 0)
    BY <1>1, ShiftNone
  <2> QED BY <2>1, <2>2 DEF Counts
<1>3. CASE Owner(o) # -1
  <2>1. PICK s \in Slots : s = Owner(o)
    BY <1>3
  <2>2. IsOwned(o) /\ Taken(o) = rem_obj(avatars, s, state[o], IsLit(o))
    BY <1>3, <2>1 DEF Taken, Owner
  <2>3. Shift(avatars, Taken(o), -1, 0 - Weight(state[o]), 0 - Burden(state[o]),
              0 - Bit(IsLit(o)))
    BY <1>1, <2>2, BookingShifts
  <2> QED BY <2>2, <2>3 DEF Counts
<1> QED BY <1>2, <1>3

LEMMA GivenLightShifts ==
  ASSUME NEW av \in [Slots -> Avatar], NEW own \in Slots \cup {-1},
         NEW near \in BOOLEAN, NEW stray \in BOOLEAN
  PROVE  Shift(av, GivenLight(av, own, near, stray), 0, 0, 0, 0)
<1>1. Player \in Slots /\ FALSE \in BOOLEAN
  BY DEF Slots
<1>2. PICK z \in Int : z = 0
  OBVIOUS
<1>3. Shift(av, av, z, z, z, z)
  BY <1>2, ShiftNone
<1>4. CASE own = -1
  BY <1>1, <1>2, <1>3, <1>4, LightingShifts DEF GivenLight
<1>5. CASE own # -1
  <2>1. PICK s \in Slots : s = own
    BY <1>5
  <2>2. PICK his \in [Slots -> Avatar] : his = lighting(av, s, stray) /\ Shift(av, his, z, z, z, z)
    BY <1>2, Lit, LightingShifts
  <2>3. PICK both \in [Slots -> Avatar] :
          both = lighting(his, Player, FALSE) /\ Shift(his, both, z, z, z, z)
    BY <1>1, <1>2, Lit, LightingShifts
  <2>4. Shift(av, both, z + z, z + z, z + z, z + z)
    BY <1>2, <2>2, <2>3, ShiftTwice
  <2>5. GivenLight(av, own, near, stray) \in {av, both}
    BY <1>5, <2>1, <2>2, <2>3 DEF GivenLight
  <2>6. z + z = z
    BY <1>2
  <2> QED BY <1>2, <1>3, <2>4, <2>5, <2>6
<1> QED BY <1>4, <1>5

LEMMA Measures ==
  ASSUME TypeOK
  PROVE  /\ One \in [Objs -> Int] /\ WeightOf \in [Objs -> Int]
         /\ BurdenOf \in [Objs -> Int] /\ LightOf \in [Objs -> Int]
         /\ IsFiniteSet(Objs) /\ {p \in Objs : IsOwned(p)} \in SUBSET Objs
         /\ Owned(One) \in Int /\ Owned(WeightOf) \in Int
         /\ Owned(BurdenOf) \in Int /\ Owned(LightOf) \in Int
<1>1. \A p \in Objs : Weight(state[p]) \in Int /\ Burden(state[p]) \in Int /\ Bit(IsLit(p)) \in Int
  BY StatesShared DEF TypeOK, Bit
<1>2. /\ One \in [Objs -> Int] /\ WeightOf \in [Objs -> Int]
      /\ BurdenOf \in [Objs -> Int] /\ LightOf \in [Objs -> Int]
  BY <1>1 DEF One, WeightOf, BurdenOf, LightOf
<1>3. IsFiniteSet(Objs) /\ {p \in Objs : IsOwned(p)} \in SUBSET Objs
  BY WorldAssumption
<1>4. IsFiniteSet({p \in Objs : IsOwned(p)})
  BY <1>3, FS_Subset
<1> QED BY <1>2, <1>3, <1>4, SumUnfolds DEF Owned

\* What somebody owns changes by what one object counts for.
LEMMA OwnedMoves ==
  ASSUME TypeOK, TypeOK', NEW o \in Objs,
         \A p \in Objs : p # o => location'[p] = location[p] /\ state'[p] = state[p]
  PROVE  /\ Owned(One)' - Owned(One) = Counts(o, 1)' - Counts(o, 1)
         /\ Owned(WeightOf)' - Owned(WeightOf)
              = Counts(o, Weight(state[o]))' - Counts(o, Weight(state[o]))
         /\ Owned(BurdenOf)' - Owned(BurdenOf)
              = Counts(o, Burden(state[o]))' - Counts(o, Burden(state[o]))
         /\ isLit' = isLit => Owned(LightOf)' - Owned(LightOf)
              = Counts(o, Bit(IsLit(o)))' - Counts(o, Bit(IsLit(o)))
         /\ Owned(One)' \in Int /\ Owned(WeightOf)' \in Int
         /\ Owned(BurdenOf)' \in Int /\ Owned(LightOf)' \in Int
<1>1. /\ One \in [Objs -> Int] /\ WeightOf \in [Objs -> Int]
      /\ BurdenOf \in [Objs -> Int] /\ LightOf \in [Objs -> Int]
      /\ IsFiniteSet(Objs)
  BY Measures
<1>2. /\ One' \in [Objs -> Int] /\ WeightOf' \in [Objs -> Int]
      /\ BurdenOf' \in [Objs -> Int] /\ LightOf' \in [Objs -> Int]
  <2>1. \A p \in Objs : /\ Weight(state'[p]) \in Int /\ Burden(state'[p]) \in Int
                        /\ Bit(isLit'[state'[p]]) \in Int
    BY StatesShared DEF TypeOK, Bit
  <2> QED BY <2>1 DEF One, WeightOf, BurdenOf, LightOf, IsLit
<1>3. PICK A \in SUBSET Objs : A = {p \in Objs : IsOwned(p)}
  OBVIOUS
<1>4. PICK B \in SUBSET Objs : B = {p \in Objs : IsOwned(p)'}
  OBVIOUS
<1>5. \A p \in Objs : p # o => (p \in A <=> p \in B)
  BY <1>3, <1>4 DEF IsOwned
<1>6. /\ o \in A <=> IsOwned(o)
      /\ o \in B <=> IsOwned(o)'
  BY <1>3, <1>4
<1>7. Owned(One)' - Owned(One) = Counts(o, 1)' - Counts(o, 1)
  <2>1. PICK f \in [Objs -> Int] : f = One
    BY <1>1
  <2>2. PICK g \in [Objs -> Int] : g = One'
    BY <1>2
  <2>3. \A p \in Objs : p # o => f[p] = g[p]
    BY <2>1, <2>2 DEF One
  <2>4. SumFunctionOnSet(g, B) - SumFunctionOnSet(f, A)
          = (IF o \in B THEN g[o] ELSE 0) - (IF o \in A THEN f[o] ELSE 0)
    BY <1>1, <1>5, <2>3, SumMoves
  <2>5. f[o] = 1 /\ g[o] = 1
    BY <2>1, <2>2 DEF One
  <2>6. SumFunctionOnSet(f, A) = Owned(One) /\ SumFunctionOnSet(g, B) = Owned(One)'
    BY <1>3, <1>4, <2>1, <2>2 DEF Owned
  <2>7. /\ (IF o \in B THEN g[o] ELSE 0) = Counts(o, 1)'
        /\ (IF o \in A THEN f[o] ELSE 0) = Counts(o, 1)
    BY <1>6, <2>5 DEF Counts
  <2> QED BY <2>4, <2>6, <2>7
<1>8. Owned(WeightOf)' - Owned(WeightOf)
         = Counts(o, Weight(state[o]))' - Counts(o, Weight(state[o]))
  <2>1. PICK f \in [Objs -> Int] : f = WeightOf
    BY <1>1
  <2>2. PICK g \in [Objs -> Int] : g = WeightOf'
    BY <1>2
  <2>3. \A p \in Objs : p # o => f[p] = g[p]
    BY <2>1, <2>2 DEF WeightOf, Weight
  <2>4. SumFunctionOnSet(g, B) - SumFunctionOnSet(f, A)
          = (IF o \in B THEN g[o] ELSE 0) - (IF o \in A THEN f[o] ELSE 0)
    BY <1>1, <1>5, <2>3, SumMoves
  <2>5. f[o] = Weight(state[o]) /\ g[o] = Weight(state[o])'
    BY <2>1, <2>2 DEF WeightOf, Weight
  <2>6. SumFunctionOnSet(f, A) = Owned(WeightOf) /\ SumFunctionOnSet(g, B) = Owned(WeightOf)'
    BY <1>3, <1>4, <2>1, <2>2 DEF Owned
  <2>7. /\ (IF o \in B THEN g[o] ELSE 0) = Counts(o, Weight(state[o]))'
        /\ (IF o \in A THEN f[o] ELSE 0) = Counts(o, Weight(state[o]))
    BY <1>6, <2>5 DEF Counts
  <2> QED BY <2>4, <2>6, <2>7
<1>9. Owned(BurdenOf)' - Owned(BurdenOf)
         = Counts(o, Burden(state[o]))' - Counts(o, Burden(state[o]))
  <2>1. PICK f \in [Objs -> Int] : f = BurdenOf
    BY <1>1
  <2>2. PICK g \in [Objs -> Int] : g = BurdenOf'
    BY <1>2
  <2>3. \A p \in Objs : p # o => f[p] = g[p]
    BY <2>1, <2>2 DEF BurdenOf, Burden, Weight
  <2>4. SumFunctionOnSet(g, B) - SumFunctionOnSet(f, A)
          = (IF o \in B THEN g[o] ELSE 0) - (IF o \in A THEN f[o] ELSE 0)
    BY <1>1, <1>5, <2>3, SumMoves
  <2>5. f[o] = Burden(state[o]) /\ g[o] = Burden(state[o])'
    BY <2>1, <2>2 DEF BurdenOf, Burden, Weight
  <2>6. SumFunctionOnSet(f, A) = Owned(BurdenOf) /\ SumFunctionOnSet(g, B) = Owned(BurdenOf)'
    BY <1>3, <1>4, <2>1, <2>2 DEF Owned
  <2>7. /\ (IF o \in B THEN g[o] ELSE 0) = Counts(o, Burden(state[o]))'
        /\ (IF o \in A THEN f[o] ELSE 0) = Counts(o, Burden(state[o]))
    BY <1>6, <2>5 DEF Counts
  <2> QED BY <2>4, <2>6, <2>7
<1>10. ASSUME isLit' = isLit
       PROVE  Owned(LightOf)' - Owned(LightOf)
                = Counts(o, Bit(IsLit(o)))' - Counts(o, Bit(IsLit(o)))
  <2>1. PICK f \in [Objs -> Int] : f = LightOf
    BY <1>1
  <2>2. PICK g \in [Objs -> Int] : g = LightOf'
    BY <1>2
  <2>3. \A p \in Objs : p # o => f[p] = g[p]
    BY <1>10, <2>1, <2>2 DEF LightOf, Bit, IsLit
  <2>4. SumFunctionOnSet(g, B) - SumFunctionOnSet(f, A)
          = (IF o \in B THEN g[o] ELSE 0) - (IF o \in A THEN f[o] ELSE 0)
    BY <1>1, <1>5, <2>3, SumMoves
  <2>5. f[o] = Bit(IsLit(o)) /\ g[o] = Bit(IsLit(o))'
    BY <2>1, <2>2 DEF LightOf, Bit, IsLit
  <2>6. SumFunctionOnSet(f, A) = Owned(LightOf) /\ SumFunctionOnSet(g, B) = Owned(LightOf)'
    BY <1>3, <1>4, <2>1, <2>2 DEF Owned
  <2>7. /\ (IF o \in B THEN g[o] ELSE 0) = Counts(o, Bit(IsLit(o)))'
        /\ (IF o \in A THEN f[o] ELSE 0) = Counts(o, Bit(IsLit(o)))
    BY <1>6, <2>5 DEF Counts
  <2> QED BY <2>4, <2>6, <2>7
<1>11. /\ Owned(One)' \in Int /\ Owned(WeightOf)' \in Int
       /\ Owned(BurdenOf)' \in Int /\ Owned(LightOf)' \in Int
  <2>1. IsFiniteSet(B)
    BY <1>1, FS_Subset
  <2>2. \A g \in [Objs -> Int] : SumFunctionOnSet(g, B) \in Int
    BY <2>1, SumUnfolds
  <2> QED BY <1>2, <1>4, <2>2 DEF Owned
<1> QED BY <1>7, <1>8, <1>9, <1>10, <1>11

\* asetstate and osflag: off the books in one state, and on them in another.
LEMMA RebookShifts ==
  ASSUME TypeOK, NEW o \in Objs, Owner(o) \in Slots \cup {-1},
         NEW n \in States(o), NEW lit \in BOOLEAN
  PROVE  Shift(avatars, Rebook(o, avatars, n, lit), 0,
               Counts(o, Weight(n)) - Counts(o, Weight(state[o])),
               Counts(o, Burden(n)) - Counts(o, Burden(state[o])),
               Counts(o, Bit(lit)) - Counts(o, Bit(IsLit(o))))
<1>1. state[o] \in States(o) /\ IsLit(o) \in BOOLEAN /\ avatars \in [Slots -> Avatar]
  BY StatesShared DEF TypeOK, IsLit
<1>2. CASE Owner(o) \in Slots
  <2>1. PICK s \in Slots : s = Owner(o)
    BY <1>2
  <2>2. PICK m \in [Slots -> Avatar] : m = rem_obj(avatars, s, state[o], IsLit(o))
    BY <1>1, Booked
  <2>3. PICK k \in [Slots -> Avatar] : k = add_obj(m, s, n, lit)
    BY Booked
  <2>4. Rebook(o, avatars, n, lit) = k
    BY <1>2, <2>1, <2>2, <2>3 DEF Rebook, Slots, Player, Idle
  <2>5. PICK j \in Int, w \in Int, b \in Int, l \in Int :
          /\ j = -1 /\ w = 0 - Weight(state[o]) /\ b = 0 - Burden(state[o])
          /\ l = 0 - Bit(IsLit(o))
    BY <1>1, StatesShared DEF Bit
  <2>6. PICK i \in Int, v \in Int, c \in Int, h \in Int :
          i = 1 /\ v = Weight(n) /\ c = Burden(n) /\ h = Bit(lit)
    BY StatesShared DEF Bit
  <2>7. Shift(avatars, m, j, w, b, l) /\ Shift(m, k, i, v, c, h)
    BY <1>1, <2>2, <2>3, <2>5, <2>6, BookingShifts
  <2>8. Shift(avatars, k, j + i, w + v, b + c, l + h)
    BY <1>1, <2>7, ShiftTwice
  <2>9. IsOwned(o)
    BY <1>2, <2>1, Numbers DEF Owner, Slots, Player, Idle
  <2>10. /\ Weight(state[o]) \in Int /\ Burden(state[o]) \in Int /\ Bit(IsLit(o)) \in Int
    BY <1>1, StatesShared DEF Bit
  <2>11. /\ j + i = 0
         /\ w + v = Counts(o, Weight(n)) - Counts(o, Weight(state[o]))
         /\ b + c = Counts(o, Burden(n)) - Counts(o, Burden(state[o]))
         /\ l + h = Counts(o, Bit(lit)) - Counts(o, Bit(IsLit(o)))
    BY <2>5, <2>6, <2>9, <2>10 DEF Counts
  <2> QED BY <2>4, <2>8, <2>11
<1>3. CASE Owner(o) = -1
  <2>1. ~IsOwned(o)
    <3>1. location[o] \in Nat \/ location[o] \in {-1, -5, -15}
      BY Numbers, WorldAssumption DEF TypeOK
    <3> QED BY <1>3, <3>1 DEF Owner, IsOwned, OwnerOffset, MAXU
  <2>2. Shift(avatars, avatars, 0, 0, 0, 0)
    BY <1>1, ShiftNone
  <2>3. /\ Counts(o, Weight(n)) - Counts(o, Weight(state[o])) = 0
        /\ Counts(o, Burden(n)) - Counts(o, Burden(state[o])) = 0
        /\ Counts(o, Bit(lit)) - Counts(o, Bit(IsLit(o))) = 0
    BY <2>1 DEF Counts
  <2>4. Rebook(o, avatars, n, lit) = avatars
    BY <1>3 DEF Rebook
  <2> QED BY <2>2, <2>3, <2>4
<1> QED BY <1>2, <1>3

-----------------------------------------------------------------------------
\* What HandsBooked says of a step that is no login.
Kept ==
  \/ LoadBooked /\ (LightBooked \/ RecoversLoose \/ isLit' # isLit)
  \/ DropsUnheld
  \/ RecoversHeld

\* The books shift by what the object counts for.
LEMMA BooksFollow ==
  ASSUME TypeOK, TypeOK', NEW o \in Objs,
         \A p \in Objs : p # o => location'[p] = location[p] /\ state'[p] = state[p],
         NEW l \in Int,
         Shift(avatars, avatars', Counts(o, 1)' - Counts(o, 1),
               Counts(o, Weight(state[o]))' - Counts(o, Weight(state[o])),
               Counts(o, Burden(state[o]))' - Counts(o, Burden(state[o])), l),
         \/ l = Counts(o, Bit(IsLit(o)))' - Counts(o, Bit(IsLit(o)))
         \/ RecoversLoose
         \/ isLit' # isLit
  PROVE  Kept
<1>1. avatars \in [Slots -> Avatar] /\ avatars' \in [Slots -> Avatar]
  BY DEF TypeOK, Avatar
<1>2. PICK av \in [Slots -> Avatar] : av = avatars
  BY <1>1
<1>3. PICK bv \in [Slots -> Avatar] : bv = avatars'
  BY <1>1
<1>4. /\ Total(av, "numobj") \in Int /\ Total(av, "weight") \in Int
      /\ Total(av, "strength") \in Int /\ Total(av, "light") \in Int
      /\ Total(bv, "numobj") \in Int /\ Total(bv, "weight") \in Int
      /\ Total(bv, "strength") \in Int /\ Total(bv, "light") \in Int
  BY Totals
<1>5. /\ InHand("numobj") = Total(av, "numobj") /\ InHand("weight") = Total(av, "weight")
      /\ InHand("strength") = Total(av, "strength") /\ InHand("light") = Total(av, "light")
      /\ InHand("numobj")' = Total(bv, "numobj") /\ InHand("weight")' = Total(bv, "weight")
      /\ InHand("strength")' = Total(bv, "strength") /\ InHand("light")' = Total(bv, "light")
  BY <1>2, <1>3 DEF InHand, Total
<1>6. /\ Owned(One) \in Int /\ Owned(WeightOf) \in Int
      /\ Owned(BurdenOf) \in Int /\ Owned(LightOf) \in Int
  BY Measures
<1>7. /\ Owned(One)' \in Int /\ Owned(WeightOf)' \in Int
      /\ Owned(BurdenOf)' \in Int /\ Owned(LightOf)' \in Int
  BY OwnedMoves
<1>8. /\ Total(bv, "numobj") = Total(av, "numobj") + (Owned(One)' - Owned(One))
      /\ Total(bv, "weight") = Total(av, "weight") + (Owned(WeightOf)' - Owned(WeightOf))
      /\ Total(bv, "strength") = Total(av, "strength") - (Owned(BurdenOf)' - Owned(BurdenOf))
  BY <1>2, <1>3, OwnedMoves DEF Shift
<1>9. l = Counts(o, Bit(IsLit(o)))' - Counts(o, Bit(IsLit(o))) /\ isLit' = isLit
        => (InHand("light")' - InHand("light") - Owned(LightOf)' + Owned(LightOf)) % Word = 0
  <2> SUFFICES ASSUME l = Counts(o, Bit(IsLit(o)))' - Counts(o, Bit(IsLit(o))), isLit' = isLit
               PROVE  (InHand("light")' - InHand("light") - Owned(LightOf)' + Owned(LightOf)) % Word = 0
    OBVIOUS
  <2>1. l = Owned(LightOf)' - Owned(LightOf)
    BY OwnedMoves
  <2>2. (Total(bv, "light") - Total(av, "light") - l) % Word = 0
    BY <1>2, <1>3 DEF Shift
  <2>3. InHand("light")' - InHand("light") - Owned(LightOf)' + Owned(LightOf)
          = Total(bv, "light") - Total(av, "light") - l
    BY <1>4, <1>5, <1>6, <1>7, <2>1
  <2> QED BY <2>2, <2>3
<1>10. LoadBooked
  BY <1>4, <1>5, <1>6, <1>7, <1>8 DEF LoadBooked
<1> QED BY <1>9, <1>10 DEF Kept, LightBooked

LEMMA SameKept ==
  ASSUME TypeOK, TypeOK', UNCHANGED things, Shift(avatars, avatars', 0, 0, 0, 0)
  PROVE  Kept
<1>1. PICK av \in [Slots -> Avatar] : av = avatars
  BY DEF TypeOK
<1>2. PICK bv \in [Slots -> Avatar] : bv = avatars'
  BY DEF TypeOK, Avatar
<1>3. /\ Total(av, "numobj") \in Int /\ Total(av, "weight") \in Int
      /\ Total(av, "strength") \in Int /\ Total(av, "light") \in Int
      /\ Total(bv, "numobj") \in Int /\ Total(bv, "weight") \in Int
      /\ Total(bv, "strength") \in Int /\ Total(bv, "light") \in Int
  BY Totals
<1>4. /\ InHand("numobj") = Total(av, "numobj") /\ InHand("weight") = Total(av, "weight")
      /\ InHand("strength") = Total(av, "strength") /\ InHand("light") = Total(av, "light")
      /\ InHand("numobj")' = Total(bv, "numobj") /\ InHand("weight")' = Total(bv, "weight")
      /\ InHand("strength")' = Total(bv, "strength") /\ InHand("light")' = Total(bv, "light")
  BY <1>1, <1>2 DEF InHand, Total
<1>5. /\ Owned(One) \in Int /\ Owned(WeightOf) \in Int
      /\ Owned(BurdenOf) \in Int /\ Owned(LightOf) \in Int
  BY Measures
<1>6. /\ Owned(One)' = Owned(One) /\ Owned(WeightOf)' = Owned(WeightOf)
      /\ Owned(BurdenOf)' = Owned(BurdenOf) /\ Owned(LightOf)' = Owned(LightOf)
  <2>1. location' = location /\ state' = state /\ isLit' = isLit
    BY DEF things
  <2> QED BY <2>1 DEF Owned, One, WeightOf, BurdenOf, LightOf, Weight, Burden, Bit, IsLit, IsOwned
<1>7. /\ Total(bv, "numobj") = Total(av, "numobj") /\ Total(bv, "weight") = Total(av, "weight")
      /\ Total(bv, "strength") = Total(av, "strength")
      /\ (Total(bv, "light") - Total(av, "light")) % Word = 0
  BY <1>1, <1>2, <1>3 DEF Shift
<1>8. InHand("light")' - InHand("light") - Owned(LightOf)' + Owned(LightOf)
         = Total(bv, "light") - Total(av, "light")
  BY <1>3, <1>4, <1>5, <1>6
<1>9. LoadBooked /\ LightBooked
  BY <1>3, <1>4, <1>5, <1>6, <1>7, <1>8 DEF LoadBooked, LightBooked
<1> QED BY <1>9 DEF Kept

LEMMA OwnedPlaces ==
  ASSUME TypeOK, TypeOK', NEW o \in Objs
  PROVE  /\ IsOwned(o) <=> location[o] \in {Held(Player), Held(Idle)}
         /\ IsOwned(o)' <=> location'[o] \in {Held(Player), Held(Idle)}
         /\ Owner(o) = -1 <=> ~IsOwned(o)
         /\ Held(Player) \notin Rooms \cup {Nowhere} /\ Held(Idle) \notin Rooms \cup {Nowhere}
<1>1. /\ location[o] \in Rooms \cup {-1, -5, -15} /\ location'[o] \in Rooms \cup {-1, -5, -15}
      /\ Rooms \subseteq Nat
  BY Numbers, WorldAssumption DEF TypeOK
<1>2. /\ IsOwned(o) <=> location[o] \in -19 .. -5
      /\ IsOwned(o)' <=> location'[o] \in -19 .. -5
  BY DEF IsOwned, OwnerOffset, MAXU
<1>3. Owner(o) = IF IsOwned(o) THEN -location[o] - (-5) ELSE -1
  BY DEF Owner, OwnerOffset
<1>4. IsOwned(o) => location[o] \in {-5, -15}
  BY <1>1, <1>2
<1>5. Owner(o) = -1 <=> ~IsOwned(o)
  BY <1>3, <1>4
<1> QED BY <1>1, <1>2, <1>5, Numbers

LEMMA ActKept ==
  ASSUME IInv, IInv', NEW o \in Objs, Act(o)
  PROVE  Kept
<1>1. /\ TypeOK /\ TypeOK' /\ avatars \in [Slots -> Avatar]
      /\ location \in [Objs -> Rooms \cup {Nowhere, Held(Player), Held(Idle)}]
      /\ state \in [Objs -> Int] /\ isLit \in [Shared -> BOOLEAN]
      /\ Player \in Slots
  BY DEF IInv, TypeOK, StateFunc, Slots
<1>2. Ready
  BY DEF Act, Get, Drop, Destroy, Recover, Send, SetState, osflag
<1>3. avatars[Player].room \in Rooms
  BY <1>2 DEF IInv, InRoom, Ready
<1>4. state[o] \in States(o) /\ IsLit(o) \in BOOLEAN
  BY <1>1, StatesShared DEF IsLit, TypeOK
<1>5. PICK w \in Int, b \in Int, l \in Int :
         w = Weight(state[o]) /\ b = Burden(state[o]) /\ l = Bit(IsLit(o))
  BY <1>4, StatesShared DEF Bit
<1>6. PICK no \in BOOLEAN : no = FALSE
  OBVIOUS
<1>7. PICK z \in Int : z = 0
  OBVIOUS
\* The books of a step that changes nothing of the object but where it is.
<1>8. ASSUME UNCHANGED <<state, isLit>>, \A p \in Objs : p # o => location'[p] = location[p],
             Shift(avatars, avatars', Counts(o, 1)' - Counts(o, 1), Counts(o, w)' - Counts(o, w),
                   Counts(o, b)' - Counts(o, b), Counts(o, l)' - Counts(o, l))
      PROVE  Kept
  <2>1. /\ w = Weight(state[o])' /\ b = Burden(state[o])' /\ l = Bit(IsLit(o))'
    BY <1>5, <1>8 DEF Weight, Burden, Bit, IsLit
  <2>2. /\ Counts(o, w)' = Counts(o, Weight(state[o]))'
        /\ Counts(o, b)' = Counts(o, Burden(state[o]))'
        /\ Counts(o, l)' = Counts(o, Bit(IsLit(o)))'
        /\ Counts(o, w) = Counts(o, Weight(state[o]))
        /\ Counts(o, b) = Counts(o, Burden(state[o]))
        /\ Counts(o, l) = Counts(o, Bit(IsLit(o)))
    BY <1>5, <2>1 DEF Counts
  <2>3. PICK k \in Int : k = Counts(o, l)' - Counts(o, l)
    BY DEF Counts
  <2> QED BY <1>1, <1>8, <2>2, <2>3, BooksFollow
<1>9. ASSUME Get(o), ~RunsWild(o)
      PROVE  Kept
  <2>1. /\ Owner(o) \in Slots \cup {-1}
        /\ location' = [location EXCEPT ![o] = Held(Player)]
        /\ UNCHANGED <<state, isLit>>
    BY <1>9 DEF Get
  <2>2. IsOwned(o)'
    BY <1>1, <2>1, OwnedPlaces
  <2>3. PICK near, stray, given :
          /\ near \in BOOLEAN /\ stray \in BOOLEAN
          /\ given = add_obj(Taken(o), Player, state[o], IsLit(o))
          /\ avatars' = IF IsLit(o) THEN GivenLight(given, Owner(o), near, stray) ELSE given
    BY <1>9 DEF Get
  <2>4. PICK m \in [Slots -> Avatar] : m = Taken(o)
    BY <1>1, <2>1, TakenIs
  <2>5. PICK n \in Int, v \in Int, c \in Int, h \in Int :
          /\ n = 0 - Counts(o, 1) /\ v = 0 - Counts(o, w)
          /\ c = 0 - Counts(o, b) /\ h = 0 - Counts(o, l)
    BY DEF Counts
  <2>6. Shift(avatars, m, n, v, c, h)
    BY <1>1, <1>5, <2>1, <2>4, <2>5, TakenShifts
  <2>7. given \in [Slots -> Avatar]
    BY <1>1, <1>4, <2>3, <2>4, Booked
  <2>8. PICK one \in Int : one = 1
    OBVIOUS
  <2>9. Shift(m, given, one, w, b, l)
    BY <1>1, <1>4, <1>5, <2>3, <2>4, <2>8, BookingShifts
  <2>10. Shift(avatars, given, n + one, v + w, c + b, h + l)
    BY <1>1, <2>6, <2>7, <2>8, <2>9, ShiftTwice
  <2>11. PICK n1 \in Int, v1 \in Int, c1 \in Int, h1 \in Int :
           n1 = n + one /\ v1 = v + w /\ c1 = c + b /\ h1 = h + l
    OBVIOUS
  <2>12. /\ n1 + z = Counts(o, 1)' - Counts(o, 1) /\ v1 + z = Counts(o, w)' - Counts(o, w)
         /\ c1 + z = Counts(o, b)' - Counts(o, b) /\ h1 + z = Counts(o, l)' - Counts(o, l)
         /\ n1 + z = n1 /\ v1 + z = v1 /\ c1 + z = c1 /\ h1 + z = h1
    BY <1>7, <2>2, <2>5, <2>8, <2>11 DEF Counts
  <2>13. CASE avatars' = given
    BY <1>8, <2>1, <2>10, <2>11, <2>12, <2>13
  <2>14. CASE avatars' = GivenLight(given, Owner(o), near, stray)
    <3>1. PICK lit \in [Slots -> Avatar] : lit = avatars' /\ Shift(given, lit, z, z, z, z)
      BY <1>7, <2>1, <2>3, <2>7, <2>14, GivenLit, GivenLightShifts
    <3>2. Shift(avatars, lit, n1 + z, v1 + z, c1 + z, h1 + z)
      BY <1>1, <1>7, <2>7, <2>10, <2>11, <3>1, ShiftTwice
    <3> QED BY <1>8, <2>1, <2>12, <3>1, <3>2
  <2> QED BY <2>3, <2>13, <2>14
<1>10. ASSUME Drop(o), IsOwned(o)
       PROVE  Kept
  <2>1. /\ IsOwned(o)
        /\ location' = [location EXCEPT ![o] = avatars[Player].room]
        /\ UNCHANGED <<state, isLit>>
    BY <1>10 DEF Drop
  <2>2. IsOwned(o) /\ ~IsOwned(o)'
    BY <1>1, <1>3, <2>1, OwnedPlaces
  <2>3. PICK lost \in [Slots -> Avatar] : lost = rem_obj(avatars, Player, state[o], IsLit(o))
    BY <1>1, <1>4, Booked
  <2>4. PICK n \in Int, v \in Int, c \in Int, h \in Int :
          n = -1 /\ v = 0 - w /\ c = 0 - b /\ h = 0 - l
    OBVIOUS
  <2>5. Shift(avatars, lost, n, v, c, h)
    BY <1>1, <1>4, <1>5, <2>3, <2>4, BookingShifts
  <2>6. avatars' = lighting(lost, Player, no)
    BY <1>6, <1>10, <2>3 DEF Drop
  <2>7. PICK lit \in [Slots -> Avatar] : lit = avatars' /\ Shift(lost, lit, z, z, z, z)
    BY <1>1, <1>7, <2>6, Lit, LightingShifts
  <2>8. Shift(avatars, lit, n + z, v + z, c + z, h + z)
    BY <1>1, <1>7, <2>5, <2>7, ShiftTwice
  <2>9. /\ n + z = Counts(o, 1)' - Counts(o, 1) /\ v + z = Counts(o, w)' - Counts(o, w)
        /\ c + z = Counts(o, b)' - Counts(o, b) /\ h + z = Counts(o, l)' - Counts(o, l)
    BY <1>7, <2>2, <2>4 DEF Counts
  <2> QED BY <1>8, <2>1, <2>7, <2>8, <2>9
<1>11. ASSUME NEW r \in Rooms \cup {Nowhere}, NEW stray \in BOOLEAN, Owner(o) \in Slots \cup {-1},
              location' = [location EXCEPT ![o] = r], UNCHANGED <<state, isLit>>,
              avatars' = LoseObj(o, avatars, stray)
       PROVE  Kept
  <2>1. ~IsOwned(o)'
    BY <1>1, <1>11, OwnedPlaces
  <2>2. Shift(avatars, avatars', 0 - Counts(o, 1), 0 - Counts(o, Weight(state[o])),
              0 - Counts(o, Burden(state[o])), 0 - Counts(o, Bit(IsLit(o))))
    BY <1>1, <1>11, LoseShifts
  <2>3. /\ Counts(o, 1)' = 0 /\ Counts(o, w)' = 0 /\ Counts(o, b)' = 0 /\ Counts(o, l)' = 0
    BY <2>1 DEF Counts
  <2> QED BY <1>5, <1>8, <1>11, <2>2, <2>3
<1>12. CASE RunsWild(o)
  <2>1. UNCHANGED <<things, avatars>>
    BY <1>12 DEF RunsWild
  <2>2. Shift(avatars, avatars', 0, 0, 0, 0)
    BY <1>1, <2>1, ShiftNone
  <2> QED BY <1>1, <2>1, <2>2, SameKept
<1>13. ASSUME NEW r \in Rooms, Send(o, r), ~RunsWild(o)
       PROVE  Kept
  <2>1. /\ Owner(o) \in Slots \cup {-1}
        /\ location' = [location EXCEPT ![o] = r]
        /\ UNCHANGED <<state, isLit>>
    BY <1>13 DEF Send
  <2>2. PICK stray \in BOOLEAN : avatars' = LoseObj(o, avatars, stray)
    BY <1>13 DEF Send
  <2> QED BY <1>11, <2>1, <2>2
<1>14. ASSUME Destroy(o), ~RunsWild(o)
       PROVE  Kept
  <2>1. /\ Owner(o) \in Slots \cup {-1}
        /\ location' = [location EXCEPT ![o] = Nowhere]
        /\ UNCHANGED <<state, isLit>>
    BY <1>14 DEF Destroy
  <2>2. PICK stray, lost :
          /\ stray \in BOOLEAN
          /\ lost = rem_obj(avatars, Owner(o), state[o], IsLit(o))
          /\ IF Owner(o) # -1 /\ Lights(lost[Owner(o)], stray)
               THEN avatars' = IF lost[Owner(o)].light = 0
                                 THEN lighting(lost, Owner(o), stray) ELSE lost
               ELSE avatars' = LoseObj(o, avatars, stray)
    BY <1>14 DEF Destroy
  <2>3. CASE avatars' = LoseObj(o, avatars, stray)
    BY <1>11, <2>1, <2>2, <2>3
  <2>4. ASSUME Owner(o) # -1, avatars' = lost \/ avatars' = lighting(lost, Owner(o), stray)
        PROVE  Kept
    <3>1. PICK s \in Slots : s = Owner(o)
      BY <2>1, <2>4
    <3>2. lost \in [Slots -> Avatar]
      BY <1>1, <1>4, <2>2, <3>1, Booked
    <3>3. IsOwned(o) /\ ~IsOwned(o)'
      BY <1>1, <2>1, <2>4, OwnedPlaces
    <3>4. PICK n \in Int, v \in Int, c \in Int, h \in Int :
            n = -1 /\ v = 0 - w /\ c = 0 - b /\ h = 0 - l
      OBVIOUS
    <3>5. Shift(avatars, lost, n, v, c, h)
      BY <1>1, <1>4, <1>5, <2>2, <3>1, <3>4, BookingShifts
    <3>6. /\ n = Counts(o, 1)' - Counts(o, 1) /\ v = Counts(o, w)' - Counts(o, w)
          /\ c = Counts(o, b)' - Counts(o, b) /\ h = Counts(o, l)' - Counts(o, l)
      BY <3>3, <3>4 DEF Counts
    <3>7. CASE avatars' = lighting(lost, Owner(o), stray)
      <4>1. PICK lit \in [Slots -> Avatar] : lit = avatars' /\ Shift(lost, lit, z, z, z, z)
        BY <1>7, <2>2, <3>1, <3>2, <3>7, Lit, LightingShifts
      <4>2. Shift(avatars, lit, n + z, v + z, c + z, h + z)
        BY <1>1, <1>7, <3>2, <3>5, <4>1, ShiftTwice
      <4>3. n + z = n /\ v + z = v /\ c + z = c /\ h + z = h
        BY <1>7
      <4> QED BY <1>8, <2>1, <3>6, <4>1, <4>2, <4>3
    <3> QED BY <1>8, <2>1, <2>4, <3>5, <3>6, <3>7
  <2> QED BY <2>2, <2>3, <2>4
<1>15. ASSUME Recover(o), ~IsOwned(o)
       PROVE  Kept
  <2>1. /\ ~IsOwned(o)
        /\ location' = [location EXCEPT ![o] = avatars[Player].room]
        /\ UNCHANGED <<state, isLit>>
    BY <1>15 DEF Recover
  <2>2. ~IsOwned(o) /\ ~IsOwned(o)'
    BY <1>1, <1>3, <2>1, OwnedPlaces
  <2>3. PICK a \in Avatar : a = avatars[Player]
    BY <1>1
  <2>4. a.light \in Int
    <3>1. \A x \in 0 .. Word - 1 : x \in Int
      BY DEF Word
    <3> QED BY <3>1 DEF Avatar
  <2>5. PICK c : c = [a EXCEPT !.light = (a.light + l) % Word]
    OBVIOUS
  <2>6. /\ c \in Avatar /\ c.numobj = a.numobj /\ c.weight = a.weight
        /\ c.strength = a.strength /\ c.light = (a.light + l) % Word
    <3>1. (a.light + l) % Word \in 0 .. Word - 1
      BY <2>4, Wraps
    <3> QED BY <2>5, <3>1 DEF Avatar
  <2>7. PICK seen \in [Slots -> Avatar] : seen = [avatars EXCEPT ![Player] = c]
    BY <1>1, <2>6, AvatarsAt
  <2>8. Shift(avatars, seen, z, z, z, l)
    <3>1. (c.light - a.light - l) % Word = 0
      BY <2>4, <2>6 DEF Word
    <3>2. /\ a.numobj \in Int /\ a.weight \in Int /\ a.strength \in Int
      BY DEF Avatar
    <3>3. /\ c.numobj = a.numobj + z /\ c.weight = a.weight + z
          /\ c.strength = a.strength - z
      BY <1>7, <2>6, <3>2
    <3> QED BY <1>1, <2>3, <2>6, <2>7, <3>1, <3>3, ShiftOne
  <2>9. avatars' = lighting(seen, Player, no)
    <3>1. [avatars EXCEPT ![Player].light = (@ + Bit(IsLit(o))) % Word] = seen
      BY <1>1, <1>5, <2>3, <2>5, <2>7
    <3> QED BY <1>6, <1>15, <3>1 DEF Recover
  <2>10. PICK lit \in [Slots -> Avatar] : lit = avatars' /\ Shift(seen, lit, z, z, z, z)
    BY <1>1, <1>7, <2>9, Lit, LightingShifts
  <2>11. Shift(avatars, lit, z + z, z + z, z + z, l + z)
    BY <1>1, <1>7, <2>8, <2>10, ShiftTwice
  <2>12. /\ z + z = Counts(o, 1)' - Counts(o, 1)
         /\ z + z = Counts(o, Weight(state[o]))' - Counts(o, Weight(state[o]))
         /\ z + z = Counts(o, Burden(state[o]))' - Counts(o, Burden(state[o]))
         /\ l + z \in Int
    BY <1>7, <2>2 DEF Counts
  <2>13. RecoversLoose
    BY <1>15 DEF RecoversLoose
  <2>14. \A p \in Objs : p # o => location'[p] = location[p] /\ state'[p] = state[p]
    BY <1>1, <2>1
  <2>15. Shift(avatars, avatars', Counts(o, 1)' - Counts(o, 1),
               Counts(o, Weight(state[o]))' - Counts(o, Weight(state[o])),
               Counts(o, Burden(state[o]))' - Counts(o, Burden(state[o])), l + z)
    BY <2>10, <2>11, <2>12
  <2>16. PICK k \in Int : k = l + z
    BY <2>12
  <2> QED BY <1>1, <2>13, <2>14, <2>15, <2>16, BooksFollow
\* The object is taken back, changed and given to whoever add_obj writes it for.
<1>16. ASSUME NEW n \in States(o), NEW lit \in BOOLEAN, NEW stray \in BOOLEAN, NEW back,
              Owner(o) \in Slots \cup {-1}, GiveBack(o),
              state' = [state EXCEPT ![o] = n], isLit'[n] = lit,
              back = Rebook(o, avatars, n, lit),
              avatars' = back \/ (Owner(o) # -1 /\ avatars' = lighting(back, Owner(o), stray))
       PROVE  Kept
  <2>1. IsOwned(o)' <=> IsOwned(o)
    <3>1. CASE Owner(o) = -1
      <4>1. location' = location
        BY <1>16, <3>1 DEF GiveBack
      <4> QED BY <4>1 DEF IsOwned
    <3>2. CASE Owner(o) # -1
      <4>1. Owner(o) = Idle
        BY <1>1, <1>16, <3>2, Owners
      <4>2. location'[o] = Held(Idle)
        BY <1>1, <1>16, <3>2, <4>1 DEF GiveBack
      <4> QED BY <1>1, <3>2, <4>2, OwnedPlaces
    <3> QED BY <3>1, <3>2
  <2>2. PICK v \in Int, c \in Int, h \in Int :
          /\ v = Counts(o, Weight(n)) - Counts(o, Weight(state[o]))
          /\ c = Counts(o, Burden(n)) - Counts(o, Burden(state[o]))
          /\ h = Counts(o, Bit(lit)) - Counts(o, Bit(IsLit(o)))
    <3>1. Weight(n) \in Int /\ Burden(n) \in Int /\ Bit(lit) \in Int
      BY StatesShared DEF Bit
    <3> QED BY <1>5, <3>1 DEF Counts
  <2>3. back \in [Slots -> Avatar]
    BY <1>1, <1>16, Rebooked
  <2>4. Shift(avatars, back, z, v, c, h)
    BY <1>1, <1>7, <1>16, <2>2, RebookShifts
  <2>5. Shift(avatars, avatars', z, v, c, h)
    <3>1. CASE Owner(o) # -1 /\ avatars' = lighting(back, Owner(o), stray)
      <4>1. PICK s \in Slots : s = Owner(o)
        BY <1>16, <3>1
      <4>2. PICK seen \in [Slots -> Avatar] : seen = avatars' /\ Shift(back, seen, z, z, z, z)
        BY <1>7, <2>3, <3>1, <4>1, Lit, LightingShifts
      <4>3. Shift(avatars, seen, z + z, v + z, c + z, h + z)
        BY <1>1, <1>7, <2>3, <2>4, <4>2, ShiftTwice
      <4>4. z + z = z /\ v + z = v /\ c + z = c /\ h + z = h
        BY <1>7
      <4> QED BY <4>2, <4>3, <4>4
    <3> QED BY <1>16, <2>4, <3>1
  <2>6. state'[o] = n /\ \A p \in Objs : p # o => state'[p] = state[p]
    BY <1>1, <1>16, StatesShared
  <2>7. \A p \in Objs : p # o => location'[p] = location[p]
    BY <1>1, <1>16 DEF GiveBack
  <2>8. /\ Counts(o, 1)' - Counts(o, 1) = z
        /\ Counts(o, Weight(state[o]))' = Counts(o, Weight(n))
        /\ Counts(o, Burden(state[o]))' = Counts(o, Burden(n))
        /\ Counts(o, Bit(IsLit(o)))' = Counts(o, Bit(lit))
    BY <1>7, <1>16, <2>1, <2>6 DEF Counts, Weight, Burden, Bit, IsLit
  <2> QED BY <1>1, <2>2, <2>5, <2>6, <2>7, <2>8, BooksFollow
<1>17. ASSUME NEW n \in States(o), SetState(o, n), ~RunsWild(o)
       PROVE  Kept
  <2>1. /\ Owner(o) \in Slots \cup {-1} /\ GiveBack(o)
        /\ state' = [state EXCEPT ![o] = n]
    BY <1>17 DEF SetState
  <2>2. PICK lit \in BOOLEAN : lit = isLit'[n]
    <3>1. n \in Shared /\ isLit' \in [Shared -> BOOLEAN]
      BY <1>1, StatesShared DEF TypeOK
    <3> QED BY <3>1
  <2>3. PICK stray, back :
          /\ stray \in BOOLEAN
          /\ back = Rebook(o, avatars, n, isLit'[n])
          /\ avatars' = IF Owner(o) = -1 \/ o \in ShowFire THEN back
                        ELSE lighting(back, Owner(o), stray)
    BY <1>17 DEF SetState
  <2> QED BY <1>16, <2>1, <2>2, <2>3
<1>18. ASSUME NEW lit \in BOOLEAN, osflag(o, lit), ~RunsWild(o)
       PROVE  Kept
  <2>1. /\ Owner(o) \in Slots \cup {-1} /\ GiveBack(o)
        /\ isLit' = [isLit EXCEPT ![state[o]] = lit] /\ state' = state
    BY <1>18 DEF osflag
  <2>2. isLit'[state[o]] = lit /\ state' = [state EXCEPT ![o] = state[o]]
    BY <1>1, <1>4, <2>1, StatesShared
  <2>3. PICK stray, back :
          /\ stray \in BOOLEAN
          /\ back = Rebook(o, avatars, state[o], lit)
          /\ avatars' = IF Owner(o) = -1 THEN avatars
                        ELSE lighting(back, Owner(o), stray)
    BY <1>18 DEF osflag
  <2>4. Owner(o) = -1 => back = avatars
    BY <2>3 DEF Rebook
  <2>5. PICK n \in States(o) : n = state[o]
    BY <1>4
  <2> QED BY <1>16, <2>1, <2>2, <2>3, <2>4, <2>5
<1>19. (Drop(o) /\ ~IsOwned(o)) \/ (Recover(o) /\ IsOwned(o)) => Kept
  BY DEF Kept, DropsUnheld, RecoversHeld
<1> QED BY <1>9, <1>10, <1>12, <1>13, <1>14, <1>15, <1>17, <1>18, <1>19 DEF Act

(***************************************************************************)
(* What the two avatars have booked together moves with what is in their   *)
(* hands through agive, loseobj, asetstate, osflag and every move, and     *)
(* through adrop of what is held.  adrop of what nobody holds and arecover *)
(* of what somebody holds are the steps of which it says nothing: there    *)
(* the code books one object too few, or leaves one.                       *)
(***************************************************************************)
THEOREM BooksFollowObjects == Spec => HandsBooked
<1>1. IInv /\ IInv' /\ [Next]_vars => [logins' = logins => Kept]_vars
  <2> SUFFICES ASSUME IInv, IInv', Next, logins' = logins PROVE Kept
    OBVIOUS
  <2>1. /\ TypeOK /\ TypeOK' /\ avatars \in [Slots -> Avatar] /\ avatars' \in [Slots -> Avatar]
    BY DEF IInv, TypeOK, Avatar
  <2>2. CASE \E o \in Objs : Act(o)
    BY <2>2, ActKept
  <2>3. ASSUME NEW r \in Rooms, avatars' = Walk(r), UNCHANGED things
        PROVE  Kept
    <3>1. Shift(avatars, avatars', 0, 0, 0, 0)
      BY <2>1, <2>3, WalkShifts
    <3> QED BY <2>1, <2>3, <3>1, SameKept
  <2>4. ASSUME UNCHANGED <<things, avatars>>
        PROVE  Kept
    <3>1. Shift(avatars, avatars', 0, 0, 0, 0)
      BY <2>1, <2>4, ShiftNone
    <3> QED BY <2>1, <2>4, <3>1, SameKept
  <2>5. CASE Go
    <3>1. CASE Arrive
      <4>1. dest \in Rooms
        BY <2>1, <3>1 DEF Arrive, TypeOK
      <4> QED BY <2>3, <3>1, <4>1 DEF Arrive
    <3>2. ASSUME NEW r \in Rooms, Move(r) PROVE Kept
      BY <2>3, <3>2 DEF Move
    <3>3. ASSUME NEW r \in Rooms, SetOff(r) PROVE Kept
      BY <2>4, <3>3 DEF SetOff
    <3> QED BY <2>5, <3>1, <3>2, <3>3 DEF Go
  <2>6. CASE Leave
    <3>1. UNCHANGED things /\ avatars' = [avatars EXCEPT ![Player].room = Nowhere]
      BY <2>6 DEF Leave
    <3>2. PICK a \in Avatar : a = avatars[Player]
      BY <2>1 DEF Slots
    <3>3. PICK c : c = [a EXCEPT !.room = Nowhere]
      OBVIOUS
    <3>4. /\ c.numobj = a.numobj /\ c.weight = a.weight
          /\ c.strength = a.strength /\ c.light = a.light
      BY <3>3 DEF Avatar
    <3>5. avatars' = [avatars EXCEPT ![Player] = c]
      BY <2>1, <3>1, <3>2, <3>3
    <3>6. \A p \in Slots : /\ avatars'[p].numobj = avatars[p].numobj
                           /\ avatars'[p].weight = avatars[p].weight
                           /\ avatars'[p].strength = avatars[p].strength
                           /\ avatars'[p].light = avatars[p].light
      BY <2>1, <3>2, <3>4, <3>5
    <3>7. PICK bv \in [Slots -> Avatar] : bv = avatars'
      BY <2>1
    <3>8. Shift(avatars, bv, 0, 0, 0, 0)
      BY <2>1, <3>6, <3>7, ShiftNone
    <3> QED BY <2>1, <3>1, <3>7, <3>8, SameKept
  <2>7. CASE \E r \in Rooms : Login(r)
    <3>1. logins' = logins + 1 /\ logins \in Nat
      BY <2>1, <2>7, WorldAssumption DEF Login, TypeOK
    <3> QED BY <3>1
  <2> QED BY <2>2, <2>5, <2>6, <2>7 DEF Next, Come
<1>2. Spec => [][logins' = logins => Kept]_vars
  BY <1>1, SpecIInv, PTL DEF Spec
<1> QED BY <1>2 DEF HandsBooked, Kept
=============================================================================
