------------------------------ MODULE Objects ------------------------------
(***************************************************************************)
(* Objects, who holds them, and light (amul.wholeoriginal.cpp: add_obj,    *)
(* rem_obj, agive, adrop, loseobj, adestroy, arecover, send, asetstate,    *)
(* osflag, lighting, ActionGoToRoom; amul.members.cpp: Owner).  The player *)
(* of slot 0 is the only one whose thread runs these actions; each is one  *)
(* step, save a move that waits for the critical section.                  *)
(*                                                                         *)
(* Objects here have one location (nrooms = 1): the others cannot be       *)
(* carried, and these actions only rewrite their list.  A location is a    *)
(* room, Nowhere, or Held(s), as add_obj writes it.  What lit() finds only *)
(* decides who reads a message, so of lit() the lock remains.  Nothing     *)
(* sets wield: AWIELD is compiled out.                                     *)
(*                                                                         *)
(* m_rooms[-1], the flags lighting() reads for an avatar in no room, and   *)
(* m_avatars[-1], which agive reads, hold what they hold: \E stray.  Once  *)
(* an action has written to an avatar behind the last one, "wild" is set   *)
(* and nothing more is said.                                               *)
(*                                                                         *)
(* objs_proc never sets an object's stateOffset, so Game::Load points the  *)
(* states of every object to the first entry of m_objectStates (see        *)
(* Compiler.tla): weight and flags belong to the state's number alone.     *)
(***************************************************************************)
EXTENDS Integers, FiniteSets, Functions

CONSTANTS Objs,         \* the objects that can be carried
          nstates,      \* Object::nstates
          weightOf,     \* ObjState::weight, by state
          startsLit,    \* ObjState::flags & SF_LIT as loaded, by state
          ShowFire,     \* objects with OF_SHOWFIRE
          Rooms,        \* the rooms' numbers
          Dark,         \* rooms with DARK
          Small,        \* rooms with SMALL
          RankStrength, \* Rank::strength of the rank both slots' characters have
          RankMaxWeight,\* Rank::maxweight of it
          MaxCount,     \* bound on the counts of the model
          MaxWrong,     \* bound on how far off the books may be
          MaxLogins     \* bound on the logins of the model

States(o) == 0 .. nstates[o] - 1
Shared    == UNION {States(o) : o \in Objs}

ASSUME WorldAssumption == /\ IsFiniteSet(Objs)
                          /\ Rooms \subseteq Nat
                          /\ Dark \subseteq Rooms /\ Small \subseteq Rooms
                          /\ ShowFire \subseteq Objs
                          /\ nstates \in [Objs -> Nat \ {0}]
                          /\ weightOf \in [Shared -> Nat]
                          /\ startsLit \in [Shared -> BOOLEAN]
                          /\ RankStrength \in Nat
                          /\ RankMaxWeight \in Nat \ {0}
                          /\ MaxCount \in Nat /\ MaxWrong \in Nat
                          /\ MaxLogins \in Nat

MAXU    == 14
Player  == 0   \* the slot the console plays in
Idle    == 10  \* the slot Owner() names for what slot 0 has taken
Slots   == {Player, Idle}
Nowhere == -1
Word    == 65536  \* light and hadlight are uint16_t

VARIABLES location, \* Object::Room(0)
          state,    \* Object::state
          isLit,    \* ObjState::flags & SF_LIT, by state
          zonked,   \* the objects with OF_ZONKED
          avatars,  \* numobj, weight, strength, light, hadlight, room
          dest,     \* where ActionGoToRoom is taking the player, or Nowhere
          critical, \* the player's thread is in the critical section
          online,   \* somebody plays in the slot
          logins,   \* logins so far
          wild

things == <<location, state, isLit, zonked>>
thread == <<dest, critical>>
visit  == <<online, logins>>
vars   == <<things, avatars, thread, visit, wild>>

Init == /\ location \in [Objs -> Rooms]
        /\ state = [o \in Objs |-> 0]
        /\ isLit = startsLit
        /\ zonked = {}
        /\ avatars = [s \in Slots |-> [numobj |-> 0, weight |-> 0,
                                       strength |-> 0, light |-> 1,
                                       hadlight |-> 1, room |-> Nowhere]]
        /\ dest = Nowhere /\ critical = FALSE
        /\ online = FALSE /\ logins = 0 /\ wild = FALSE

-----------------------------------------------------------------------------
(***************************************************************************)
(* Whose an object is.  add_obj writes -(5 + slot); Owner() subtracts      *)
(* OwnerOffset = -5 where it should add it.                                *)
(***************************************************************************)
OwnerOffset == -5
Held(s)     == -(5 + s)
IsOwned(o)  == location[o] \in OwnerOffset - MAXU .. OwnerOffset
Owner(o)    == IF IsOwned(o) THEN -location[o] - OwnerOffset ELSE -1

Weight(n) == weightOf[n]
Burden(n) == (RankStrength * Weight(n)) \div RankMaxWeight
Bit(b)       == IF b THEN 1 ELSE 0

\* What add_obj and rem_obj do to the avatar for an object in state n, lit or not.
Laden(a, n, lit) ==
    [a EXCEPT !.numobj = @ + 1, !.weight = @ + Weight(n),
              !.strength = @ - Burden(n), !.light = (@ + Bit(lit)) % Word]

Relieved(a, n, lit) ==
    [a EXCEPT !.numobj = @ - 1, !.weight = @ - Weight(n),
              !.strength = @ + Burden(n), !.light = (@ - Bit(lit)) % Word]

add_obj(av, s, n, lit) == [av EXCEPT ![s] = Laden(@, n, lit)]
rem_obj(av, s, n, lit) == [av EXCEPT ![s] = Relieved(@, n, lit)]

IsLit(o) == isLit[state[o]]

(***************************************************************************)
(* lighting: in a dark room, an avatar whose light went out or came on is  *)
(* seen to.  It then asks lit() about the room, which takes the critical   *)
(* section.                                                                *)
(***************************************************************************)
RoomDark(r, stray) == IF r \in Rooms THEN r \in Dark ELSE stray

Lights(a, stray) == /\ RoomDark(a.room, stray)
                    /\ a.light # a.hadlight
                    /\ a.light = 0 \/ a.hadlight = 0

lighting(av, s, stray) ==
    IF Lights(av[s], stray) THEN [av EXCEPT ![s].hadlight = av[s].light] ELSE av

-----------------------------------------------------------------------------
\* The player's thread obeys the next line of a verb: no action is under way.
\* Which lines come before it is the verb's own: no action below asks what a
\* condition, CHECKGET or CARRYING, has said.
Ready == online /\ dest = Nowhere /\ ~critical /\ ~wild

\* m_avatars is indexed beyond its end.
RunsWild(o) == /\ Owner(o) \notin Slots \cup {-1}
               /\ wild' = TRUE
               /\ UNCHANGED <<things, avatars, thread, visit>>

\* agive's look at the lights.  For an object without an owner, the test "was it
\* from here?" reads the room of avatar -1: near says whether that happens to
\* be where the object was.
GivenLight(av, own, near, stray) ==
    IF own = -1
      THEN IF near THEN av ELSE lighting(av, Player, FALSE)
      ELSE IF av[own].room = av[Player].room THEN av
           ELSE lighting(lighting(av, own, stray), Player, FALSE)

\* The books without the object.
Taken(o) == IF Owner(o) = -1 THEN avatars
            ELSE rem_obj(avatars, Owner(o), state[o], IsLit(o))

\* agive(o, t_slotId), wherever the object is.
Get(o) ==
    /\ Ready
    /\ \/ RunsWild(o)
       \/ /\ Owner(o) \in Slots \cup {-1}
          /\ \E near, stray \in BOOLEAN :
                LET given == add_obj(Taken(o), Player, state[o], IsLit(o))
                IN  avatars' = IF IsLit(o)
                                 THEN GivenLight(given, Owner(o), near, stray)
                                 ELSE given
          /\ location' = [location EXCEPT ![o] = Held(Player)]
          /\ UNCHANGED <<state, isLit, zonked, thread, visit, wild>>

\* adrop takes the object off the player's books whoever holds it, if anyone.
\* loseobj finds no owner of what already lies in the room.
Drop(o) ==
    /\ Ready
    /\ location' = [location EXCEPT ![o] = avatars[Player].room]
    /\ avatars' = lighting(rem_obj(avatars, Player, state[o], IsLit(o)),
                           Player, FALSE)
    /\ UNCHANGED <<state, isLit, zonked, thread, visit, wild>>

\* Mutant: rem_obj is forgotten.
LoseUnbooked(o, av, stray) == av

\* loseobj: what becomes of the avatars.  The object itself goes nowhere.
LoseObj(o, av, stray) ==
    IF Owner(o) = -1 THEN av
    ELSE lighting(rem_obj(av, Owner(o), state[o], IsLit(o)), Owner(o), stray)

\* Mutant: what loseobj took from its owner is not put down.
SendUnplaced(o, to) ==
    /\ Ready
    /\ Owner(o) \in Slots \cup {-1}
    /\ \E stray \in BOOLEAN : avatars' = LoseObj(o, avatars, stray)
    /\ location' = [location EXCEPT ![o] = IF Owner(o) = -1 THEN to ELSE Nowhere]
    /\ UNCHANGED <<state, isLit, zonked, thread, visit, wild>>

\* send.
Send(o, to) ==
    /\ Ready
    /\ \/ RunsWild(o)
       \/ /\ Owner(o) \in Slots \cup {-1}
          /\ \E stray \in BOOLEAN : avatars' = LoseObj(o, avatars, stray)
          /\ location' = [location EXCEPT ![o] = to]
          /\ UNCHANGED <<state, isLit, zonked, thread, visit, wild>>

\* adestroy holds the critical section.  If loseobj must look at a light, it
\* waits there for itself.
Destroy(o) ==
    /\ Ready
    /\ \/ RunsWild(o)
       \/ /\ Owner(o) \in Slots \cup {-1}
          /\ location' = [location EXCEPT ![o] = Nowhere]
          /\ \E stray \in BOOLEAN :
                LET own  == Owner(o)
                    lost == rem_obj(avatars, own, state[o], IsLit(o))
                IN  IF own # -1 /\ Lights(lost[own], stray)
                      THEN /\ critical' = TRUE
                           /\ avatars' = IF lost[own].light = 0
                                           THEN lighting(lost, own, stray)
                                           ELSE lost
                           /\ UNCHANGED zonked
                      ELSE /\ avatars' = LoseObj(o, avatars, stray)
                           /\ zonked' = zonked \cup {o}
                           /\ UNCHANGED critical
          /\ UNCHANGED <<state, isLit, dest, visit, wild>>

\* arecover, wherever the object is: nobody's books are looked at.
Recover(o) ==
    /\ Ready
    /\ avatars' = lighting([avatars EXCEPT ![Player].light =
                                (@ + Bit(IsLit(o))) % Word], Player, FALSE)
    /\ location' = [location EXCEPT ![o] = avatars[Player].room]
    /\ zonked' = zonked \ {o}
    /\ UNCHANGED <<state, isLit, thread, visit, wild>>

(***************************************************************************)
(* asetstate and osflag take the object from its owner, change it and give *)
(* it back - to the owner add_obj writes it for.                           *)
(***************************************************************************)
GiveBack(o) == location' = IF Owner(o) = -1 THEN location
                           ELSE [location EXCEPT ![o] = Held(Owner(o))]

Rebook(o, av, n, lit) ==
    IF Owner(o) = -1 THEN av
    ELSE add_obj(rem_obj(av, Owner(o), state[o], IsLit(o)), Owner(o), n, lit)

SetState(o, n) ==
    /\ Ready
    /\ \/ RunsWild(o)
       \/ /\ Owner(o) \in Slots \cup {-1}
          /\ state' = [state EXCEPT ![o] = n]
          /\ isLit' = IF o \in ShowFire
                        THEN [isLit EXCEPT ![n] = IsLit(o)] ELSE isLit
          /\ \E stray \in BOOLEAN :
                LET back == Rebook(o, avatars, n, isLit'[n])
                IN  avatars' = IF Owner(o) = -1 \/ o \in ShowFire THEN back
                               ELSE lighting(back, Owner(o), stray)
          /\ GiveBack(o)
          /\ UNCHANGED <<zonked, thread, visit, wild>>

\* ABURN and ADOUSE.
osflag(o, lit) ==
    /\ Ready
    /\ \/ RunsWild(o)
       \/ /\ Owner(o) \in Slots \cup {-1}
          /\ isLit' = [isLit EXCEPT ![state[o]] = lit]
          /\ \E stray \in BOOLEAN :
                avatars' = IF Owner(o) = -1 THEN avatars
                           ELSE lighting(Rebook(o, avatars, state[o], lit),
                                         Owner(o), stray)
          /\ GiveBack(o)
          /\ UNCHANGED <<state, zonked, thread, visit, wild>>

-----------------------------------------------------------------------------
\* The player's light on the way from his room to room r.
Walk(r) ==
    LET dimmed  == lighting([avatars EXCEPT ![Player].light = 0], Player, FALSE)
        arrived == [dimmed EXCEPT ![Player].room = r, ![Player].hadlight = 0,
                                  ![Player].light = avatars[Player].light]
    IN  lighting(arrived, Player, FALSE)

\* MovePlayerTo.
Move(r) == /\ Ready
           /\ avatars' = Walk(r)
           /\ UNCHANGED <<things, thread, visit, wild>>

\* ActionGoToRoom, up to "As of now I'm out of here"; a small room that
\* somebody is in is refused.
SetOff(r) == /\ Ready
             /\ ~(r \in Small /\ \E s \in Slots : avatars[s].room = r)
             /\ dest' = r
             /\ critical' = TRUE
             /\ UNCHANGED <<things, avatars, visit, wild>>

\* isVisible() asks lit(), which wants the critical section if it is dark.
MayAskLit == avatars[Player].room \in Dark => ~critical

Arrive == /\ dest # Nowhere
          /\ MayAskLit
          /\ avatars' = Walk(dest)
          /\ dest' = Nowhere
          /\ critical' = FALSE
          /\ UNCHANGED <<things, visit, wild>>

-----------------------------------------------------------------------------
\* The end of PlayerLogin, in the player's slot.
Login(r) == /\ ~online /\ ~wild
            /\ logins < MaxLogins
            /\ logins' = logins + 1
            /\ online' = TRUE
            /\ avatars' = [avatars EXCEPT ![Player].numobj = 0,
                                          ![Player].weight = 0,
                                          ![Player].light = 0,
                                          ![Player].hadlight = 0,
                                          ![Player].room = r]
            /\ UNCHANGED <<things, thread, wild>>

\* Mutant: the slot is taken back while the thread is still under way.
LeaveUnderWay == /\ online /\ ~wild
                 /\ online' = FALSE
                 /\ avatars' = [avatars EXCEPT ![Player].room = Nowhere]
                 /\ UNCHANGED <<things, thread, logins, wild>>

\* The player quits or dies (akillme), and the server takes the slot back.
Leave == /\ Ready
         /\ online' = FALSE
         /\ avatars' = [avatars EXCEPT ![Player].room = Nowhere]
         /\ UNCHANGED <<things, thread, logins, wild>>

-----------------------------------------------------------------------------
\* What the avatars together have in hand.
InHand(field) == avatars[Player][field] + avatars[Idle][field]

\* The sum of a measure over the objects somebody owns.
Owned(measure) == SumFunctionOnSet(measure, {o \in Objs : IsOwned(o)})

One      == [o \in Objs |-> 1]
WeightOf == [o \in Objs |-> Weight(state[o])]
BurdenOf == [o \in Objs |-> Burden(state[o])]
LightOf  == [o \in Objs |-> Bit(IsLit(o))]

(***************************************************************************)
(* The bounds on what the model counts.  They are asked of the state       *)
(* before a step: a state beyond them is still reached and looked at, but  *)
(* nothing more happens in it.  MaxWrong bounds the objects and the weight *)
(* by which the books are wrong; only the player's light may wrap.         *)
(***************************************************************************)
Small16(n) == n \in 0 .. MaxCount \/ n \in Word - MaxCount .. Word - 1

Bounded ==
    /\ \A s \in Slots :
          /\ avatars[s].numobj \in -MaxCount .. MaxCount
          /\ avatars[s].weight \in -MaxCount .. MaxCount
          /\ avatars[s].strength \in
                -2 * MaxCount * RankStrength .. 2 * MaxCount * RankStrength
    /\ Small16(avatars[Player].light)
    /\ avatars[Idle].light \in 0 .. MaxCount
    /\ Cardinality(zonked) <= MaxCount
    /\ InHand("numobj") - Owned(One) \in -MaxWrong .. MaxWrong
    /\ InHand("weight") - Owned(WeightOf) \in -MaxWrong .. MaxWrong

Act(o) == \/ Get(o) \/ Drop(o) \/ Destroy(o) \/ Recover(o)
          \/ \E r \in Rooms : Send(o, r)
          \/ \E n \in States(o) : SetState(o, n)
          \/ \E b \in BOOLEAN : osflag(o, b)

Go == Arrive \/ \E r \in Rooms : Move(r) \/ SetOff(r)

Come == Leave \/ \E r \in Rooms : Login(r)

Next == Bounded /\ ((\E o \in Objs : Act(o)) \/ Go \/ Come)

Spec == Init /\ [][Next]_vars

\* The player's thread runs on.
LiveSpec == Spec /\ WF_vars(Arrive)

-----------------------------------------------------------------------------
Avatar == [numobj   : Int, weight : Int, strength : Int,
           light    : 0 .. Word - 1, hadlight : 0 .. Word - 1,
           room     : Rooms \cup {Nowhere}]

\* Every location is a room, nowhere, or one of the two marks add_obj leaves;
\* while nobody plays, no thread is under way.
TypeOK == /\ location \in [Objs -> Rooms \cup {Nowhere, Held(Player), Held(Idle)}]
          /\ \A o \in Objs : state[o] \in States(o)
          /\ isLit \in [Shared -> BOOLEAN]
          /\ zonked \subseteq Objs
          /\ avatars \in [Slots -> Avatar]
          /\ dest \in Rooms \cup {Nowhere}
          /\ critical \in BOOLEAN /\ online \in BOOLEAN /\ wild \in BOOLEAN
          /\ logins \in 0 .. MaxLogins
          /\ ~online => dest = Nowhere /\ ~critical

\* A step changes the objects, weight and strength booked by exactly what it
\* takes from or puts into hands.
LoadBooked ==
    /\ InHand("numobj")' - InHand("numobj") = Owned(One)' - Owned(One)
    /\ InHand("weight")' - InHand("weight") = Owned(WeightOf)' - Owned(WeightOf)
    /\ InHand("strength")' - InHand("strength") = Owned(BurdenOf) - Owned(BurdenOf)'

LightBooked == (InHand("light")' - InHand("light")
                  - Owned(LightOf)' + Owned(LightOf)) % Word = 0

\* The two steps that take no notice of who holds the object.
DropsUnheld   == \E o \in Objs : Drop(o) /\ ~IsOwned(o)
RecoversHeld  == \E o \in Objs : Recover(o) /\ IsOwned(o)
RecoversLoose == \E o \in Objs : Recover(o) /\ ~IsOwned(o)

(***************************************************************************)
(* The avatars' books follow the objects through every step but two:       *)
(* agive, loseobj (in send and adestroy), asetstate and osflag, which take *)
(* an object from one avatar and give it to another or to none, and adrop  *)
(* of what is held, book what changes hands and nothing else.  The two are *)
(* adrop of what nobody holds, which takes an object off the books that is *)
(* not on them, and arecover of what somebody holds, which leaves it on    *)
(* them.  For light, arecover is an exception wherever the object was: it  *)
(* books light for what lies on the floor; and a flag changed for one      *)
(* object lights or douses all those in its state.  Only a login starts    *)
(* new books.                                                              *)
(***************************************************************************)
HandsBooked ==
    [][logins' = logins =>
         \/ LoadBooked /\ (LightBooked \/ RecoversLoose \/ isLit' # isLit)
         \/ DropsUnheld
         \/ RecoversHeld]_vars

\* An object is out of the game only if adestroy has marked it, and can then be
\* recovered: no hand-over, drop or send leaves one nowhere (loseobj puts it
\* there first).
NothingIsLost == \A o \in Objs : location[o] = Nowhere /\ ~critical => o \in zonked

\* What add_obj says of the object it books (amul.wholeoriginal.cpp:564): "It
\* now belongs to the player".
TakerOwns == [][\A o \in Objs : Get(o) => Owner(o)' = Player]_vars

\* Who sets off arrives, as ActionGoToRoom says when it marks the player
\* (amul.wholeoriginal.cpp:3326): "As of now I'm out of here."
WhoSetsOffArrives == dest # Nowhere ~> dest = Nowhere
=============================================================================
