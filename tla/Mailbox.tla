------------------------------ MODULE Mailbox ------------------------------
(***************************************************************************)
(* What the message ports promise the rest of the program: a directory of  *)
(* named mailboxes in which every operation is one indivisible step.  A    *)
(* mailbox keeps what was sent to it while it was open, in order; a        *)
(* message is delivered to one receiver, once.  MsgPort implements this    *)
(* specification; Session is written against it.                           *)
(***************************************************************************)
EXTENDS Naturals, Sequences

CONSTANTS Threads, Ports, Names, Messages,
          NoPort,  \* no mailbox
          NoMsg    \* no message

VARIABLES state,  \* of each mailbox: "unmade", "open" or "closed"
          table,  \* the mailbox registered under each name
          anon,   \* the registered mailboxes that have no name
          box,    \* what is waiting in each mailbox, oldest first
          hand    \* the message each thread has taken and still owns

vars == <<state, table, anon, box, hand>>

Init == /\ state = [p \in Ports |-> "unmade"]
        /\ table = [n \in Names |-> NoPort]
        /\ anon = {}
        /\ box = [p \in Ports |-> <<>>]
        /\ hand = [t \in Threads |-> NoMsg]

\* A new mailbox opens in the same step as it becomes known by its name.
Open(p) == /\ state[p] = "unmade"
           /\ state' = [state EXCEPT ![p] = "open"]
           /\ \/ /\ \E n \in Names : /\ table[n] = NoPort
                                     /\ table' = [table EXCEPT ![n] = p]
                 /\ anon' = anon
              \/ /\ anon' = anon \cup {p}
                 /\ table' = table
           /\ UNCHANGED <<box, hand>>

Shut(p) == /\ state[p] = "open"
           /\ state' = [state EXCEPT ![p] = "closed"]
           /\ UNCHANGED <<table, anon, box, hand>>

\* Only a closed mailbox ever leaves the directory.
Forget(p) == /\ state[p] = "closed"
             /\ \/ /\ \E n \in Names : /\ table[n] = p
                                       /\ table' = [table EXCEPT ![n] = NoPort]
                   /\ anon' = anon
                \/ /\ p \in anon
                   /\ anon' = anon \ {p}
                   /\ table' = table
             /\ UNCHANGED <<state, box, hand>>

Waiting(m) == \E p \in Ports : \E i \in 1 .. Len(box[p]) : box[p][i] = m

Send(p, m) == /\ state[p] = "open"
              /\ ~Waiting(m)
              /\ \A t \in Threads : hand[t] # m
              /\ box' = [box EXCEPT ![p] = Append(@, m)]
              /\ UNCHANGED <<state, table, anon, hand>>

Take(t, p) == /\ box[p] # <<>>
              /\ hand[t] = NoMsg
              /\ hand' = [hand EXCEPT ![t] = Head(box[p])]
              /\ box' = [box EXCEPT ![p] = Tail(@)]
              /\ UNCHANGED <<state, table, anon>>

\* The owner destroys the message, or moves it on to be sent again.
GiveUp(t) == /\ hand[t] # NoMsg
             /\ hand' = [hand EXCEPT ![t] = NoMsg]
             /\ UNCHANGED <<state, table, anon, box>>

Discard(p) == /\ box[p] # <<>>
              /\ box' = [box EXCEPT ![p] = <<>>]
              /\ UNCHANGED <<state, table, anon, hand>>

Next == \/ \E p \in Ports : Open(p) \/ Shut(p) \/ Forget(p) \/ Discard(p)
        \/ \E p \in Ports, m \in Messages : Send(p, m)
        \/ \E t \in Threads, p \in Ports : Take(t, p)
        \/ \E t \in Threads : GiveUp(t)

Spec == Init /\ [][Next]_vars
=============================================================================
