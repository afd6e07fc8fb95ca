------------------------------- MODULE Modules -------------------------------
(***************************************************************************)
(* The registry of modules (modules.cpp): a doubly linked list to which    *)
(* modules are appended, which is walked forwards to start them and        *)
(* backwards to close them, each of them taken off the list as it closes.  *)
(* A registry m keeps head, tail, next, prev, the freed nodes, and the     *)
(* modules in the order in which their close handlers ran.                 *)
(***************************************************************************)
EXTENDS Sequences, SequencesExt, TLC

ModuleIDs == {"logging", "cmdline", "strings", "compiler"}
Null == "null"

NoModules ==
  [head |-> Null, tail |-> Null, next |-> [id \in ModuleIDs |-> Null],
   prev |-> [id \in ModuleIDs |-> Null], freed |-> {}, closed |-> <<>>]

\* A path through the list, and one link further.
Follow(path, links) == IF Last(path) = Null THEN path ELSE Append(path, links[Last(path)])

\* The modules from start on, following the links given: there are no more than four.
Walk(start, links) == Follow(Follow(Follow(Follow(<<start>>, links), links), links), links)

GetModule(m, id) == id \in ToSet(Walk(m.head, m.next)) \ {Null}

\* A module that is there already is not registered again.
NewModule(m, id) ==
  IF GetModule(m, id) THEN m
  ELSE [m EXCEPT !.prev[id] = m.tail, !.tail = id, !.head = IF @ = Null THEN id ELSE @,
                 !.next = IF m.tail = Null THEN [@ EXCEPT ![id] = Null]
                          ELSE [@ EXCEPT ![id] = Null, ![m.tail] = id]]

\* Mutant: the module before still points at the one that is gone.
UnlinkedBackwards(m, id) ==
  [m EXCEPT !.prev = IF m.next[id] = Null THEN @ ELSE [@ EXCEPT ![m.next[id]] = m.prev[id]],
            !.head = IF @ = id THEN m.next[id] ELSE @,
            !.tail = IF @ = id THEN m.prev[id] ELSE @]

\* The links around a module are joined.
Unlinked(m, id) ==
  [m EXCEPT !.next = IF m.prev[id] = Null THEN @ ELSE [@ EXCEPT ![m.prev[id]] = m.next[id]],
            !.prev = IF m.next[id] = Null THEN @ ELSE [@ EXCEPT ![m.next[id]] = m.prev[id]],
            !.head = IF @ = id THEN m.next[id] ELSE @,
            !.tail = IF @ = id THEN m.prev[id] ELSE @]

CloseModule(m, id) ==
  IF ~GetModule(m, id) THEN m
  ELSE [Unlinked(m, id) EXCEPT !.freed = @ \cup {id}, !.closed = Append(@, id)]
=============================================================================
