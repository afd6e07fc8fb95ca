------------------------------- MODULE Mutex -------------------------------
(***************************************************************************)
(* What SpinLock promises its callers: at any time at most one thread is   *)
(* inside the lock, and a free lock can be taken by any thread.  SpinLock  *)
(* implements this specification; MsgPort assumes it of every lock it      *)
(* takes.                                                                  *)
(***************************************************************************)
CONSTANTS Threads,  \* the threads that may call Lock
          NoThread  \* the holder of a free lock

VARIABLE holder

Init == holder = NoThread

Lock(t) == /\ holder = NoThread
           /\ holder' = t

Unlock(t) == /\ holder = t
             /\ holder' = NoThread

Next == \E t \in Threads : Lock(t) \/ Unlock(t)

Spec == Init /\ [][Next]_holder
=============================================================================
