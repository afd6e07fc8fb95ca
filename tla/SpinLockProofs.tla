--------------------------- MODULE SpinLockProofs ---------------------------
(***************************************************************************)
(* Proofs about SpinLock, for any set of threads and any burst length.     *)
(* The three invariants the run checks are inductive together with one     *)
(* more: FlagMatchesHolder makes a successful exchange safe, Mutual-       *)
(* Exclusion makes Release safe, and SpinsOutside says that a spinning     *)
(* thread is not inside.                                                   *)
(***************************************************************************)
EXTENDS SpinLock, TLAPS

SpinsOutside == \A t \in Threads : pc[t] \in {"burst", "yield"} => ~m_held[t]

IInv == TypeOK /\ MutualExclusion /\ FlagMatchesHolder /\ SpinsOutside

LEMMA InitIInv == Init => IInv
<1> SUFFICES ASSUME Init
             PROVE  IInv
  OBVIOUS
<1>1. TypeOK
  <2>1. 0 \in 0 .. SpinTries - 1
    BY SpinTriesAssumption
  <2> QED BY <2>1 DEF Init, TypeOK, Points
<1>2. \A t \in Threads : ~Inner(t) /\ ~m_held[t]
  BY DEF Init, Inner
<1>3. ~m_lock
  BY DEF Init
<1> QED BY <1>1, <1>2, <1>3 DEF IInv, MutualExclusion, FlagMatchesHolder,
                                SpinsOutside

(***************************************************************************)
(* A step of thread t changes nobody else's state, so what it does to the  *)
(* invariants depends on whether t itself is inside before and after.      *)
(***************************************************************************)
LEMMA OnlyOneMoves ==
  ASSUME TypeOK, NEW t \in Threads, Acquire(t) \/ Release(t) \/ Inside(t)
  PROVE  /\ TypeOK'
         /\ \A u \in Threads \ {t} : pc'[u] = pc[u] /\ m_held'[u] = m_held[u]
<1> USE SpinTriesAssumption DEF TypeOK, Points, Goto
<1>1. CASE Acquire(t)
  BY <1>1 DEF Acquire
<1>2. CASE Release(t)
  BY <1>2 DEF Release
<1>3. CASE TrySucceeds(t)
  BY <1>3 DEF TrySucceeds
<1>4. CASE TryFails(t)
  <2>1. CASE tries[t] < SpinTries - 1 /\ Goto(t, "burst", "burst")
    BY <1>4, <2>1 DEF TryFails
  <2>2. CASE tries[t] = SpinTries - 1 /\ Goto(t, "burst", "yield")
    BY <1>4, <2>2 DEF TryFails
  <2> QED BY <1>4, <2>1, <2>2 DEF TryFails
<1>5. CASE MarkHeld(t)
  BY <1>5 DEF MarkHeld
<1>6. CASE MarkReleased(t)
  BY <1>6 DEF MarkReleased
<1> QED BY <1>1, <1>2, <1>3, <1>4, <1>5, <1>6 DEF Inside

\* What a step does to the mutex: t enters, t leaves, or nothing changes.
Enters(t) == ~m_lock /\ m_lock' /\ Inner(t)'
Leaves(t) == Inner(t) /\ ~m_lock' /\ ~Inner(t)'
Stays(t)  == m_lock' = m_lock /\ (Inner(t)' <=> Inner(t))

LEMMA StepKinds ==
  ASSUME TypeOK, SpinsOutside, NEW t \in Threads,
         Acquire(t) \/ Release(t) \/ Inside(t)
  PROVE  /\ Enters(t) \/ Leaves(t) \/ Stays(t)
         /\ pc'[t] \in {"burst", "yield"} => ~m_held'[t]
<1> USE DEF TypeOK, SpinsOutside, Goto, Inner, Enters, Leaves, Stays
<1>1. CASE Acquire(t)
  BY <1>1 DEF Acquire
<1>2. CASE Release(t)
  BY <1>2 DEF Release
<1>3. CASE TrySucceeds(t)
  BY <1>3 DEF TrySucceeds
<1>4. CASE TryFails(t)
  BY <1>4 DEF TryFails
<1>5. CASE MarkHeld(t)
  BY <1>5 DEF MarkHeld
<1>6. CASE MarkReleased(t)
  BY <1>6 DEF MarkReleased
<1> QED BY <1>1, <1>2, <1>3, <1>4, <1>5, <1>6 DEF Inside

LEMMA NextIInv == IInv /\ [Next]_vars => IInv'
<1> SUFFICES ASSUME IInv, [Next]_vars
             PROVE  IInv'
  OBVIOUS
<1>1. CASE UNCHANGED vars
  BY <1>1 DEF vars, IInv, TypeOK, MutualExclusion, FlagMatchesHolder,
              SpinsOutside, Inner
<1>2. ASSUME NEW t \in Threads, Acquire(t) \/ Release(t) \/ Inside(t)
      PROVE  IInv'
  <2>1. /\ TypeOK'
        /\ \A u \in Threads \ {t} : pc'[u] = pc[u] /\ m_held'[u] = m_held[u]
    BY <1>2, OnlyOneMoves DEF IInv
  <2>2. /\ Enters(t) \/ Leaves(t) \/ Stays(t)
        /\ pc'[t] \in {"burst", "yield"} => ~m_held'[t]
    BY <1>2, StepKinds DEF IInv
  <2>3. \A u \in Threads \ {t} : Inner(u)' <=> Inner(u)
    BY <2>1 DEF Inner
  <2>4. MutualExclusion' /\ FlagMatchesHolder'
    <3>1. CASE Enters(t)
      BY <2>3, <3>1 DEF IInv, MutualExclusion, FlagMatchesHolder, Enters
    <3>2. CASE Leaves(t)
      BY <2>3, <3>2 DEF IInv, MutualExclusion, FlagMatchesHolder, Leaves
    <3>3. CASE Stays(t)
      BY <2>3, <3>3 DEF IInv, MutualExclusion, FlagMatchesHolder, Stays
    <3> QED BY <2>2, <3>1, <3>2, <3>3
  <2>5. SpinsOutside'
    BY <2>1, <2>2 DEF IInv, SpinsOutside
  <2> QED BY <2>1, <2>4, <2>5 DEF IInv
<1> QED BY <1>1, <1>2 DEF Next

LEMMA SpecIInv == Spec => []IInv
  BY InitIInv, NextIInv, PTL DEF Spec

(***************************************************************************)
(* Every reachable state is well typed: in particular the loop counter of  *)
(* Lock() stays below the length of the burst.                             *)
(***************************************************************************)
THEOREM TypeCorrect == Spec => []TypeOK
  BY SpecIInv, PTL DEF IInv

(***************************************************************************)
(* SpinGuard's late writes of m_held never let two threads inside.         *)
(***************************************************************************)
THEOREM AtMostOneInside == Spec => []MutualExclusion
  BY SpecIInv, PTL DEF IInv

(***************************************************************************)
(* No Release is lost, none frees the lock under another guard.            *)
(***************************************************************************)
THEOREM FlagIsExact == Spec => []FlagMatchesHolder
  BY SpecIInv, PTL DEF IInv

-----------------------------------------------------------------------------
LEMMA HolderIsInside ==
  ASSUME MutualExclusion, NEW t \in Threads, Inner(t)
  PROVE  Holder = t
  BY DEF MutualExclusion, Holder

LEMMA NobodyInside ==
  ASSUME \A t \in Threads : ~Inner(t)
  PROVE  Holder = NoThread
  BY DEF Holder

LEMMA StepRefines ==
  ASSUME IInv, IInv', NEW t \in Threads,
         Acquire(t) \/ Release(t) \/ Inside(t)
  PROVE  [M!Next]_Holder
<1>1. \A u \in Threads \ {t} : Inner(u)' <=> Inner(u)
  BY OnlyOneMoves DEF IInv, Inner
<1>2. Enters(t) \/ Leaves(t) \/ Stays(t)
  BY StepKinds DEF IInv
<1>3. CASE Enters(t)
  <2>1. Holder = NoThread
    BY <1>3, NobodyInside DEF Enters, IInv, FlagMatchesHolder
  <2>2. Holder' = t
    BY <1>3 DEF Enters, IInv, MutualExclusion, Holder
  <2> QED BY <2>1, <2>2 DEF M!Next, M!Lock
<1>4. CASE Leaves(t)
  <2>1. Holder = t
    BY <1>4, HolderIsInside DEF Leaves, IInv
  <2>2. Holder' = NoThread
    BY <1>4 DEF Leaves, IInv, FlagMatchesHolder, Holder
  <2> QED BY <2>1, <2>2 DEF M!Next, M!Unlock
<1>5. CASE Stays(t)
  <2>1. \A u \in Threads : Inner(u)' <=> Inner(u)
    BY <1>1, <1>5 DEF Stays
  <2>2. CASE \E u \in Threads : Inner(u)
    BY <2>1, <2>2 DEF IInv, MutualExclusion, Holder
  <2>3. CASE ~ \E u \in Threads : Inner(u)
    BY <2>1, <2>3 DEF Holder
  <2> QED BY <2>2, <2>3
<1> QED BY <1>2, <1>3, <1>4, <1>5

(***************************************************************************)
(* The spinning lock, with its burst, its yields and its guards, does      *)
(* nothing the abstract mutex does not allow.                              *)
(***************************************************************************)
THEOREM SpinLockIsAMutex == Spec => ImplementsMutex
<1>1. Init => M!Init
  BY NobodyInside DEF Init, Inner, M!Init
<1>2. IInv /\ IInv' /\ [Next]_vars => [M!Next]_Holder
  <2> SUFFICES ASSUME IInv, IInv', [Next]_vars
               PROVE  [M!Next]_Holder
    OBVIOUS
  <2>1. CASE UNCHANGED vars
    BY <2>1 DEF vars, Holder, Inner
  <2>2. CASE Next
    BY <2>2, StepRefines DEF Next
  <2> QED BY <2>1, <2>2
<1> QED BY <1>1, <1>2, SpecIInv, PTL DEF Spec, ImplementsMutex, M!Spec
=============================================================================
