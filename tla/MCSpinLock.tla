----------------------------- MODULE MCSpinLock -----------------------------
(***************************************************************************)
(* Three threads on one lock, with a burst of two attempts instead of 64:  *)
(* both loops of Lock() are entered and left.  The mutants are plausible   *)
(* slips in spinlock.h and spinlock.cpp.                                   *)
(***************************************************************************)
EXTENDS SpinLock
=============================================================================
