------------------------------- MODULE Futex -------------------------------
(* The kernel's wait queues as src/src/threading/Futex.rs uses them.         *)
(* A futex has no state of its own: it compares a word of the program and    *)
(* keeps the set of threads asleep on its address.  Each client module keeps *)
(* its word as a variable and its sleepers as a program-counter value; the   *)
(* operators here say which sets of sleepers one wake call may release.      *)
(* linux_impl maps EINTR and EAGAIN to Ok, so a sleeper may also come back   *)
(* with no wake at all: the clients have a spurious-return action for that.  *)
EXTENDS Naturals, FiniteSets

(* Futex::wake(ptr, 1): one sleeper, if there is one; the kernel chooses.    *)
WakeOne(sleepers) == IF sleepers = {} THEN {{}} ELSE {{t} : t \in sleepers}

(* Futex::wake(ptr, n): n sleepers, or all of them when they are fewer.      *)
WakeUpTo(sleepers, n) ==
    {W \in SUBSET sleepers :
        Cardinality(W) = IF Cardinality(sleepers) < n THEN Cardinality(sleepers) ELSE n}
=============================================================================
