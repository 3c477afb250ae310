-------------------------------- MODULE Lock --------------------------------
(* What a mutex promises its callers: at any moment at most one owner, the   *)
(* lock goes only to a thread that asked for it, only its owner gives it up, *)
(* and it does not stay free while somebody asks for it.                     *)
CONSTANTS Threads, NoThread

VARIABLES owner,     \* the thread that holds the lock, or NoThread
          waiting    \* the threads inside a blocking lock() call

vars == <<owner, waiting>>

LockInit == owner = NoThread /\ waiting = {}

(* A thread enters lock(). *)
Request(t) ==
    /\ t \notin waiting
    /\ owner # t
    /\ waiting' = waiting \cup {t}
    /\ UNCHANGED owner

(* Its lock() takes the free lock. *)
Acquire(t) ==
    /\ t \in waiting
    /\ owner = NoThread
    /\ owner' = t
    /\ waiting' = waiting \ {t}

(* A try_lock() that succeeds (one that fails changes nothing). *)
TryAcquire(t) ==
    /\ t \notin waiting
    /\ owner = NoThread
    /\ owner' = t
    /\ UNCHANGED waiting

Release(t) ==
    /\ owner = t
    /\ owner' = NoThread
    /\ UNCHANGED waiting

LockNext == \E t \in Threads : Request(t) \/ Acquire(t) \/ TryAcquire(t) \/ Release(t)

LockSafety == LockInit /\ [][LockNext]_vars

(* A lock that is free while threads wait for it is taken, by one of them or
   by a thread that barges in: the lock is not fair and a thread may starve. *)
TakenWhenAwaited ==
    waiting # {} /\ \E t \in Threads : Acquire(t) \/ TryAcquire(t)

LockSpec == LockSafety /\ WF_vars(TakenWhenAwaited)
=============================================================================
