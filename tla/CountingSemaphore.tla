------------------------ MODULE CountingSemaphore ------------------------
(* What a semaphore promises: wait() takes one permit and blocks while there *)
(* is none, post() adds one, and a permit does not lie unused while threads  *)
(* wait for one.                                                             *)
EXTENDS Naturals

CONSTANTS Threads

VARIABLES permits,    \* the permits posted and not yet taken
          blocked     \* the threads inside wait()

vars == <<permits, blocked>>

SemInit == permits = 0 /\ blocked = {}

Enter(t) == t \notin blocked /\ blocked' = blocked \cup {t} /\ UNCHANGED permits

Take(t) ==
    /\ t \in blocked
    /\ permits > 0
    /\ permits' = permits - 1
    /\ blocked' = blocked \ {t}

Post == permits' = permits + 1 /\ UNCHANGED blocked

SemNext == Post \/ \E t \in Threads : Enter(t) \/ Take(t)

SemSafety == SemInit /\ [][SemNext]_vars

SemSpec == SemSafety /\ WF_vars(\E t \in Threads : Take(t))
=============================================================================
