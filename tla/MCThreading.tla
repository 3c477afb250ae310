---------------------------- MODULE MCThreading ----------------------------
(* Mutex, WaitGroup and UnboundedQueue, which do not use each other: one of *)
(* them is used and the others are at rest, the mutex free, the queue empty *)
(* and the group freed by its owner.                                        *)
EXTENDS Mutex, WaitGroup, UnboundedQueue

VARIABLE used    \* the component that is used

threadingVars == <<mutexVars, groupVars, vars, used>>

GroupOver ==
    /\ C!Init /\ rawCount = 0
    /\ at = [t \in Members |-> IF t = Waiter THEN "freed" ELSE "done"]

ThreadingInit ==
    /\ MutexInit /\ Init
    /\ \/ GroupInit /\ used = "group"
       \/ GroupOver /\ used \in {"mutex", "queue"}

(* The only end there is: the group is freed. *)
GroupEnds == at[Waiter] = "freed" /\ UNCHANGED groupVars

ThreadingNext ==
    /\ \/ used = "mutex" /\ MutexNext /\ UNCHANGED <<groupVars, vars>>
       \/ used = "group" /\ (GroupNext \/ GroupEnds) /\ UNCHANGED <<mutexVars, vars>>
       \/ used = "queue" /\ Next /\ UNCHANGED <<mutexVars, groupVars>>
    /\ UNCHANGED used

ThreadingSpec ==
    /\ ThreadingInit /\ [][ThreadingNext]_threadingVars
    /\ MutexFairness /\ GroupFairness
    /\ used = "queue" => QueueFairness
=============================================================================
