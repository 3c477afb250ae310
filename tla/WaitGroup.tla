----------------------------- MODULE WaitGroup -----------------------------
(* src/src/threading/WaitGroup.rs over the mutex and condition variable of   *)
(* module Condition.  One thread owns the group: it counts and schedules     *)
(* tasks while earlier ones run and end, then waits, and then frees the      *)
(* group.  Every other thread is a task that ends with finish_raw.           *)
EXTENDS Naturals, FiniteSets

CONSTANTS Tasks, Waiter, Nobody,
          Started     \* the tasks counted by init_with_count; the owner adds others

ASSUME WaitGroupAssumption ==
    /\ IsFiniteSet(Tasks)
    /\ Waiter \notin Tasks /\ Nobody \notin Tasks \cup {Waiter}
    /\ Started \subseteq Tasks

VARIABLES rawCount,   \* WaitGroup.raw_count
          at,         \* where each task is in finish_raw, and the owner in push or wait
          owner, waiters, signals, fresh, toWake, cv

condVars == <<owner, waiters, signals, fresh, toWake, cv>>
groupVars == <<rawCount, at, condVars>>

Members == Tasks \cup {Waiter}

C == INSTANCE Condition WITH Threads <- Members, NoThread <- Nobody, Timed <- {}

(* A task inside finish_raw, before its last access to the group. *)
Finishing == {"finish", "last", "signal", "unlock"}

GroupTypeOK ==
    /\ C!TypeOK
    /\ rawCount \in 0..Cardinality(Tasks)
    /\ at \in [Members -> {"unborn", "counted", "run", "done", "push", "wait", "freed"} \cup Finishing]

GroupInit ==
    /\ C!Init
    /\ rawCount = Cardinality(Started)
    /\ at = [t \in Members |->
               IF t = Waiter THEN "push" ELSE IF t \in Started THEN "run" ELSE "unborn"]

At(t, label) == at' = [at EXCEPT ![t] = label]

-----------------------------------------------------------------------------
(* Plausible slips. *)

(* A finisher that saw nobody else stores the zero it expects. *)
SlipStoreZero(t) ==
    /\ at[t] = "last" /\ cv[t] = "in"
    /\ rawCount' = 0
    /\ At(t, "signal")
    /\ UNCHANGED condVars

(* finish decrements without the lock whatever the count is. *)
SlipFinishFast(t) ==
    /\ at[t] = "finish"
    /\ rawCount > 0
    /\ rawCount' = rawCount - 1
    /\ At(t, "done")
    /\ UNCHANGED condVars

-----------------------------------------------------------------------------
(* The owner pushes tasks, one after the other, and then waits. *)

(* add_one, before the task is given to the pool *)
AddOne(t) ==
    /\ at[Waiter] = "push" /\ \A u \in Tasks : at[u] # "counted"
    /\ at[t] = "unborn"
    /\ rawCount' = rawCount + 1
    /\ At(t, "counted")
    /\ UNCHANGED condVars

(* thread_pool.schedule *)
ScheduleTask(t) ==
    /\ at[t] = "counted"
    /\ At(t, "run")
    /\ UNCHANGED <<rawCount, condVars>>

(* wait() is called when every push has returned. *)
WaitBegins ==
    /\ at[Waiter] = "push" /\ \A u \in Tasks : at[u] # "counted"
    /\ At(Waiter, "wait")
    /\ UNCHANGED <<rawCount, condVars>>

-----------------------------------------------------------------------------
(* Tasks *)

(* The task is over and calls finish_raw. *)
FinishCall(t) == at[t] = "run" /\ At(t, "finish") /\ UNCHANGED <<rawCount, condVars>>

(* Fast path: the exchange that takes one off a count above one. *)
FinishFast(t) ==
    /\ at[t] = "finish"
    /\ rawCount > 1
    /\ rawCount' = rawCount - 1
    /\ At(t, "done")
    /\ UNCHANGED condVars

(* The count was read as one or less: go for the mutex. *)
FinishSlow(t) ==
    /\ at[t] = "finish"
    /\ rawCount <= 1
    /\ At(t, "last")
    /\ UNCHANGED <<rawCount, condVars>>

LockMutex(t) == at[t] \in {"last", "wait"} /\ C!Lock(t) /\ UNCHANGED <<rawCount, at>>

(* raw_count.fetch_sub(1) under the mutex *)
FinishLast(t) ==
    /\ at[t] = "last" /\ cv[t] = "in"
    /\ rawCount' = rawCount - 1
    /\ At(t, "signal")
    /\ UNCHANGED condVars

(* cond.signal() *)
FinishSignal(t) ==
    /\ at[t] = "signal" /\ cv[t] \in {"in", "out"}
    /\ C!PostSignals(t, FALSE) \/ (waiters = signals /\ UNCHANGED condVars)
    /\ At(t, "unlock")
    /\ UNCHANGED rawCount

(* Mutex::unlock_raw: the last access; the wake that may follow it names the
   mutex by its address only. *)
FinishUnlock(t) ==
    /\ at[t] = "unlock"
    /\ C!Unlock(t)
    /\ At(t, "done")
    /\ UNCHANGED rawCount

-----------------------------------------------------------------------------
(* wait() *)

(* while raw_count > 0 { cond.wait } *)
Block ==
    /\ at[Waiter] = "wait" /\ rawCount > 0
    /\ C!WaitCall(Waiter)
    /\ UNCHANGED <<rawCount, at>>

(* The unlock that ends wait; the owner then frees the group. *)
FreeGroup ==
    /\ at[Waiter] = "wait" /\ rawCount = 0
    /\ C!Unlock(Waiter)
    /\ At(Waiter, "freed")
    /\ UNCHANGED rawCount

-----------------------------------------------------------------------------
InCondition(t) == (C!WaitStep(t) \/ C!WakeStep(t)) /\ UNCHANGED <<rawCount, at>>

WaiterSpuriousReturn == C!SpuriousReturn(Waiter) /\ UNCHANGED <<rawCount, at>>

Acquire ==
    \/ \E t \in Members : LockMutex(t)
    \/ C!Relock(Waiter) /\ UNCHANGED <<rawCount, at>>

OwnerGoesOn == WaitBegins \/ \E t \in Tasks : AddOne(t) \/ ScheduleTask(t)

TaskStep(t) ==
    FinishCall(t) \/ FinishFast(t) \/ FinishSlow(t) \/ FinishLast(t) \/ FinishSignal(t)
        \/ FinishUnlock(t)

GroupNext ==
    \/ OwnerGoesOn \/ Acquire \/ Block \/ FreeGroup \/ WaiterSpuriousReturn
    \/ \E t \in Tasks : TaskStep(t)
    \/ \E t \in Members : InCondition(t)

(* The owner comes to its wait, tasks end, calls run on, and a free mutex that is
   waited for is taken. *)
GroupFairness ==
    /\ WF_groupVars(OwnerGoesOn) /\ WF_groupVars(Acquire) /\ WF_groupVars(Block \/ FreeGroup)
    /\ \A t \in Tasks : WF_groupVars(TaskStep(t))
    /\ \A t \in Members : WF_groupVars(InCondition(t))

GroupSpec == GroupInit /\ [][GroupNext]_groupVars /\ GroupFairness

-----------------------------------------------------------------------------
(* Properties *)

(* "Once this returns every finish_raw is done; the group may be freed" (wait):
   when the owner has freed the group, no task is yet to finish or has an access
   to the group ahead, also if a finisher that took itself for the last one was
   overtaken by an add_one. *)
NoUseAfterFree ==
    at[Waiter] = "freed" => \A t \in Tasks : at[t] \in {"done", "unborn"}

(* The owner sleeps on a count of zero only while the finisher that published it
   has yet to signal or to call the futex.  The signals of finishers that turned
   out not to be the last, consumed or still posted when the last one signals, do
   not use up the wakeup. *)
NoForgottenWaiter ==
    rawCount = 0 /\ cv[Waiter] = "asleep" =>
        \E t \in Tasks : at[t] = "signal" \/ cv[t] \in {"epoch", "wake"}

(* wait() returns once every task has finished: the signal of the last one is
   not lost between the waiter's test of the count and its sleep. *)
WaitReturns == at[Waiter] = "wait" ~> at[Waiter] = "freed"
=============================================================================
