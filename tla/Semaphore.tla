----------------------------- MODULE Semaphore -----------------------------
(* src/src/threading/Semaphore.rs: wait and post over the mutex and the      *)
(* condition variable of module Condition, whose every step is interleaved.  *)
EXTENDS Naturals, FiniteSets

CONSTANTS Threads, NoThread,
          MaxPermits    \* bound on permits not taken and posts under way

VARIABLES permits,    \* Semaphore.permits
          at,         \* where each thread is in wait or post
          owner, waiters, signals, fresh, toWake, cv

condVars == <<owner, waiters, signals, fresh, toWake, cv>>
vars == <<permits, at, condVars>>

C == INSTANCE Condition WITH Timed <- {}

TypeOK ==
    /\ C!TypeOK
    /\ permits \in 0..MaxPermits
    /\ at \in [Threads -> {"idle", "wait", "taken", "post", "notify", "leave"}]

Init == C!Init /\ permits = 0 /\ at = [t \in Threads |-> "idle"]

At(t, label) == at' = [at EXCEPT ![t] = label]

(* cond.signal(), which returns at once when nothing is wakeable. *)
Signal(t) ==
    \/ C!PostSignals(t, FALSE)
    \/ waiters = signals /\ UNCHANGED condVars

-----------------------------------------------------------------------------
(* Plausible slips. *)

(* post adds its permit and wakes nobody. *)
SlipPostSilently(t) ==
    /\ at[t] = "post" /\ cv[t] = "in"
    /\ permits' = permits + 1
    /\ At(t, "leave")
    /\ UNCHANGED condVars

-----------------------------------------------------------------------------
(* wait() *)

WaitCall(t) == at[t] = "idle" /\ At(t, "wait") /\ UNCHANGED <<permits, condVars>>

(* self.mutex.lock(), of wait and of post *)
LockMutex(t) == at[t] \in {"wait", "post"} /\ C!Lock(t) /\ UNCHANGED <<permits, at>>

(* while permits == 0 { cond.wait } *)
Block(t) ==
    /\ at[t] = "wait" /\ permits = 0
    /\ C!WaitCall(t)
    /\ UNCHANGED <<permits, at>>

(* permits -= 1 *)
Take(t) ==
    /\ at[t] = "wait" /\ cv[t] = "in"
    /\ permits > 0
    /\ permits' = permits - 1
    /\ At(t, "taken")
    /\ UNCHANGED condVars

(* if permits > 0 { cond.signal() } *)
PassOn(t) ==
    /\ at[t] = "taken" /\ cv[t] = "in"
    /\ IF permits > 0 THEN Signal(t) ELSE UNCHANGED condVars
    /\ At(t, "leave")
    /\ UNCHANGED permits

-----------------------------------------------------------------------------
(* post() *)

PostCall(t) ==
    /\ at[t] = "idle"
    /\ permits + Cardinality({u \in Threads : at[u] = "post"}) < MaxPermits
    /\ At(t, "post")
    /\ UNCHANGED <<permits, condVars>>

(* permits += 1 *)
AddPermit(t) ==
    /\ at[t] = "post" /\ cv[t] = "in"
    /\ permits' = permits + 1
    /\ At(t, "notify")
    /\ UNCHANGED condVars

(* cond.signal() *)
Notify(t) ==
    /\ at[t] = "notify" /\ cv[t] = "in"
    /\ Signal(t)
    /\ At(t, "leave")
    /\ UNCHANGED permits

(* The deferred unlock of wait and of post. *)
Leave(t) == at[t] = "leave" /\ C!Unlock(t) /\ At(t, "idle") /\ UNCHANGED permits

-----------------------------------------------------------------------------
(* Steps inside cond.wait and cond.signal. *)
InCondition(t) == (C!WaitStep(t) \/ C!WakeStep(t)) /\ UNCHANGED <<permits, at>>

SpuriousReturn(t) == C!SpuriousReturn(t) /\ UNCHANGED <<permits, at>>

Relock(t) == C!Relock(t) /\ UNCHANGED <<permits, at>>

InCall(t) ==
    Block(t) \/ Take(t) \/ PassOn(t) \/ AddPermit(t) \/ Notify(t) \/ Leave(t) \/ InCondition(t)

Acquire == \E t \in Threads : LockMutex(t) \/ Relock(t)

Next == \/ Acquire
        \/ \E t \in Threads : WaitCall(t) \/ PostCall(t) \/ SpuriousReturn(t) \/ InCall(t)

(* A thread inside a call keeps running, and a free mutex that threads wait for
   is taken by one of them, which is what module Lock promises. *)
Spec == /\ Init /\ [][Next]_vars
        /\ WF_vars(Acquire)
        /\ \A t \in Threads : WF_vars(InCall(t))

-----------------------------------------------------------------------------
(* Properties *)

Abs == INSTANCE CountingSemaphore WITH
    blocked <- {t \in Threads : at[t] = "wait"}

(* wait and post implement the counting semaphore: no permit is made or lost,
   none is taken twice, and one that threads wait for is taken, although the
   condition hands its signals to whichever waiter looks first and drops the
   signals of posts that find nobody left to wake. *)
ImplementsSemaphore == Abs!SemSpec
=============================================================================
