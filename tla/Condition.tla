----------------------------- MODULE Condition -----------------------------
(* src/src/threading/Condition.rs: the futex condition variable (FutexImpl)  *)
(* and the mutex it is used with, taken as the abstract lock that module     *)
(* Mutex is shown to implement.                                              *)
(*                                                                           *)
(* One action per access to the condition's words.  A compare-exchange loop  *)
(* is one action, at its last access: a failed exchange only re-reads the    *)
(* word, and each decision of the loops is taken on the word as last read.   *)
(* The epoch is only ever compared for "unchanged since I read it", so the   *)
(* model keeps that bit per waiter (fresh) in place of the counter; the      *)
(* wrap-around after 2^32 wakes that the code's NOTE accepts is left out.    *)
EXTENDS Futex

CONSTANTS Threads,    \* the threads that share the condition and its mutex
          NoThread,   \* the mutex is free
          Timed       \* the threads that wait with timed_wait

ASSUME ConditionAssumption ==
    /\ IsFiniteSet(Threads) /\ NoThread \notin Threads
    /\ Timed \subseteq Threads

VARIABLES owner,      \* the holder of the mutex
          waiters,    \* state & WAITER_MASK
          signals,    \* state & SIGNAL_MASK
          fresh,      \* fresh[t]: epoch has not changed since t loaded it
          toWake,     \* toWake[t]: the wakeups that t's wake() reserved
          cv          \* where each thread is in the mutex and the condition

vars == <<owner, waiters, signals, fresh, toWake, cv>>

(* Counted in waiters: between the fetch_add of wait and the exchange that
   undoes it. *)
Registered == {"unlock", "wait", "asleep", "reload", "consume", "expired"}

(* Not yet returned from wait. *)
Waiting == Registered \cup {"relock"}

TypeOK ==
    /\ owner \in Threads \cup {NoThread}
    /\ waiters \in Nat /\ signals \in Nat
    /\ fresh \in [Threads -> BOOLEAN]
    /\ toWake \in [Threads -> Nat]
    /\ cv \in [Threads -> {"out", "in", "register", "epoch", "wake"} \cup Waiting]

Init ==
    /\ owner = NoThread
    /\ waiters = 0 /\ signals = 0
    /\ fresh = [t \in Threads |-> FALSE]
    /\ toWake = [t \in Threads |-> 0]
    /\ cv = [t \in Threads |-> "out"]

Goto(t, label) == cv' = [cv EXCEPT ![t] = label]

-----------------------------------------------------------------------------
(* Plausible slips, each in place of the action it is named after. *)

(* wait registers first and reads the epoch after it has let go of the mutex. *)
SlipUnlockRereads(t) ==
    /\ cv[t] = "unlock"
    /\ owner' = NoThread
    /\ fresh' = [fresh EXCEPT ![t] = TRUE]
    /\ Goto(t, "wait")
    /\ UNCHANGED <<waiters, signals, toWake>>

(* A timeout gives up without looking for a signal. *)
SlipExpireBlindly(t) ==
    /\ cv[t] = "expired"
    /\ waiters' = waiters - 1
    /\ Goto(t, "relock")
    /\ UNCHANGED <<owner, signals, fresh, toWake>>

(* wake calls the futex without changing the epoch. *)
SlipKeepEpoch(t) ==
    /\ cv[t] = "epoch"
    /\ Goto(t, "wake")
    /\ UNCHANGED <<owner, waiters, signals, fresh, toWake>>

-----------------------------------------------------------------------------
(* The mutex, as its users hold it around the condition. *)

Lock(t) ==
    /\ cv[t] = "out"
    /\ owner = NoThread
    /\ owner' = t
    /\ Goto(t, "in")
    /\ UNCHANGED <<waiters, signals, fresh, toWake>>

Unlock(t) ==
    /\ cv[t] = "in"
    /\ owner' = NoThread
    /\ Goto(t, "out")
    /\ UNCHANGED <<waiters, signals, fresh, toWake>>

-----------------------------------------------------------------------------
(* wait() and timed_wait() *)

(* epoch.load *)
WaitCall(t) ==
    /\ cv[t] = "in"
    /\ fresh' = [fresh EXCEPT ![t] = TRUE]
    /\ Goto(t, "register")
    /\ UNCHANGED <<owner, waiters, signals, toWake>>

(* state.fetch_add(ONE_WAITER) *)
Register(t) ==
    /\ cv[t] = "register"
    /\ waiters' = waiters + 1
    /\ Goto(t, "unlock")
    /\ UNCHANGED <<owner, signals, fresh, toWake>>

(* mutex.unlock() *)
WaitUnlock(t) ==
    /\ cv[t] = "unlock"
    /\ owner' = NoThread
    /\ Goto(t, "wait")
    /\ UNCHANGED <<waiters, signals, fresh, toWake>>

(* futex_deadline.wait(&epoch, epoch): sleep if the epoch is the one read. *)
FutexWait(t) ==
    /\ cv[t] = "wait"
    /\ Goto(t, IF fresh[t] THEN "asleep" ELSE "reload")
    /\ UNCHANGED <<owner, waiters, signals, fresh, toWake>>

SpuriousReturn(t) ==
    /\ cv[t] = "asleep"
    /\ Goto(t, "reload")
    /\ UNCHANGED <<owner, waiters, signals, fresh, toWake>>

(* The deadline of a timed wait passes before or during the futex wait. *)
DeadlinePasses(t) ==
    /\ t \in Timed
    /\ cv[t] \in {"wait", "asleep"}
    /\ Goto(t, "expired")
    /\ UNCHANGED <<owner, waiters, signals, fresh, toWake>>

(* The timeout branch: consume a signal if there is one and report being woken,
   otherwise take back the waiter and report the timeout. *)
Expire(t) ==
    /\ cv[t] = "expired"
    /\ waiters' = waiters - 1
    /\ signals' = IF signals > 0 THEN signals - 1 ELSE signals
    /\ Goto(t, "relock")
    /\ UNCHANGED <<owner, fresh, toWake>>

(* epoch.load after the futex wait *)
ReloadEpoch(t) ==
    /\ cv[t] = "reload"
    /\ fresh' = [fresh EXCEPT ![t] = TRUE]
    /\ Goto(t, "consume")
    /\ UNCHANGED <<owner, waiters, signals, toWake>>

(* state.load and the exchange that takes one signal and one waiter off. *)
ConsumeSignal(t) ==
    /\ cv[t] = "consume"
    /\ IF signals > 0
         THEN /\ waiters' = waiters - 1
              /\ signals' = signals - 1
              /\ Goto(t, "relock")
         ELSE Goto(t, "wait") /\ UNCHANGED <<waiters, signals>>
    /\ UNCHANGED <<owner, fresh, toWake>>

(* The deferred mutex.lock() of every way out of wait. *)
Relock(t) ==
    /\ cv[t] = "relock"
    /\ owner = NoThread
    /\ owner' = t
    /\ Goto(t, "in")
    /\ UNCHANGED <<waiters, signals, fresh, toWake>>

-----------------------------------------------------------------------------
(* signal() (all = FALSE) and broadcast() (all = TRUE), with or without the
   mutex. *)

(* Reserve wakeups by adding signals; with nothing wakeable the call returns. *)
PostSignals(t, all) ==
    /\ cv[t] \in {"out", "in"}
    /\ waiters > signals
    /\ LET n == IF all THEN waiters - signals ELSE 1
       IN signals' = signals + n /\ toWake' = [toWake EXCEPT ![t] = n]
    /\ Goto(t, "epoch")
    /\ UNCHANGED <<owner, waiters, fresh>>

(* epoch.fetch_add(1) *)
BumpEpoch(t) ==
    /\ cv[t] = "epoch"
    /\ fresh' = [u \in Threads |-> FALSE]
    /\ Goto(t, "wake")
    /\ UNCHANGED <<owner, waiters, signals, toWake>>

(* Futex::wake(&epoch, to_wake) *)
FutexWake(t) ==
    /\ cv[t] = "wake"
    /\ \E woken \in WakeUpTo({u \in Threads : cv[u] = "asleep"}, toWake[t]) :
          cv' = [u \in Threads |->
                   IF u = t THEN (IF owner = t THEN "in" ELSE "out")
                   ELSE IF u \in woken THEN "reload" ELSE cv[u]]
    /\ toWake' = [toWake EXCEPT ![t] = 0]
    /\ UNCHANGED <<owner, waiters, signals, fresh>>

-----------------------------------------------------------------------------
(* What a thread inside wait does by itself. *)
WaitStep(t) ==
    Register(t) \/ WaitUnlock(t) \/ FutexWait(t) \/ Expire(t) \/ ReloadEpoch(t)
        \/ ConsumeSignal(t)

WakeStep(t) == BumpEpoch(t) \/ FutexWake(t)

Next == \E t \in Threads :
    \/ Lock(t) \/ Unlock(t)
    \/ WaitCall(t)
    \/ WaitStep(t)
    \/ SpuriousReturn(t)
    \/ DeadlinePasses(t)
    \/ Relock(t)
    \/ \E all \in BOOLEAN : PostSignals(t, all)
    \/ WakeStep(t)

Spec == Init /\ [][Next]_vars

(* Threads inside wait or wake keep running.  Nothing is assumed of the mutex:
   what is claimed ends where a waiter turns to it. *)
FairSpec == Spec /\ \A t \in Threads : WF_vars(WaitStep(t)) /\ WF_vars(WakeStep(t))

-----------------------------------------------------------------------------
(* Properties *)

(* The low half of state counts the registered threads, and "the signals count
   is always less than or equal to the waiters count" (wake): the subtraction
   waiters - signals never wraps and no consumed signal borrows from another
   field of the word. *)
SignalsCovered ==
    /\ waiters = Cardinality({t \in Threads : cv[t] \in Registered})
    /\ signals <= waiters

(* A reserved wakeup is never forgotten: while signals are posted, a thread is
   about to look at the signals again, or the posting thread is still to change
   the epoch or to call the futex.  A waiter whose epoch is still fresh does not
   count: it will sleep. *)
NoStrandedSignal ==
    signals > 0 =>
        \E t \in Threads :
            \/ cv[t] \in {"epoch", "wake", "reload", "consume", "expired"}
            \/ cv[t] \in {"unlock", "wait"} /\ ~fresh[t]

(* A posted signal unblocks a thread: whatever the interleaving with other
   wakes, new waiters and timeouts, some wait call consumes it and goes on to
   take the mutex back. *)
SignalUnblocks == signals > 0 ~> \E t \in Threads : cv[t] = "relock"
=============================================================================
