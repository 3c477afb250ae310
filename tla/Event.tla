------------------------------- MODULE Event -------------------------------
(* src/src/threading/ThreadPool.rs, Event: "an event which stores 1          *)
(* semaphore token", on which several pool threads sleep at once.            *)
(*                                                                           *)
(* The compare-exchange loop at the head of wait is one action, Check: a     *)
(* failed exchange re-reads the word, and the branch is chosen on the word   *)
(* as last read.                                                             *)
EXTENDS Futex

CONSTANTS Threads

VARIABLES event,     \* Event.state
          ev,        \* where each thread is in wait or wake
          parked,    \* parked[t]: acquire_with is WAITING, t has been in the futex
          swept      \* swept[t]: has_swept, the 100ms timeout has been used up

vars == <<event, ev, parked, swept>>

EMPTY    == 0
WAITING  == 1
NOTIFIED == 2
SHUTDOWN == 3

Inside == {"check", "park", "asleep"}

TypeOK ==
    /\ event \in {EMPTY, WAITING, NOTIFIED, SHUTDOWN}
    /\ ev \in [Threads -> {"out", "wakeOne", "wakeAll"} \cup Inside]
    /\ parked \in [Threads -> BOOLEAN]
    /\ swept \in [Threads -> BOOLEAN]

Init ==
    /\ event = EMPTY
    /\ ev = [t \in Threads |-> "out"]
    /\ parked = [t \in Threads |-> FALSE]
    /\ swept = [t \in Threads |-> FALSE]

Goto(t, label) == ev' = [ev EXCEPT ![t] = label]

-----------------------------------------------------------------------------
(* Plausible slips. *)

(* A thread that slept takes the token and leaves EMPTY behind. *)
SlipAcquireEmpty(t) ==
    /\ ev[t] = "check"
    /\ event' = CASE event = SHUTDOWN -> SHUTDOWN
                  [] event = NOTIFIED -> EMPTY
                  [] OTHER            -> WAITING
    /\ Goto(t, IF event \in {SHUTDOWN, NOTIFIED} THEN "out" ELSE "park")
    /\ UNCHANGED <<parked, swept>>

(* wake leaves out the futex call whenever nobody is announced as waiting, in
   shutdown too. *)
SlipWakeIfWaiting(t, releaseWith, all) ==
    /\ ev[t] = "out"
    /\ event' = releaseWith
    /\ Goto(t, IF event # WAITING THEN "out" ELSE IF all THEN "wakeAll" ELSE "wakeOne")
    /\ UNCHANGED <<parked, swept>>

-----------------------------------------------------------------------------
(* wait *)

WaitCall(t) ==
    /\ ev[t] = "out"
    /\ Goto(t, "check")
    /\ parked' = [parked EXCEPT ![t] = FALSE]
    /\ swept' = [swept EXCEPT ![t] = FALSE]
    /\ UNCHANGED event

(* Return on SHUTDOWN; take a NOTIFIED token, leaving WAITING if this thread has
   slept; otherwise make the word WAITING and go to the futex. *)
Check(t) ==
    /\ ev[t] = "check"
    /\ event' = CASE event = SHUTDOWN -> SHUTDOWN
                  [] event = NOTIFIED -> IF parked[t] THEN WAITING ELSE EMPTY
                  [] OTHER            -> WAITING
    /\ Goto(t, IF event \in {SHUTDOWN, NOTIFIED} THEN "out" ELSE "park")
    /\ UNCHANGED <<parked, swept>>

(* Futex::wait(&state, WAITING, ..) *)
Park(t) ==
    /\ ev[t] = "park"
    /\ Goto(t, IF event = WAITING THEN "asleep" ELSE "check")
    /\ parked' = [parked EXCEPT ![t] = TRUE]
    /\ UNCHANGED <<event, swept>>

(* The first 100ms pass: sweep, look again, and sleep without a timeout then. *)
Sweep(t) ==
    /\ ev[t] = "asleep" /\ ~swept[t]
    /\ swept' = [swept EXCEPT ![t] = TRUE]
    /\ Goto(t, "check")
    /\ UNCHANGED <<event, parked>>

SpuriousReturn(t) ==
    /\ ev[t] = "asleep"
    /\ Goto(t, "check")
    /\ UNCHANGED <<event, parked, swept>>

-----------------------------------------------------------------------------
(* wake(release_with, 1) for notify, wake(release_with, u32::MAX) for shutdown
   and wake_for_idle_events *)

(* state.swap(release_with) *)
Post(t, releaseWith, all) ==
    /\ ev[t] = "out"
    /\ event' = releaseWith
    /\ Goto(t, IF all THEN "wakeAll" ELSE IF event = WAITING THEN "wakeOne" ELSE "out")
    /\ UNCHANGED <<parked, swept>>

(* Futex::wake *)
FutexWake(t) ==
    /\ ev[t] \in {"wakeOne", "wakeAll"}
    /\ LET sleepers == {u \in Threads : ev[u] = "asleep"} IN
       \E woken \in IF ev[t] = "wakeAll" THEN {sleepers} ELSE WakeOne(sleepers) :
          ev' = [u \in Threads |-> IF u = t THEN "out"
                                   ELSE IF u \in woken THEN "check" ELSE ev[u]]
    /\ UNCHANGED <<event, parked, swept>>

Notify(t) == Post(t, NOTIFIED, FALSE)

-----------------------------------------------------------------------------
WaitStep(t) == Check(t) \/ Park(t) \/ Sweep(t)

-----------------------------------------------------------------------------
(* Properties *)

(* A thread asleep on the event is seen to: the word is WAITING, so that the next
   notify wakes; or a wake is on its way to the futex; or a thread that has slept
   is about to look at the word, and will leave WAITING (or SHUTDOWN, whose wake
   took everyone) behind.  The word may be EMPTY or NOTIFIED meanwhile: a thread
   that took the token without sleeping clears it. *)
NoStrandedSleeper ==
    (\E t \in Threads : ev[t] = "asleep") =>
        \/ event = WAITING
        \/ \E u \in Threads : \/ ev[u] \in {"wakeOne", "wakeAll"}
                              \/ ev[u] = "check" /\ parked[u]
                              \/ ev[u] = "park" /\ event # WAITING
=============================================================================
