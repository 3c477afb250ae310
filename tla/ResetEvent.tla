----------------------------- MODULE ResetEvent -----------------------------
(* src/src/threading/ResetEvent.rs: a flag that threads sleep on until it is *)
(* set, and that is never reset.  Module BundleThread composes it with the   *)
(* threads that wait and set.                                                *)
EXTENDS Futex

CONSTANTS Waiters, Setters

VARIABLES state, pc

UNSET   == 0
WAITING == 1
IS_SET  == 2

Threads == Waiters \cup Setters

TypeOK ==
    /\ state \in {UNSET, WAITING, IS_SET}
    /\ pc \in [Threads -> {"idle", "announce", "wait", "asleep", "recheck", "returned",
                           "set", "wake"}]

Init == state = UNSET /\ pc = [t \in Threads |-> "idle"]

Goto(t, label) == pc' = [pc EXCEPT ![t] = label]

-----------------------------------------------------------------------------
(* wait *)

(* is_set(), the inlined fast path *)
WaitCall(t) ==
    /\ pc[t] = "idle"
    /\ Goto(t, IF state = IS_SET THEN "returned" ELSE "announce")
    /\ UNCHANGED state

(* wait_until_set: load, and the exchange of UNSET for WAITING; if the exchange
   fails the state it read decides. *)
Announce(t) ==
    /\ pc[t] = "announce"
    /\ state' = IF state = UNSET THEN WAITING ELSE state
    /\ Goto(t, IF state = IS_SET THEN "returned" ELSE "wait")

FutexWait(t) ==
    /\ pc[t] = "wait"
    /\ Goto(t, IF state = WAITING THEN "asleep" ELSE "recheck")
    /\ UNCHANGED state

SpuriousReturn(t) == pc[t] = "asleep" /\ Goto(t, "recheck") /\ UNCHANGED state

(* The load after the futex wait. *)
Recheck(t) ==
    /\ pc[t] = "recheck"
    /\ Goto(t, IF state = WAITING THEN "wait" ELSE "returned")
    /\ UNCHANGED state

(* set *)

(* The quick load, which returns if the event is set. *)
SetCall(t) ==
    /\ pc[t] = "idle"
    /\ state # IS_SET
    /\ Goto(t, "set")
    /\ UNCHANGED state

(* swap(IS_SET) *)
SetSwap(t) ==
    /\ pc[t] = "set"
    /\ state' = IS_SET
    /\ Goto(t, IF state = WAITING THEN "wake" ELSE "idle")

(* Futex::wake(&state, u32::MAX) *)
SetWake(t) ==
    /\ pc[t] = "wake"
    /\ pc' = [u \in Threads |-> IF u = t THEN "idle"
                                ELSE IF pc[u] = "asleep" THEN "recheck" ELSE pc[u]]
    /\ UNCHANGED state

-----------------------------------------------------------------------------
WaitStep(t) == Announce(t) \/ FutexWait(t) \/ Recheck(t)

SetStep(t) == SetSwap(t) \/ SetWake(t)
=============================================================================
