-------------------------- MODULE ConditionProofs --------------------------
(* Proofs about module Condition for any finite set of threads.              *)
(*                                                                           *)
(* NoStrandedSignal only says that somebody is on the way to the signals.    *)
(* What is inductive is a count: every posted signal is matched by a waiter  *)
(* that will look at the signals again or by a wakeup still owed to the      *)
(* futex (Matched), and every signal whose epoch change has happened by a    *)
(* waiter that this change has reached (Reached).  The second is needed      *)
(* where a wake finds fewer sleepers than it reserved: then all the waiters  *)
(* it was meant for are awake.                                               *)
EXTENDS Condition, FiniteSetTheorems, TLAPS

Counted == {t \in Threads : cv[t] \in Registered}

Sleepers == {t \in Threads : cv[t] = "asleep"}

(* Waiters that look at the signals before they can sleep again. *)
Awake == {t \in Threads : \/ cv[t] \in {"reload", "consume", "expired"}
                          \/ cv[t] \in {"unlock", "wait"} /\ ~fresh[t]}

(* Waiters that the changes of the epoch so far concern. *)
Reachable == Awake \cup Sleepers

(* One pair for each wakeup that a thread at one of the labels still owes. *)
Owed(labels) == {p \in Threads \X (1..Cardinality(Threads)) :
                    cv[p[1]] \in labels /\ p[2] <= toWake[p[1]]}

(* A thread holds the mutex exactly where the code is between lock and unlock;
   a thread that signals may or may not hold it. *)
OwnerMatches ==
    \A t \in Threads :
        /\ cv[t] \in {"in", "register", "unlock"} => owner = t
        /\ owner = t => cv[t] \in {"in", "register", "unlock", "epoch", "wake"}

WakesBounded == \A t \in Threads : toWake[t] <= Cardinality(Threads)

Matched == signals <= Cardinality(Awake) + Cardinality(Owed({"epoch", "wake"}))

Reached == signals <= Cardinality(Reachable) + Cardinality(Owed({"epoch"}))

CoreInv == TypeOK /\ OwnerMatches /\ WakesBounded /\ SignalsCovered

SignalInv == CoreInv /\ Matched /\ Reached

-----------------------------------------------------------------------------
(* A part of a finite set is finite and no larger. *)
LEMMA PartCount ==
    ASSUME NEW S, IsFiniteSet(S), NEW T, T \subseteq S
    PROVE  /\ IsFiniteSet(T) /\ Cardinality(T) \in Nat /\ Cardinality(S) \in Nat
           /\ Cardinality(T) <= Cardinality(S)
  <1>1. T \in SUBSET S
    OBVIOUS
  <1> QED
    BY <1>1, FS_Subset, FS_CardinalityType

(* Every set of threads and every set of owed wakeups is finite. *)
LEMMA CountsFinite ==
    /\ Cardinality(Threads) \in Nat
    /\ \A T \in SUBSET Threads : IsFiniteSet(T) /\ Cardinality(T) \in Nat
    /\ \A D \in SUBSET (Threads \X (1..Cardinality(Threads))) :
          IsFiniteSet(D) /\ Cardinality(D) \in Nat
  <1>1. IsFiniteSet(Threads) /\ Cardinality(Threads) \in Nat
    BY ConditionAssumption, FS_CardinalityType
  <1>2. IsFiniteSet(1..Cardinality(Threads))
    BY <1>1, FS_Interval
  <1>3. IsFiniteSet(Threads \X (1..Cardinality(Threads)))
    BY <1>1, <1>2, FS_Product
  <1>4. \A T \in SUBSET Threads : IsFiniteSet(T) /\ Cardinality(T) \in Nat
    BY <1>1, PartCount
  <1>5. \A D \in SUBSET (Threads \X (1..Cardinality(Threads))) :
           IsFiniteSet(D) /\ Cardinality(D) \in Nat
    BY <1>3, PartCount
  <1> QED
    BY <1>1, <1>4, <1>5

(* What one thread owes is as many pairs as its wakeups. *)
LEMMA BlockCount ==
    ASSUME NEW t, NEW n \in Nat
    PROVE  IsFiniteSet({t} \X (1..n)) /\ Cardinality({t} \X (1..n)) = n
  <1>1. IsFiniteSet({t}) /\ Cardinality({t}) = 1
    BY FS_Singleton
  <1>2. IsFiniteSet(1..n) /\ Cardinality(1..n) = n
    BY FS_Interval
  <1>3. /\ IsFiniteSet({t} \X (1..n))
        /\ Cardinality({t} \X (1..n)) = Cardinality({t}) * Cardinality(1..n)
    BY <1>1, <1>2, FS_Product
  <1> QED
    BY <1>1, <1>2, <1>3

(* Two disjoint finite sets count as their sum. *)
LEMMA DisjointCount ==
    ASSUME NEW S, NEW T, IsFiniteSet(S), IsFiniteSet(T), S \cap T = {}
    PROVE  Cardinality(S \cup T) = Cardinality(S) + Cardinality(T)
  <1>1. Cardinality(S) \in Nat /\ Cardinality(T) \in Nat /\ Cardinality({}) = 0
    BY FS_CardinalityType, FS_EmptySet
  <1>2. Cardinality(S \cup T) = Cardinality(S) + Cardinality(T) - Cardinality(S \cap T)
    BY FS_Union
  <1>3. Cardinality(S \cap T) = Cardinality({})
    OBVIOUS
  <1> QED
    BY <1>1, <1>2, <1>3

-----------------------------------------------------------------------------
(* Nobody is counted and nothing is owed at the start. *)
LEMMA CoreInit == Init => CoreInv
  <1> SUFFICES ASSUME Init PROVE CoreInv
    OBVIOUS
  <1>1. TypeOK /\ OwnerMatches
    BY ConditionAssumption DEF Init, TypeOK, OwnerMatches, Waiting, Registered
  <1>2. WakesBounded
    BY CountsFinite DEF Init, WakesBounded
  <1>3. {t \in Threads : cv[t] \in Registered} = {}
    BY DEF Init, Registered
  <1>4. SignalsCovered
    BY <1>3, FS_EmptySet DEF Init, SignalsCovered
  <1> QED
    BY <1>1, <1>2, <1>4 DEF CoreInv

(* A step that registers nobody and takes nobody off leaves the count right. *)
LEMMA CountKept ==
    ASSUME SignalsCovered, Counted' = Counted, waiters' = waiters, signals' <= waiters
    PROVE  SignalsCovered'
  BY DEF SignalsCovered, Counted

(* A thread that leaves the condition takes one off the count, and one signal if
   there is one. *)
LEMMA CountLeaves ==
    ASSUME CoreInv, NEW t \in Threads, t \in Counted, Counted' = Counted \ {t},
           waiters' = waiters - 1,
           signals' = IF signals > 0 THEN signals - 1 ELSE signals
    PROVE  SignalsCovered' /\ waiters' \in Nat /\ signals' \in Nat
  <1>1. IsFiniteSet(Counted) /\ Cardinality(Counted) \in Nat /\ Counted # {}
    BY CountsFinite DEF Counted
  <1>2. Cardinality(Counted') = Cardinality(Counted) - 1 /\ Cardinality(Counted) # 0
    BY <1>1, FS_RemoveElement, FS_EmptySet
  <1>3. /\ waiters = Cardinality(Counted) /\ signals <= waiters
        /\ waiters \in Nat /\ signals \in Nat
    BY DEF CoreInv, SignalsCovered, Counted, TypeOK
  <1>4. waiters' = Cardinality(Counted') /\ signals' <= waiters'
    BY <1>1, <1>2, <1>3
  <1>5. SignalsCovered'
    BY <1>4 DEF SignalsCovered, Counted
  <1> QED
    BY <1>1, <1>2, <1>3, <1>5

(* The counts and the mutex stay right in every step. *)
LEMMA CoreStep == CoreInv /\ [Next]_vars => CoreInv'
<1> SUFFICES ASSUME CoreInv, [Next]_vars PROVE CoreInv'
  OBVIOUS
<1> USE DEF CoreInv
<1>type. TypeOK /\ signals <= waiters
  BY DEF SignalsCovered
<1> DEFINE OtherInv == TypeOK /\ OwnerMatches /\ WakesBounded
           Kept == Counted' = Counted /\ waiters' = waiters /\ signals' <= waiters
<1>1. ASSUME NEW t \in Threads,
             \/ Lock(t) \/ Unlock(t) \/ WaitCall(t) \/ WaitUnlock(t) \/ FutexWait(t)
             \/ SpuriousReturn(t) \/ DeadlinePasses(t) \/ ReloadEpoch(t) \/ Relock(t)
             \/ BumpEpoch(t)
      PROVE  CoreInv'
  <2>1. OtherInv'
    BY <1>1, ConditionAssumption, ZenonT(40)
    DEF TypeOK, OwnerMatches, WakesBounded, Waiting, Registered, Goto, Lock, Unlock, WaitCall,
        WaitUnlock, FutexWait, SpuriousReturn, DeadlinePasses, ReloadEpoch, Relock, BumpEpoch
  <2>2. Kept
    BY <1>1, <1>type
    DEF Counted, TypeOK, Waiting, Registered, Goto, Lock, Unlock, WaitCall, WaitUnlock,
        FutexWait, SpuriousReturn, DeadlinePasses, ReloadEpoch, Relock, BumpEpoch
  <2> QED
    BY <2>1, <2>2, CountKept
<1>2. ASSUME NEW t \in Threads, Register(t) PROVE CoreInv'
  <2>1. OtherInv'
    BY <1>2
    DEF TypeOK, OwnerMatches, WakesBounded, Waiting, Registered, Goto, Register
  <2>2. Counted' = Counted \cup {t} /\ t \notin Counted
    BY <1>2 DEF Counted, TypeOK, Waiting, Registered, Goto, Register
  <2>3. Cardinality(Counted') = Cardinality(Counted) + 1
    BY <2>2, CountsFinite, FS_AddElement DEF Counted
  <2>4. SignalsCovered'
    BY <1>2, <2>3 DEF SignalsCovered, Counted, Register, TypeOK
  <2> QED
    BY <2>1, <2>4
<1>3. ASSUME NEW t \in Threads, Expire(t) \/ (ConsumeSignal(t) /\ signals > 0) PROVE CoreInv'
  <2>1. /\ t \in Counted /\ Counted' = Counted \ {t} /\ waiters' = waiters - 1
        /\ signals' = IF signals > 0 THEN signals - 1 ELSE signals
    BY <1>3 DEF Counted, TypeOK, Waiting, Registered, Goto, Expire, ConsumeSignal
  <2>2. SignalsCovered' /\ waiters' \in Nat /\ signals' \in Nat
    BY <2>1, CountLeaves
  <2>3. OtherInv'
    BY <1>3, <2>2
    DEF TypeOK, OwnerMatches, WakesBounded, Waiting, Registered, Goto, Expire, ConsumeSignal
  <2> QED
    BY <2>2, <2>3
<1>4. ASSUME NEW t \in Threads, ConsumeSignal(t), ~(signals > 0) PROVE CoreInv'
  <2>1. OtherInv'
    BY <1>4
    DEF TypeOK, OwnerMatches, WakesBounded, Waiting, Registered, Goto, ConsumeSignal
  <2>2. Kept
    BY <1>4, <1>type DEF Counted, TypeOK, Waiting, Registered, Goto, ConsumeSignal
  <2> QED
    BY <2>1, <2>2, CountKept
<1>5. ASSUME NEW t \in Threads, NEW all \in BOOLEAN, PostSignals(t, all) PROVE CoreInv'
  <2> DEFINE n == IF all THEN waiters - signals ELSE 1
  <2>1. waiters <= Cardinality(Threads)
    BY ConditionAssumption, PartCount DEF SignalsCovered
  <2>2. n \in Nat /\ n <= waiters - signals /\ signals' = signals + n
    BY <1>5 DEF PostSignals, TypeOK
  <2>3. OtherInv'
    BY <1>5, <2>1, <2>2, CountsFinite
    DEF TypeOK, OwnerMatches, WakesBounded, Waiting, Registered, Goto, PostSignals
  <2>4. Kept
    BY <1>5, <2>2 DEF Counted, TypeOK, Waiting, Registered, Goto, PostSignals
  <2> QED
    BY <2>3, <2>4, CountKept
<1>6. ASSUME NEW t \in Threads, FutexWake(t) PROVE CoreInv'
  <2>1. PICK woken \in WakeUpTo(Sleepers, toWake[t]) :
            cv' = [u \in Threads |->
                     IF u = t THEN (IF owner = t THEN "in" ELSE "out")
                     ELSE IF u \in woken THEN "reload" ELSE cv[u]]
    BY <1>6 DEF FutexWake, Sleepers
  <2>2. woken \subseteq Sleepers
    BY <2>1 DEF WakeUpTo
  <2>3. OtherInv'
    BY <1>6, <2>1, <2>2, CountsFinite
    DEF TypeOK, OwnerMatches, WakesBounded, Waiting, Registered, FutexWake, Sleepers
  <2>4. Kept
    BY <1>6, <1>type, <2>1, <2>2 DEF Counted, TypeOK, Registered, FutexWake, Sleepers
  <2> QED
    BY <2>3, <2>4, CountKept
<1>7. CASE UNCHANGED vars
  BY <1>7 DEF vars, TypeOK, OwnerMatches, WakesBounded, SignalsCovered
<1> QED
  BY <1>1, <1>2, <1>3, <1>4, <1>5, <1>6, <1>7 DEF Next, WaitStep, WakeStep

-----------------------------------------------------------------------------
(* Both matches survive a step that keeps the signals and loses nobody who is
   awake or reachable and no wakeup owed. *)
LEMMA MatchesGrow ==
    ASSUME Matched, Reached, signals \in Nat, signals' = signals,
           Awake \subseteq Awake', Reachable \subseteq Reachable',
           Owed({"epoch", "wake"}) \subseteq Owed({"epoch", "wake"})',
           Owed({"epoch"}) \subseteq Owed({"epoch"})'
    PROVE  Matched' /\ Reached'
  <1>1. /\ IsFiniteSet(Awake') /\ IsFiniteSet(Reachable')
        /\ IsFiniteSet(Owed({"epoch", "wake"})') /\ IsFiniteSet(Owed({"epoch"})')
    BY CountsFinite DEF Awake, Reachable, Sleepers, Owed
  <1>2. /\ Cardinality(Awake) \in Nat /\ Cardinality(Awake') \in Nat
        /\ Cardinality(Awake) <= Cardinality(Awake')
    BY <1>1, PartCount
  <1>3. /\ Cardinality(Reachable) \in Nat /\ Cardinality(Reachable') \in Nat
        /\ Cardinality(Reachable) <= Cardinality(Reachable')
    BY <1>1, PartCount
  <1>4. /\ Cardinality(Owed({"epoch", "wake"})) \in Nat
        /\ Cardinality(Owed({"epoch", "wake"})') \in Nat
        /\ Cardinality(Owed({"epoch", "wake"})) <= Cardinality(Owed({"epoch", "wake"})')
    BY <1>1, PartCount
  <1>5. /\ Cardinality(Owed({"epoch"})) \in Nat /\ Cardinality(Owed({"epoch"})') \in Nat
        /\ Cardinality(Owed({"epoch"})) <= Cardinality(Owed({"epoch"})')
    BY <1>1, PartCount
  <1> QED
    BY <1>2, <1>3, <1>4, <1>5 DEF Matched, Reached

(* Every posted signal stays matched in every step. *)
LEMMA MatchStep == SignalInv /\ [Next]_vars => Matched' /\ Reached'
<1> SUFFICES ASSUME SignalInv, [Next]_vars PROVE Matched' /\ Reached'
  OBVIOUS
<1> DEFINE All == Owed({"epoch", "wake"})
           Early == Owed({"epoch"})
<1>inv. /\ TypeOK /\ OwnerMatches /\ WakesBounded /\ SignalsCovered /\ Matched /\ Reached
        /\ signals \in Nat /\ waiters \in Nat
  BY DEF SignalInv, CoreInv, TypeOK
<1>fin. /\ IsFiniteSet(Awake) /\ Cardinality(Awake) \in Nat
        /\ IsFiniteSet(Awake') /\ Cardinality(Awake') \in Nat
        /\ IsFiniteSet(Reachable) /\ Cardinality(Reachable) \in Nat
        /\ IsFiniteSet(Reachable') /\ Cardinality(Reachable') \in Nat
        /\ IsFiniteSet(All) /\ Cardinality(All) \in Nat
        /\ IsFiniteSet(All') /\ Cardinality(All') \in Nat
        /\ IsFiniteSet(Early) /\ Cardinality(Early) \in Nat
        /\ IsFiniteSet(Early') /\ Cardinality(Early') \in Nat
  BY CountsFinite DEF Awake, Reachable, Sleepers, Owed
<1>card. Cardinality(Threads) \in Nat
  BY CountsFinite
<1>1. ASSUME NEW t \in Threads,
             \/ Lock(t) \/ Unlock(t) \/ WaitCall(t) \/ WaitUnlock(t) \/ FutexWait(t)
             \/ SpuriousReturn(t) \/ DeadlinePasses(t) \/ ReloadEpoch(t) \/ Relock(t)
             \/ Register(t)
      PROVE  Matched' /\ Reached'
  <2>1. signals' = signals /\ Awake \subseteq Awake' /\ Reachable \subseteq Reachable'
    BY <1>1, <1>inv
    DEF TypeOK, Awake, Reachable, Sleepers, Goto, Lock, Unlock, WaitCall, WaitUnlock,
        FutexWait, SpuriousReturn, DeadlinePasses, ReloadEpoch, Relock, Register
  <2>2. All \subseteq All' /\ Early \subseteq Early'
    BY <1>1, <1>inv
    DEF TypeOK, Owed, Goto, Lock, Unlock, WaitCall, WaitUnlock, FutexWait, SpuriousReturn,
        DeadlinePasses, ReloadEpoch, Relock, Register
  <2> QED
    BY <1>inv, <2>1, <2>2, MatchesGrow
<1>2. ASSUME signals' = 0 PROVE Matched' /\ Reached'
  BY <1>2, <1>fin DEF Matched, Reached
<1>3. ASSUME NEW t \in Threads, Expire(t) \/ ConsumeSignal(t) PROVE Matched' /\ Reached'
  <2>1. CASE signals = 0
    BY <1>2, <1>3, <2>1 DEF Expire, ConsumeSignal
  <2>2. CASE signals > 0
    <3>1. /\ signals' = signals - 1
          /\ t \in Awake /\ Awake' = Awake \ {t}
          /\ t \in Reachable /\ Reachable' = Reachable \ {t}
      BY <1>3, <2>2, <1>inv
      DEF TypeOK, Awake, Reachable, Sleepers, Goto, Expire, ConsumeSignal
    <3>2. All' = All /\ Early' = Early
      BY <1>3, <2>2, <1>inv DEF TypeOK, Owed, Goto, Expire, ConsumeSignal
    <3>3. /\ Cardinality(Awake') = Cardinality(Awake) - 1
          /\ Cardinality(Reachable') = Cardinality(Reachable) - 1
      BY <3>1, <1>fin, FS_RemoveElement
    <3> QED
      BY <3>1, <3>2, <3>3, <1>inv, <1>fin DEF Matched, Reached
  <2> QED
    BY <2>1, <2>2, <1>inv
<1>4. ASSUME NEW t \in Threads, NEW all \in BOOLEAN, PostSignals(t, all)
      PROVE  Matched' /\ Reached'
  <2> DEFINE n == toWake'[t]
             Block == {t} \X (1..n)
  <2>1. n \in Nat /\ signals' = signals + n /\ Awake' = Awake /\ Reachable' = Reachable
    BY <1>4, <1>inv DEF TypeOK, Awake, Reachable, Sleepers, Goto, PostSignals
  <2>2. n <= Cardinality(Threads)
    BY CoreStep DEF SignalInv, CoreInv, WakesBounded
  <2>3. /\ All' = All \cup Block /\ All \cap Block = {}
        /\ Early' = Early \cup Block /\ Early \cap Block = {}
    BY <1>4, <1>inv, <1>card, <2>1, <2>2 DEF TypeOK, Owed, Goto, PostSignals
  <2>4. IsFiniteSet(Block) /\ Cardinality(Block) = n
    BY <2>1, BlockCount
  <2>5. /\ Cardinality(All') = Cardinality(All) + n
        /\ Cardinality(Early') = Cardinality(Early) + n
    BY <1>fin, <2>3, <2>4, DisjointCount
  <2> QED
    BY <2>1, <2>5, <1>inv, <1>fin DEF Matched, Reached
<1>5. ASSUME NEW t \in Threads, BumpEpoch(t) PROVE Matched' /\ Reached'
  <2>1. signals' = signals /\ Awake \subseteq Awake' /\ All' = All
    BY <1>5, <1>inv DEF TypeOK, Awake, Owed, Goto, BumpEpoch
  <2>2. Cardinality(Awake) <= Cardinality(Awake')
    BY <1>fin, <2>1, PartCount
  <2>3. Matched'
    BY <2>1, <2>2, <1>inv, <1>fin DEF Matched
  <2>4. Reachable' = {u \in Threads : cv[u] \in Registered}
    BY <1>5, <1>inv DEF TypeOK, Reachable, Awake, Sleepers, Registered, Goto, BumpEpoch
  <2>5. Reached'
    BY <2>1, <2>4, <1>inv, <1>fin DEF SignalsCovered, Reached
  <2> QED
    BY <2>3, <2>5
<1>6. ASSUME NEW t \in Threads, FutexWake(t) PROVE Matched' /\ Reached'
  <2> DEFINE n == toWake[t]
             Block == {t} \X (1..n)
  <2>1. PICK woken \in WakeUpTo(Sleepers, n) :
            cv' = [u \in Threads |->
                     IF u = t THEN (IF owner = t THEN "in" ELSE "out")
                     ELSE IF u \in woken THEN "reload" ELSE cv[u]]
    BY <1>6 DEF FutexWake, Sleepers
  <2>2. /\ woken \subseteq Sleepers
        /\ Cardinality(woken) = IF Cardinality(Sleepers) < n THEN Cardinality(Sleepers) ELSE n
    BY <2>1 DEF WakeUpTo
  <2>3. /\ IsFiniteSet(Sleepers) /\ Cardinality(Sleepers) \in Nat /\ IsFiniteSet(woken)
        /\ n \in Nat
    BY <1>inv, <2>2, CountsFinite, PartCount DEF Sleepers, TypeOK
  <2>4. /\ signals' = signals /\ Reachable' = Reachable
        /\ Awake' = Awake \cup woken /\ Awake \cap woken = {}
    BY <1>6, <1>inv, <2>1, <2>2 DEF TypeOK, Awake, Reachable, Sleepers, FutexWake
  <2>5. Early' = Early /\ Early' \subseteq All'
    BY <1>6, <1>inv, <2>1, <2>2 DEF TypeOK, Owed, Sleepers, FutexWake
  <2>6. Reached'
    BY <2>4, <2>5, <1>inv DEF Reached
  <2>7. CASE Cardinality(Sleepers) < n
    <3>1. woken = Sleepers
      BY <2>2, <2>3, <2>7, FS_Subset
    <3>2. Awake' = Reachable'
      BY <2>4, <3>1 DEF Reachable
    <3>3. Cardinality(Early') <= Cardinality(All')
      BY <2>5, <1>fin, PartCount
    <3> QED
      BY <2>6, <3>2, <3>3, <2>4, <1>inv, <1>fin DEF Reached, Matched
  <2>8. CASE ~(Cardinality(Sleepers) < n)
    <3>1. Cardinality(Awake') = Cardinality(Awake) + n
      BY <2>2, <2>3, <2>4, <2>8, <1>fin, DisjointCount
    <3>2. All = All' \cup Block /\ All' \cap Block = {}
      BY <1>6, <1>inv, <1>card, <2>1, <2>2, <2>3
      DEF TypeOK, WakesBounded, Owed, Sleepers, FutexWake
    <3>3. IsFiniteSet(Block) /\ Cardinality(Block) = n
      BY <2>3, BlockCount
    <3>4. Cardinality(All) = Cardinality(All') + n
      BY <3>2, <3>3, <1>fin, DisjointCount
    <3>5. Matched'
      BY <3>1, <3>4, <2>3, <2>4, <1>inv, <1>fin DEF Matched
    <3> QED
      BY <2>6, <3>5
  <2> QED
    BY <2>7, <2>8
<1>7. CASE UNCHANGED vars
  BY <1>7, <1>inv DEF vars, Matched, Reached, Awake, Reachable, Sleepers, Owed
<1> QED
  BY <1>1, <1>3, <1>4, <1>5, <1>6, <1>7 DEF Next, WaitStep, WakeStep

(* The whole invariant holds at the start and is kept by every step. *)
LEMMA SignalInvariant == (Init => SignalInv) /\ (SignalInv /\ [Next]_vars => SignalInv')
  <1>1. ASSUME Init PROVE SignalInv
    <2>1. Cardinality(Awake) \in Nat /\ Cardinality(Reachable) \in Nat
      BY CountsFinite DEF Awake, Reachable, Sleepers
    <2>2. Cardinality(Owed({"epoch", "wake"})) \in Nat /\ Cardinality(Owed({"epoch"})) \in Nat
      BY CountsFinite DEF Owed
    <2> QED
      BY <1>1, <2>1, <2>2, CoreInit DEF Init, SignalInv, Matched, Reached
  <1> QED
    BY <1>1, CoreStep, MatchStep DEF SignalInv

-----------------------------------------------------------------------------
(* The words and the program counters keep their types. *)
THEOREM ConditionTypeCorrect == Spec => []TypeOK
  BY CoreInit, CoreStep, PTL DEF Spec, CoreInv

(* The waiter count is exact and covers the signals, so no subtraction on the
   word state wraps or borrows from the other half. *)
THEOREM SignalsAreCovered == Spec => []SignalsCovered
  BY CoreInit, CoreStep, PTL DEF Spec, CoreInv

(* While a signal is matched, somebody is on the way to it. *)
LEMMA MatchedIsSeen == SignalInv => NoStrandedSignal
  <1> SUFFICES ASSUME SignalInv, signals > 0,
                      ~ \E t \in Threads : cv[t] \in {"epoch", "wake"}
               PROVE  Awake # {}
    BY DEF NoStrandedSignal, Awake
  <1>1. Owed({"epoch", "wake"}) = {}
    BY DEF Owed
  <1>2. Cardinality(Owed({"epoch", "wake"})) = 0 /\ Cardinality({}) = 0
    BY <1>1, FS_EmptySet
  <1> QED
    BY <1>2 DEF SignalInv, CoreInv, TypeOK, Matched

(* No posted signal is forgotten, whatever the order of posts, wakes, timeouts
   and spurious returns. *)
THEOREM SignalsAreSeenTo == Spec => []NoStrandedSignal
  BY MatchedIsSeen, SignalInvariant, PTL DEF Spec
=============================================================================
