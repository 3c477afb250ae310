---------------------------- MODULE MCThreadPool ----------------------------
EXTENDS ThreadPool, SequencesExt

CONSTANTS a, b, c

(* Task a schedules b from inside the pool. *)
Fork == (a :> {b}) @@ (b :> {}) @@ (c :> {})

Fork2 == (a :> {b}) @@ (b :> {})

Flat == (a :> {})

(* A state that warm(3) reaches: every worker is registered, has announced itself
   idle and sleeps on the event, its first 100ms over. *)
Settled ==
    /\ sync = [idle |-> Cardinality(Workers), spawned |-> Cardinality(Workers),
               notified |-> FALSE, state |-> "Pending"]
    /\ threads = SetToSeq(Workers) /\ global = {} /\ consumer = Nil
    /\ joinEvent = FALSE /\ freed = FALSE
    /\ at = [t \in Actors |-> IF t = Owner THEN "client" ELSE "wait"]
    /\ waking = [t \in Actors |-> FALSE]
    /\ isIdle = [w \in Workers |-> TRUE]
    /\ local = [w \in Workers |-> {}] /\ task = [w \in Workers |-> Nil]
    /\ target = [w \in Workers |-> Nil] /\ scans = [w \in Workers |-> 0]
    /\ idleTask = [w \in Workers |-> FALSE] /\ joinFlag = [w \in Workers |-> FALSE]
    /\ unscheduled = Tasks /\ done = {}
    /\ event = E!WAITING
    /\ ev = [t \in Actors |-> IF t = Owner THEN "out" ELSE "asleep"]
    /\ parked = [t \in Actors |-> t # Owner]
    /\ swept = [t \in Actors |-> t # Owner]

(* Spec from there on. *)
SettledSpec ==
    /\ Settled /\ [][Next]_vars
    /\ WF_vars(OwnerStep) /\ \A w \in Workers : WF_vars(WorkerStep(w))

=============================================================================
