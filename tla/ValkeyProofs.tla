---------------------------- MODULE ValkeyProofs ----------------------------
(* Proofs about module Valkey for any commands and any configuration of the  *)
(* client.                                                                   *)
(*                                                                           *)
(* The inductive invariant ClientInv ties the status to the socket and the   *)
(* timers (StatusFits), what is outstanding on the socket to the handshake   *)
(* and in_flight (WireFits), the two queues to the order of the calls        *)
(* (OrderFits) and the point on_data has reached to the socket it reads      *)
(* (DataFits).  Fits is what every function of the client keeps by itself;   *)
(* DataFits and LoopFits are of the callback around it.  Each function has   *)
(* its lemma about any client, each action its case in ClientStep.           *)
EXTENDS Valkey, SequenceTheorems, WellFoundedInduction, TLAPS

(* Every set of numbers that is not empty has a least one. *)
LEMMA LeastNumber ==
    ASSUME NEW T, T \subseteq Nat, T # {}
    PROVE  \E x \in T : \A y \in T : ~(y < x)
<1> DEFINE R == OpToRel(<, Nat)
<1>1. IsWellFoundedOn(R, Nat)
  BY NatLessThanWellFounded
<1>2. \A x, y \in Nat : y < x => <<y, x>> \in R
  BY DEF OpToRel
<1> HIDE DEF R
<1>3. \E x \in T : \A y \in T : ~(<<y, x>> \in R)
  BY <1>1, WFMin
<1> QED
  BY <1>2, <1>3

(* The least position of a command that does not support pipelining, if the
   queue has one. *)
LEMMA FirstOf ==
    ASSUME NEW q \in Seq(Commands), NEW I, \A i : i \in I <=> i \in 1..Len(q) /\ q[i] \notin Pipelined
    PROVE  IF I # {} THEN /\ Min(I) \in 1..Len(q)
                          /\ \A i \in 1..Len(q) : i < Min(I) => q[i] \in Pipelined
                     ELSE \A i \in 1..Len(q) : q[i] \in Pipelined
<1>0. I \subseteq Nat
  OBVIOUS
<1>1. CASE I # {}
  <2>1. PICK m \in I : \A y \in I : ~(y < m)
    BY <1>0, <1>1, LeastNumber
  <2>2. \A y \in I : m =< y
    BY <1>0, <2>1
  <2>3. Min(I) \in I /\ \A y \in I : Min(I) =< y
    BY <2>2 DEF Min
  <2>4. PICK n : n = Min(I)
    OBVIOUS
  <2>5. n \in 1..Len(q) /\ n \in Nat /\ \A y \in I : n =< y
    BY <2>3, <2>4
  <2>6. ASSUME NEW i \in 1..Len(q), i < n PROVE q[i] \in Pipelined
    <3>1. i \notin I
      <4>1. SUFFICES ASSUME i \in I PROVE FALSE
        OBVIOUS
      <4>2. n =< i
        BY <2>5, <4>1
      <4> QED
        BY <2>5, <2>6, <4>2
    <3> QED
      BY <3>1
  <2> QED
    BY <1>1, <2>4, <2>5, <2>6
<1>2. CASE I = {}
  BY <1>2
<1> QED
  BY <1>1, <1>2

(* What on_auto_flush looks for in the queue: the first command that does not
   support pipelining, or none. *)
LEMMA FirstOther ==
    ASSUME NEW q \in Seq(Commands)
    PROVE  \E n \in 0..Len(q) :
              /\ n = SelectInSeq(q, LAMBDA k : k \notin Pipelined)
              /\ \A i \in 1..Len(q) : n = 0 \/ i < n => q[i] \in Pipelined
<1> DEFINE I == {i \in 1..Len(q) : q[i] \notin Pipelined}
<1>1. SelectInSeq(q, LAMBDA k : k \notin Pipelined) = IF I # {} THEN Min(I) ELSE 0
  BY DEF SelectInSeq
<1>2. \A i : i \in I <=> i \in 1..Len(q) /\ q[i] \notin Pipelined
  OBVIOUS
<1>0. Len(q) \in Nat
  OBVIOUS
<1> HIDE DEF I
<1>3. IF I # {} THEN /\ Min(I) \in 1..Len(q)
                     /\ \A i \in 1..Len(q) : i < Min(I) => q[i] \in Pipelined
                ELSE \A i \in 1..Len(q) : q[i] \in Pipelined
  BY <1>2, FirstOf
<1>4. PICK n : n = IF I # {} THEN Min(I) ELSE 0
  OBVIOUS
<1>5. n \in 0..Len(q) /\ \A i \in 1..Len(q) : n = 0 \/ i < n => q[i] \in Pipelined
  BY <1>0, <1>3, <1>4
<1> QED
  BY <1>1, <1>4, <1>5

(* Dropping commands at the front of a sequence keeps the rest in call order. *)
LEMMA OrderSuffix ==
    ASSUME NEW p, NEW r, NEW t, NEW m \in Nat, p \in Seq(Commands), r \in Seq(Commands),
           Len(p) = m + Len(r), \A i \in 1..Len(r) : r[i] = p[m + i], InOrder(p, t)
    PROVE  InOrder(r, t)
<1>0. DOMAIN p = 1..Len(p) /\ DOMAIN r = 1..Len(r) /\ Len(p) \in Nat /\ Len(r) \in Nat
  OBVIOUS
<1>1. \A i \in 1..Len(r) : m + i \in 1..Len(p) /\ r[i] = p[m + i]
  BY <1>0
<1>p. \A i, j \in 1..Len(p) : i < j =>
        \E x, y \in DOMAIN t : x < y /\ t[x] = p[i] /\ t[y] = p[j]
  BY <1>0 DEF InOrder
<1>r. \A i \in 1..Len(p) : p[i] \in Range(t)
  BY <1>0 DEF InOrder, Range
<1>2. Range(r) \subseteq Range(t)
  <2>1. \A i \in 1..Len(r) : r[i] \in Range(t)
    BY <1>1, <1>r
  <2> QED
    BY <1>0, <2>1 DEF Range
<1>3. ASSUME NEW i \in 1..Len(r), NEW j \in 1..Len(r), i < j
      PROVE  \E x, y \in DOMAIN t : x < y /\ t[x] = r[i] /\ t[y] = r[j]
  <2>1. m + i < m + j
    BY <1>3
  <2>2. \E x, y \in DOMAIN t : x < y /\ t[x] = p[m + i] /\ t[y] = p[m + j]
    BY <1>1, <1>p, <2>1, ZenonT(40)
  <2> QED
    BY <1>1, <2>2
<1> QED
  BY <1>0, <1>2, <1>3 DEF InOrder

(* A command that is accepted now comes after all that were accepted before. *)
LEMMA OrderAppend ==
    ASSUME NEW p, NEW t, NEW k \in Commands, p \in Seq(Commands), t \in Seq(Commands), InOrder(p, t)
    PROVE  InOrder(Append(p, k), Append(t, k))
<1> DEFINE r == Append(p, k)
           u == Append(t, k)
<1>0. /\ Len(p) \in Nat /\ DOMAIN p = 1..Len(p)
      /\ Len(t) \in Nat /\ DOMAIN t = 1..Len(t)
      /\ DOMAIN r = 1..(Len(p) + 1) /\ r[Len(p) + 1] = k /\ \A i \in 1..Len(p) : r[i] = p[i]
      /\ DOMAIN u = 1..(Len(t) + 1) /\ u[Len(t) + 1] = k /\ \A i \in 1..Len(t) : u[i] = t[i]
  OBVIOUS
<1> HIDE DEF r, u
<1>p. \A i, j \in 1..Len(p) : i < j =>
        \E x, y \in 1..Len(t) : x < y /\ t[x] = p[i] /\ t[y] = p[j]
  BY <1>0, SMTT(30) DEF InOrder
<1>r. \A i \in 1..Len(p) : p[i] \in Range(t)
  BY <1>0 DEF InOrder, Range
<1>1. \A i \in 1..Len(p) : \E x \in 1..Len(t) : t[x] = p[i]
  BY <1>0, <1>r DEF Range
<1>2. \A i \in 1..(Len(p) + 1) : \E x \in 1..(Len(t) + 1) : u[x] = r[i]
  <2> SUFFICES ASSUME NEW i \in 1..(Len(p) + 1) PROVE \E x \in 1..(Len(t) + 1) : u[x] = r[i]
    OBVIOUS
  <2>1. CASE i = Len(p) + 1
    BY <1>0, <2>1
  <2>2. CASE i # Len(p) + 1
    <3>1. i \in 1..Len(p)
      BY <1>0, <2>2
    <3>2. PICK x \in 1..Len(t) : t[x] = p[i]
      BY <1>1, <3>1
    <3>3. x \in 1..(Len(t) + 1)
      BY <1>0
    <3> QED
      BY <1>0, <3>1, <3>2, <3>3
  <2> QED
    BY <2>1, <2>2
<1>3. Range(r) \subseteq Range(u)
  BY <1>0, <1>2 DEF Range
<1>4. ASSUME NEW i \in 1..(Len(p) + 1), NEW j \in 1..(Len(p) + 1), i < j
      PROVE  \E x, y \in 1..(Len(t) + 1) : x < y /\ u[x] = r[i] /\ u[y] = r[j]
  <2>0. i \in 1..Len(p)
    BY <1>0, <1>4
  <2>1. CASE j = Len(p) + 1
    <3>1. PICK x \in 1..Len(t) : t[x] = p[i]
      BY <1>1, <2>0
    <3>2. x < Len(t) + 1 /\ x \in 1..(Len(t) + 1) /\ Len(t) + 1 \in 1..(Len(t) + 1)
      BY <1>0
    <3> QED
      BY <1>0, <2>0, <2>1, <3>1, <3>2
  <2>2. CASE j # Len(p) + 1
    <3>1. j \in 1..Len(p)
      BY <1>0, <2>2
    <3>2. PICK x \in 1..Len(t), y \in 1..Len(t) : x < y /\ t[x] = p[i] /\ t[y] = p[j]
      BY <1>p, <1>4, <2>0, <3>1
    <3>3. x \in 1..(Len(t) + 1) /\ y \in 1..(Len(t) + 1)
      BY <1>0
    <3> QED
      BY <1>0, <2>0, <3>1, <3>2, <3>3
  <2> QED
    BY <2>1, <2>2
<1>5. InOrder(r, u)
  <2>1. \A i, j \in DOMAIN r : i < j =>
          \E x, y \in DOMAIN u : x < y /\ u[x] = r[i] /\ u[y] = r[j]
    BY <1>0, <1>4, SMTT(30)
  <2> QED
    BY <1>3, <2>1 DEF InOrder
<1> QED
  BY <1>5 DEF r, u

-----------------------------------------------------------------------------
Requests == Commands \cup {Hello, Select}

Fates == {"unsent", "waiting", "answered", "rejected"}

(* The client's fields. *)
Client ==
    [autoReconnect : BOOLEAN, offlineQueue : BOOLEAN,
     status : {"NeverConnected", "Connecting", "Connected", "Disconnected"},
     socket : {"closed", "dialing", "open"},
     manual : BOOLEAN, selecting : BOOLEAN, reconnecting : BOOLEAN, failed : BOOLEAN,
     retries : Nat, queue : Seq(Commands), inFlight : Seq(Commands),
     written : Seq(Requests), wire : Seq(Requests),
     flusher : BOOLEAN, timer : BOOLEAN, retryTimer : BOOLEAN, promise : BOOLEAN,
     deferred : BOOLEAN, poll : BOOLEAN, in : {"loop", "reply", "script"},
     replies : Seq(Requests), same : BOOLEAN,
     fate : [Commands -> Fates], sent : Seq(Commands)]

(* What the status says of the socket, the timers and the failure. *)
StatusFits(s) ==
    /\ s.status = "NeverConnected" =>
          s.socket = "closed" /\ ~s.deferred /\ ~s.reconnecting /\ s.queue = <<>>
    /\ s.status = "Connecting" => (s.deferred <=> s.socket = "closed")
    /\ s.status = "Connected" => s.socket = "open" /\ ~s.deferred /\ ~s.reconnecting
    /\ s.status = "Disconnected" =>
          /\ s.socket = "closed" /\ ~s.deferred
          /\ IF s.reconnecting THEN s.retryTimer ELSE s.failed
    /\ s.failed => s.status = "Disconnected" /\ ~s.reconnecting /\ s.queue = <<>>
    /\ s.timer => s.socket # "closed"
    /\ s.status = "Connecting" /\ s.socket = "open" => s.selecting = Database

(* What is outstanding on the socket, and what of it is not yet written. *)
WireFits(s) ==
    /\ IF s.socket = "open"
       THEN Outstanding(s) = Handshake(s) \o s.inFlight
       ELSE s.inFlight = <<>> /\ s.wire = <<>> /\ s.written = <<>>
    /\ s.status = "Connecting" => s.inFlight = <<>> /\ s.written \in {<<>>, Handshake(s)}
    /\ s.status = "Connected" => Len(s.written) <= Len(s.inFlight)

(* Where on_data is. *)
DataFits(s) ==
    /\ s.in = "loop" => s.replies = <<>>
    /\ s.in = "reply" => s.replies # <<>> /\ s.same /\ s.socket = "open"
    /\ s.in = "script" => (s.same <=> s.socket = "open")

(* Between two callbacks poll_ref is up to date, and a command that could go
   out has its flush coming. *)
LoopFits(s) ==
    s.in = "loop" =>
        /\ s.poll = Activity(s)
        /\ ConnectionReady(s) /\ s.inFlight = <<>> /\ s.queue # <<>> => s.flusher

(* CallOrderKept of any client. *)
OrderFits(s) ==
    /\ InOrder(s.inFlight \o s.queue, s.sent)
    /\ \A i \in 2..Len(s.inFlight) : s.inFlight[i] \in Pipelined

(* What every function of the client keeps; the rest is of where on_data is. *)
Fits(s) == s \in Client /\ StatusFits(s) /\ WireFits(s) /\ OrderFits(s)

ClientInv(s) == Fits(s) /\ DataFits(s) /\ LoopFits(s)

-----------------------------------------------------------------------------
(* on_data is where it was. *)
SamePlace(s, r) == r.in = s.in /\ r.replies = s.replies /\ r.same = s.same

(* No commands are in order. *)
LEMMA OrderOfNone ==
    ASSUME NEW t \in Seq(Commands)
    PROVE  InOrder(<<>> \o <<>>, t)
<1>1. <<>> \o <<>> = <<>>
  OBVIOUS
<1>2. DOMAIN <<>> = {} /\ Range(<<>>) = {}
  BY DEF Range
<1> QED
  BY <1>1, <1>2 DEF InOrder

(* Rejecting what is in flight leaves the queue in call order. *)
LEMMA OrderDropsFlight ==
    ASSUME NEW p \in Seq(Commands), NEW q \in Seq(Commands), NEW t \in Seq(Commands),
           InOrder(p \o q, t)
    PROVE  InOrder(<<>> \o q, t)
<1>1. <<>> \o q = q
  OBVIOUS
<1>2. p \o q \in Seq(Commands) /\ Len(p \o q) = Len(p) + Len(q) /\ Len(p) \in Nat
  OBVIOUS
<1>3. \A i \in 1..Len(q) : q[i] = (p \o q)[Len(p) + i]
  OBVIOUS
<1> QED
  BY <1>1, <1>2, <1>3, OrderSuffix

(* Settling promises changes the fates of commands and nothing else. *)
LEMMA SettleIs ==
    ASSUME NEW s \in Client, NEW cmds, NEW how \in Fates
    PROVE  \E f \in [Commands -> Fates] : Settle(s, cmds, how) = [s EXCEPT !.fate = f]
<1> DEFINE f == [k \in Commands |-> IF k \in cmds THEN how ELSE s.fate[k]]
<1>1. s.fate \in [Commands -> Fates]
  BY DEF Client
<1>2. f \in [Commands -> Fates]
  BY <1>1
<1>3. Settle(s, cmds, how) = [s EXCEPT !.fate = f]
  BY DEF Settle
<1> QED
  BY <1>2, <1>3

(* The empty sequence is one of commands and of requests. *)
LEMMA Empty == <<>> \in Seq(Commands) /\ <<>> \in Seq(Requests)
  OBVIOUS

(* reject_in_flight empties in_flight and settles its promises. *)
LEMMA RejectInFlightIs ==
    ASSUME NEW s \in Client
    PROVE  \E f \in [Commands -> Fates] :
              RejectInFlight(s) = [s EXCEPT !.fate = f, !.inFlight = <<>>]
<1>1. PICK f \in [Commands -> Fates] :
         Settle(s, Range(s.inFlight), "rejected") = [s EXCEPT !.fate = f]
  <2>1. "rejected" \in Fates
    BY DEF Fates
  <2> QED
    BY <2>1, SettleIs, SMTT(30)
<1> QED
  BY <1>1 DEF RejectInFlight

(* Rejecting everything empties both queues. *)
LEMMA RejectAllIs ==
    ASSUME NEW s \in Client
    PROVE  \E f \in [Commands -> Fates] :
              RejectAll(s) = [s EXCEPT !.fate = f, !.inFlight = <<>>, !.queue = <<>>]
<1>1. PICK cmds : cmds = Range(s.inFlight \o s.queue)
  OBVIOUS
<1>2. PICK f \in [Commands -> Fates] : Settle(s, cmds, "rejected") = [s EXCEPT !.fate = f]
  <2>1. "rejected" \in Fates
    BY DEF Fates
  <2> QED
    BY <2>1, SettleIs
<1> QED
  BY <1>1, <1>2 DEF RejectAll

(* update_poll_ref makes poll_ref tell whether there is activity. *)
LEMMA PollRefIs ==
    ASSUME NEW s \in Client
    PROVE  /\ UpdatePollRef(s) \in Client
           /\ UpdatePollRef(s).poll = Activity(UpdatePollRef(s))
           /\ SamePlace(s, UpdatePollRef(s))
<1>1. UpdatePollRef(s) \in Client /\ SamePlace(s, UpdatePollRef(s))
  BY DEF UpdatePollRef, Client, Activity, SamePlace
<1>2. UpdatePollRef(s).poll = Activity(s) /\ Activity(UpdatePollRef(s)) = Activity(s)
  BY DEF UpdatePollRef, Client, Activity
<1> QED
  BY <1>1, <1>2

(* r is s when its connection is over: the commands in flight are gone; those
   in the queue wait for another attempt or are gone too. *)
Over(s, r) ==
    /\ r \in Client
    /\ r.status = "Disconnected" /\ r.socket = "closed" /\ ~r.deferred /\ ~r.timer
    /\ r.wire = <<>> /\ r.written = <<>> /\ r.inFlight = <<>>
    /\ r.sent = s.sent
    /\ IF r.reconnecting THEN r.retryTimer /\ ~r.failed /\ r.queue = s.queue
       ELSE r.failed /\ r.queue = <<>>

(* When a connection has ended, nothing is outstanding. *)
LEMMA OverFits ==
    ASSUME NEW s \in Client, NEW r, OrderFits(s), Over(s, r)
    PROVE  Fits(r)
<1>1. StatusFits(r)
  BY DEF Over, StatusFits
<1>2. WireFits(r)
  BY DEF Over, WireFits
<1>3. OrderFits(r)
  <2>0. s.inFlight \in Seq(Commands) /\ s.queue \in Seq(Commands) /\ s.sent \in Seq(Commands)
    BY DEF Client
  <2>1. InOrder(s.inFlight \o s.queue, s.sent)
    BY DEF OrderFits
  <2>2. InOrder(<<>> \o s.queue, s.sent)
    BY <2>0, <2>1, OrderDropsFlight
  <2>3. InOrder(<<>> \o <<>>, s.sent)
    BY <2>0, OrderOfNone
  <2>4. InOrder(r.inFlight \o r.queue, r.sent)
    BY <2>2, <2>3 DEF Over
  <2>5. \A i \in 2..Len(r.inFlight) : FALSE
    BY DEF Over
  <2> QED
    BY <2>4, <2>5 DEF OrderFits
<1> QED
  BY <1>1, <1>2, <1>3 DEF Fits, Over

(* fail rejects every command and gives up reconnecting. *)
LEMMA FailCommandsIs ==
    ASSUME NEW s \in Client, s.failed => ~s.reconnecting /\ s.queue = <<>> /\ s.inFlight = <<>>
    PROVE  \E f \in [Commands -> Fates] :
              FailCommands(s) = [s EXCEPT !.fate = f, !.inFlight = <<>>, !.queue = <<>>,
                                          !.failed = TRUE, !.reconnecting = FALSE]
<1>1. CASE s.failed
  <2>1. s = [s EXCEPT !.fate = s.fate, !.inFlight = <<>>, !.queue = <<>>,
                      !.failed = TRUE, !.reconnecting = FALSE]
    BY <1>1 DEF Client
  <2> QED
    BY <1>1, <2>1 DEF FailCommands, Client
<1>2. CASE ~s.failed
  <2>1. PICK f \in [Commands -> Fates] :
           RejectAll(s) = [s EXCEPT !.fate = f, !.inFlight = <<>>, !.queue = <<>>]
    BY RejectAllIs
  <2> QED
    BY <1>2, <2>1 DEF FailCommands
<1> QED
  BY <1>1, <1>2 DEF Client

(* on_close ends the connection: it fails for good or arms the timer of the
   next attempt. *)
LEMMA OnCloseIs ==
    ASSUME NEW s \in Client, s.status = "Disconnected", s.socket = "closed", ~s.deferred,
           s.wire = <<>>, s.failed => ~s.reconnecting /\ s.queue = <<>> /\ s.inFlight = <<>>
    PROVE  /\ Over(s, OnClose(s)) /\ SamePlace(s, OnClose(s))
           /\ s.manual => OnClose(s).poll = Activity(OnClose(s))
<1> DEFINE t == [s EXCEPT !.flusher = FALSE, !.written = <<>>]
           u == [t EXCEPT !.retries = @ + 1]
           Failed(v) == OnValkeyClose(FailCommands(v))
           Again == OnValkeyReconnect(RejectInFlight([u EXCEPT !.reconnecting = TRUE, !.selecting = FALSE]))
<1>1. OnClose(s) = IF t.manual \/ t.failed \/ ~t.autoReconnect THEN Failed(t)
                   ELSE IF u.retries > MaxRetries THEN Failed(u) ELSE Again
  BY DEF OnClose
<1>2. t \in Client /\ u \in Client
  <2>1. t \in Client
    BY Empty DEF Client
  <2>2. t.retries + 1 \in Nat
    BY DEF Client
  <2> QED
    BY <2>1, <2>2, ZenonT(40) DEF Client
<1>3. /\ t.manual = s.manual /\ t.failed = s.failed
      /\ \A v \in {t, u} : /\ v.status = "Disconnected" /\ v.socket = "closed" /\ ~v.deferred
                           /\ v.wire = <<>> /\ v.written = <<>> /\ v.sent = s.sent
                           /\ v.failed = s.failed /\ v.reconnecting = s.reconnecting
                           /\ v.queue = s.queue /\ v.inFlight = s.inFlight
                           /\ v.in = s.in /\ v.replies = s.replies /\ v.same = s.same
  BY DEF Client
<1> HIDE DEF t, u
<1>4. ASSUME NEW v \in {t, u}
      PROVE  Over(s, Failed(v)) /\ SamePlace(s, Failed(v)) /\ Failed(v).poll = Activity(Failed(v))
  <2>1. v \in Client
    BY <1>2
  <2>2. PICK f \in [Commands -> Fates] :
           FailCommands(v) = [v EXCEPT !.fate = f, !.inFlight = <<>>, !.queue = <<>>,
                                       !.failed = TRUE, !.reconnecting = FALSE]
    BY <1>3, <2>1, FailCommandsIs, ZenonT(40)
  <2> DEFINE w == [FailCommands(v) EXCEPT !.timer = FALSE, !.promise = FALSE]
  <2>a. w \in Client
    <3>1. PICK a : a = [v EXCEPT !.fate = f, !.inFlight = <<>>, !.queue = <<>>]
      OBVIOUS
    <3>2. a \in Client
      BY <2>1, <3>1, Empty DEF Client
    <3>3. FailCommands(v) = [a EXCEPT !.failed = TRUE, !.reconnecting = FALSE]
      BY <2>2, <3>1
    <3>4. FailCommands(v) \in Client
      BY <3>2, <3>3, ZenonT(40) DEF Client
    <3> QED
      BY <3>4 DEF Client
  <2>3. /\ w.status = "Disconnected" /\ w.socket = "closed" /\ ~w.deferred /\ ~w.timer
        /\ w.wire = <<>> /\ w.written = <<>> /\ w.inFlight = <<>>
        /\ w.sent = s.sent /\ ~w.reconnecting /\ w.failed /\ w.queue = <<>>
        /\ SamePlace(s, w)
    BY <1>3, <2>1, <2>2 DEF Client, SamePlace
  <2>4. Failed(v) = UpdatePollRef(w)
    BY DEF OnValkeyClose
  <2> HIDE DEF w, Failed
  <2>5. Over(s, UpdatePollRef(w))
    BY <2>a, <2>3 DEF Over, UpdatePollRef, Activity, Client
  <2> QED
    BY <2>a, <2>3, <2>4, <2>5, PollRefIs DEF SamePlace
<1>5. ASSUME ~s.failed
      PROVE  Over(s, Again) /\ SamePlace(s, Again)
  <2> DEFINE w == [u EXCEPT !.reconnecting = TRUE, !.selecting = FALSE]
  <2>a. w \in Client
    BY <1>2, ZenonT(40) DEF Client
  <2>1. w \in Client /\ ~w.failed /\ w.reconnecting /\ w.queue = s.queue /\ w.sent = s.sent
        /\ w.status = "Disconnected" /\ w.socket = "closed" /\ ~w.deferred
        /\ w.wire = <<>> /\ w.written = <<>> /\ SamePlace(s, w)
    BY <1>2, <1>3, <1>5, <2>a DEF Client, SamePlace
  <2> HIDE DEF w
  <2>2. PICK f \in [Commands -> Fates] : RejectInFlight(w) = [w EXCEPT !.fate = f, !.inFlight = <<>>]
    BY <2>1, RejectInFlightIs
  <2>3. Again = [[w EXCEPT !.fate = f, !.inFlight = <<>>] EXCEPT !.timer = FALSE, !.retryTimer = TRUE]
    BY <2>2 DEF OnValkeyReconnect, w
  <2> HIDE DEF Again
  <2>4. Again \in Client
    BY <2>1, <2>3, Empty, ZenonT(40) DEF Client
  <2>5. SamePlace(s, Again)
    BY <2>1, <2>3 DEF SamePlace, Client
  <2> QED
    BY <2>1, <2>3, <2>4, <2>5 DEF Over, Client
<1> HIDE DEF Again, Failed
<1> QED
  BY <1>1, <1>3, <1>4, <1>5

(* r is s but for what Fits does not look at. *)
Alike(s, r) ==
    /\ r \in Client
    /\ r.status = s.status /\ r.socket = s.socket /\ r.selecting = s.selecting
    /\ r.reconnecting = s.reconnecting /\ r.failed = s.failed /\ r.queue = s.queue
    /\ r.inFlight = s.inFlight /\ r.written = s.written /\ r.wire = s.wire
    /\ r.timer = s.timer /\ r.retryTimer = s.retryTimer /\ r.deferred = s.deferred
    /\ r.sent = s.sent /\ r.replies = s.replies /\ r.same = s.same

(* What the invariant does not look at may change. *)
LEMMA AlikeFits ==
    ASSUME NEW s, NEW r, Fits(s), Alike(s, r)
    PROVE  Fits(r) /\ Activity(r) = Activity(s) /\ ConnectionReady(r) = ConnectionReady(s)
<1>1. StatusFits(r)
  BY DEF Alike, Fits, StatusFits
<1>2. WireFits(r)
  BY DEF Alike, Fits, WireFits, Outstanding, Handshake
<1>3. OrderFits(r)
  BY DEF Alike, Fits, OrderFits
<1>4. Activity(r) = Activity(s) /\ ConnectionReady(r) = ConnectionReady(s)
  BY DEF Alike, Activity, ConnectionReady
<1> QED
  BY <1>1, <1>2, <1>3, <1>4 DEF Alike, Fits

(* update_poll_ref keeps the invariant. *)
LEMMA PollRefFits ==
    ASSUME NEW s, Fits(s)
    PROVE  /\ Fits(UpdatePollRef(s)) /\ Alike(s, UpdatePollRef(s))
           /\ UpdatePollRef(s).poll = Activity(UpdatePollRef(s))
           /\ UpdatePollRef(s).in = s.in /\ UpdatePollRef(s).flusher = s.flusher
<1>0. s \in Client
  BY DEF Fits
<1>1. Alike(s, UpdatePollRef(s))
  BY <1>0 DEF Alike, UpdatePollRef, Client, Activity
<1>2. /\ UpdatePollRef(s).in = s.in /\ UpdatePollRef(s).flusher = s.flusher
      /\ UpdatePollRef(s).poll = Activity(s)
  BY <1>0 DEF UpdatePollRef, Client
<1> QED
  BY <1>1, <1>2, AlikeFits

(* r is s when the socket handler's on_close has run. *)
Shut(s, r) ==
    /\ Fits(r) /\ r.in = s.in /\ r.replies = s.replies /\ ~r.same
    /\ r.status = "Disconnected" /\ r.socket = "closed" /\ r.poll = Activity(r)

(* The socket handler's on_close leaves no connection. *)
LEMMA SocketClosedIs ==
    ASSUME NEW s \in Client, OrderFits(s), ~s.deferred,
           s.failed => ~s.reconnecting /\ s.queue = <<>> /\ s.inFlight = <<>>
    PROVE  Shut(s, SocketClosed(s))
<1>1. PICK t : t = [s EXCEPT !.socket = "closed", !.wire = <<>>, !.same = FALSE,
                             !.status = "Disconnected"]
  OBVIOUS
<1>2. t \in Client
  BY <1>1, Empty DEF Client
<1>3. /\ t.status = "Disconnected" /\ t.socket = "closed" /\ ~t.deferred /\ t.wire = <<>>
      /\ t.failed = s.failed /\ t.reconnecting = s.reconnecting /\ t.sent = s.sent
      /\ t.queue = s.queue /\ t.inFlight = s.inFlight
      /\ t.in = s.in /\ t.replies = s.replies /\ ~t.same
  BY <1>1 DEF Client
<1>4. OrderFits(t)
  BY <1>3 DEF OrderFits
<1>5. PICK u : u = OnClose(t)
  OBVIOUS
<1>6. Over(t, u) /\ SamePlace(t, u)
  BY <1>2, <1>3, <1>5, OnCloseIs
<1>7. Fits(u)
  BY <1>2, <1>4, <1>6, OverFits
<1>8. SocketClosed(s) = UpdatePollRef(u)
  BY <1>1, <1>5 DEF SocketClosed
<1> QED
  BY <1>3, <1>6, <1>7, <1>8, PollRefFits DEF Shut, Alike, SamePlace, Over

(* fail on an open or dialling socket rejects all and closes it. *)
LEMMA FailIs ==
    ASSUME NEW s \in Client, OrderFits(s), ~s.deferred, ~s.failed, s.socket # "closed"
    PROVE  Shut(s, Fail(s))
<1>1. PICK f \in [Commands -> Fates] :
         FailCommands(s) = [s EXCEPT !.fate = f, !.inFlight = <<>>, !.queue = <<>>,
                                     !.failed = TRUE, !.reconnecting = FALSE]
  BY FailCommandsIs
<1>2. PICK t : t = FailCommands(s)
  OBVIOUS
<1>3. t \in Client
  <2>1. PICK a : a = [s EXCEPT !.fate = f, !.inFlight = <<>>, !.queue = <<>>]
    OBVIOUS
  <2>2. a \in Client
    BY <2>1, Empty DEF Client
  <2>3. t = [a EXCEPT !.failed = TRUE, !.reconnecting = FALSE]
    BY <1>1, <1>2, <2>1
  <2> QED
    BY <2>2, <2>3, ZenonT(40) DEF Client
<1>4. /\ t.failed /\ ~t.reconnecting /\ t.queue = <<>> /\ t.inFlight = <<>> /\ ~t.deferred
      /\ t.socket # "closed" /\ t.in = s.in /\ t.replies = s.replies /\ t.sent = s.sent
  BY <1>1, <1>2 DEF Client
<1>5. OrderFits(t)
  <2>1. t.sent \in Seq(Commands)
    BY <1>3 DEF Client
  <2>2. InOrder(t.inFlight \o t.queue, t.sent)
    BY <1>4, <2>1, OrderOfNone
  <2>3. 2..Len(t.inFlight) = {}
    BY <1>4
  <2> QED
    BY <2>2, <2>3 DEF OrderFits
<1>6. Shut(t, SocketClosed(t))
  BY <1>3, <1>4, <1>5, SocketClosedIs
<1>7. Fail(s) = SocketClosed(t)
  BY <1>2, <1>4 DEF Fail, Close
<1> QED
  BY <1>4, <1>6, <1>7 DEF Shut

(* Concatenation of requests is associative. *)
LEMMA Regroup ==
    ASSUME NEW a \in Seq(Requests), NEW b \in Seq(Requests), NEW d \in Seq(Requests)
    PROVE  (a \o b) \o d = a \o (b \o d)
  BY ConcatAssociative

(* Concatenation of commands is associative. *)
LEMMA RegroupCommands ==
    ASSUME NEW a \in Seq(Commands), NEW b \in Seq(Commands), NEW d \in Seq(Commands)
    PROVE  (a \o b) \o d = a \o (b \o d)
  BY ConcatAssociative

(* Commands are requests. *)
LEMMA RequestsOf ==
    ASSUME NEW b \in Seq(Commands)
    PROVE  b \in Seq(Requests)
  BY SeqMonotonic DEF Requests

(* flush_data moves what is written to the wire, in order, and keeps what is
   outstanding. *)
LEMMA FlushDataFits ==
    ASSUME NEW s, NEW takes, Fits(s)
    PROVE  LET r == FlushData(s, takes) IN
           /\ Fits(r) /\ SamePlace(s, r)
           /\ r.status = s.status /\ r.socket = s.socket /\ r.selecting = s.selecting
           /\ r.queue = s.queue /\ r.inFlight = s.inFlight /\ r.flusher = s.flusher
           /\ r.poll = s.poll
<1>1. CASE ~(takes /\ s.socket = "open")
  <2>1. FlushData(s, takes) = s
    BY <1>1 DEF FlushData
  <2> QED
    BY <2>1 DEF SamePlace
<1>2. CASE takes /\ s.socket = "open"
  <2>0. s \in Client
    BY DEF Fits
  <2>1. PICK r : r = [s EXCEPT !.wire = @ \o s.written, !.written = <<>>]
    OBVIOUS
  <2>2. r = FlushData(s, takes)
    BY <1>2, <2>1 DEF FlushData
  <2>3. /\ s.wire \in Seq(Requests) /\ s.written \in Seq(Requests)
        /\ s.replies \in Seq(Requests) /\ s.inFlight \in Seq(Commands)
    BY <2>0 DEF Client
  <2>4. s.wire \o s.written \in Seq(Requests)
    BY <2>3
  <2>5. r \in Client
    BY <2>0, <2>1, <2>4, Empty DEF Client
  <2>6. /\ r.wire = s.wire \o s.written /\ r.written = <<>>
        /\ r.status = s.status /\ r.socket = s.socket /\ r.selecting = s.selecting
        /\ r.reconnecting = s.reconnecting /\ r.failed = s.failed /\ r.queue = s.queue
        /\ r.inFlight = s.inFlight /\ r.flusher = s.flusher /\ r.poll = s.poll
        /\ r.timer = s.timer /\ r.retryTimer = s.retryTimer /\ r.deferred = s.deferred
        /\ r.sent = s.sent /\ r.replies = s.replies /\ r.same = s.same /\ r.in = s.in
    BY <2>0, <2>1 DEF Client
  <2>7. StatusFits(r)
    BY <2>6 DEF StatusFits, Fits
  <2>8. OrderFits(r)
    BY <2>6 DEF OrderFits, Fits
  <2>9. WireFits(r)
    <3>1. Outstanding(r) = Outstanding(s)
      <4>1. PICK a : a = IF s.same THEN s.replies ELSE <<>>
        OBVIOUS
      <4>2. a \in Seq(Requests)
        BY <2>3, <4>1, Empty
      <4>3. Outstanding(s) = (a \o s.wire) \o s.written
        BY <4>1 DEF Outstanding
      <4>4. Outstanding(r) = (a \o (s.wire \o s.written)) \o <<>>
        BY <2>6, <4>1 DEF Outstanding
      <4>5. a \o (s.wire \o s.written) \in Seq(Requests)
        BY <2>4, <4>2
      <4>6. Outstanding(r) = a \o (s.wire \o s.written)
        BY <4>4, <4>5, ConcatEmptySeq
      <4> QED
        BY <2>3, <4>2, <4>3, <4>6, Regroup
    <3>2. Handshake(r) = Handshake(s)
      BY <2>6 DEF Handshake
    <3>3. Len(r.written) <= Len(r.inFlight)
      BY <2>3, <2>6
    <3> QED
      BY <1>2, <2>6, <3>1, <3>2, <3>3 DEF WireFits, Fits
  <2> QED
    BY <2>2, <2>5, <2>6, <2>7, <2>8, <2>9 DEF Fits, SamePlace
<1> QED
  BY <1>1, <1>2

-----------------------------------------------------------------------------
(* The commands b at the head of the queue become in flight, as far as they
   support pipelining or are alone. *)
Moved(s, b, rest, t) ==
    /\ s.status = "Connected" /\ b \in Seq(Commands) /\ rest \in Seq(Commands)
    /\ s.queue = b \o rest
    /\ \A i \in 1..Len(b) : b[i] \in Pipelined \/ (s.inFlight = <<>> /\ i = 1)
    /\ t = [s EXCEPT !.queue = rest, !.inFlight = @ \o b, !.written = @ \o b]

(* Commands that go from the front of the queue to the end of in_flight are
   written in the same order, so replies still meet the commands they answer. *)
LEMMA MoveFits ==
    ASSUME NEW s, NEW b, NEW rest, NEW t, Fits(s), Moved(s, b, rest, t)
    PROVE  /\ Fits(t) /\ SamePlace(s, t)
           /\ t.status = s.status /\ t.socket = s.socket /\ t.selecting = s.selecting
           /\ t.queue = rest /\ t.inFlight = s.inFlight \o b /\ t.flusher = s.flusher
           /\ t.poll = s.poll
<1>0. s \in Client
  BY DEF Fits
<1>m. /\ s.status = "Connected" /\ b \in Seq(Commands) /\ rest \in Seq(Commands)
      /\ s.queue = b \o rest
      /\ \A i \in 1..Len(b) : b[i] \in Pipelined \/ (s.inFlight = <<>> /\ i = 1)
  BY DEF Moved
<1>1. /\ s.wire \in Seq(Requests) /\ s.written \in Seq(Requests)
      /\ s.replies \in Seq(Requests) /\ s.inFlight \in Seq(Commands)
  BY <1>0 DEF Client
<1>2. b \in Seq(Requests) /\ s.inFlight \in Seq(Requests)
  BY <1>m, <1>1, RequestsOf
<1>3. s.written \o b \in Seq(Requests) /\ s.inFlight \o b \in Seq(Commands)
  BY <1>m, <1>1, <1>2
<1>4. t \in Client
  BY <1>m, <1>0, <1>3 DEF Client, Moved
<1>5. /\ t.wire = s.wire /\ t.written = s.written \o b
      /\ t.status = s.status /\ t.socket = s.socket /\ t.selecting = s.selecting
      /\ t.reconnecting = s.reconnecting /\ t.failed = s.failed /\ t.queue = rest
      /\ t.inFlight = s.inFlight \o b /\ t.flusher = s.flusher /\ t.poll = s.poll
      /\ t.timer = s.timer /\ t.retryTimer = s.retryTimer /\ t.deferred = s.deferred
      /\ t.sent = s.sent /\ t.replies = s.replies /\ t.same = s.same /\ t.in = s.in
  BY <1>0 DEF Client, Moved
<1>6. StatusFits(t)
  BY <1>m, <1>5 DEF StatusFits, Fits
<1>7. OrderFits(t)
  <2>1. t.inFlight \o t.queue = s.inFlight \o s.queue
    <3>1. (s.inFlight \o b) \o rest = s.inFlight \o (b \o rest)
      BY ONLY <1>1, <1>m, RegroupCommands, Zenon
    <3> QED
      BY ONLY <1>5, <1>m, <3>1, Zenon
  <2>2. ASSUME NEW i \in 2..Len(t.inFlight) PROVE t.inFlight[i] \in Pipelined
    <3>0. /\ Len(s.inFlight) \in Nat /\ Len(b) \in Nat
          /\ Len(t.inFlight) = Len(s.inFlight) + Len(b)
      BY <1>m, <1>1, <1>5
    <3>1. CASE i <= Len(s.inFlight)
      <4>1. i \in 2..Len(s.inFlight)
        BY <3>0, <3>1
      <4>2. t.inFlight[i] = s.inFlight[i]
        BY <1>m, <1>1, <1>5, <4>1
      <4> QED
        BY <4>1, <4>2 DEF Fits, OrderFits
    <3>2. CASE ~(i <= Len(s.inFlight))
      <4>1. PICK j \in 1..Len(b) : i = Len(s.inFlight) + j
        <5>1. i - Len(s.inFlight) \in 1..Len(b)
          BY <3>0, <3>2
        <5>2. i = Len(s.inFlight) + (i - Len(s.inFlight))
          BY <3>0
        <5> QED
          BY ONLY <5>1, <5>2, Zenon
      <4>2. t.inFlight[i] = b[j]
        BY <1>m, <1>1, <1>5, <4>1
      <4>3. s.inFlight = <<>> => j # 1
        BY <4>1
      <4> QED
        BY <1>m, <4>1, <4>2, <4>3
    <3> QED
      BY <3>1, <3>2
  <2> QED
    BY <1>5, <2>1, <2>2 DEF OrderFits, Fits
<1>8. WireFits(t)
  <2>0. s.socket = "open"
    BY <1>m DEF Fits, StatusFits
  <2>1. PICK a : a = (IF s.same THEN s.replies ELSE <<>>) \o s.wire
    OBVIOUS
  <2>2. a \in Seq(Requests)
    BY <1>1, <2>1, Empty
  <2>3. Outstanding(s) = a \o s.written /\ Outstanding(t) = a \o (s.written \o b)
    BY <1>5, <2>1 DEF Outstanding
  <2>4. Handshake(t) = Handshake(s) /\ Handshake(s) \in Seq(Requests)
    <3>1. <<Select>> \in Seq(Requests) /\ <<>> \in Seq(Requests)
      BY DEF Requests
    <3> QED
      BY <1>m, <1>5, <3>1 DEF Handshake
  <2>5. Outstanding(s) = Handshake(s) \o s.inFlight
    BY <2>0 DEF Fits, WireFits
  <2>6. Outstanding(t) = (a \o s.written) \o b
    BY <1>1, <1>2, <2>2, <2>3, Regroup
  <2>7. Outstanding(t) = (Handshake(s) \o s.inFlight) \o b
    BY <2>3, <2>5, <2>6
  <2>8. Outstanding(t) = Handshake(s) \o (s.inFlight \o b)
    BY <1>2, <2>4, <2>7, Regroup
  <2>9. Len(t.written) <= Len(t.inFlight)
    <3>1. Len(s.written) <= Len(s.inFlight)
      BY <1>m DEF Fits, WireFits
    <3>2. /\ Len(t.written) = Len(s.written) + Len(b)
          /\ Len(t.inFlight) = Len(s.inFlight) + Len(b)
      BY <1>m, <1>1, <1>2, <1>5
    <3>3. Len(b) \in Nat /\ Len(s.written) \in Nat /\ Len(s.inFlight) \in Nat
      BY <1>m, <1>1
    <3> QED
      BY <3>1, <3>2, <3>3
  <2> QED
    BY <1>m, <1>5, <2>0, <2>4, <2>8, <2>9 DEF WireFits
<1> QED
  BY <1>m, <1>4, <1>5, <1>6, <1>7, <1>8 DEF Fits, SamePlace

(* The command k is accepted and waits at the end of the queue. *)
Accepted(s, k, t) ==
    /\ ~s.failed /\ s.status # "NeverConnected" /\ k \in Commands
    /\ \E f \in [Commands -> Fates] :
          t = [s EXCEPT !.fate = f, !.sent = Append(@, k), !.queue = Append(@, k)]

(* A command at the end of the queue keeps the call order. *)
LEMMA AppendFits ==
    ASSUME NEW s, NEW k, NEW t, Fits(s), Accepted(s, k, t)
    PROVE  /\ Fits(t) /\ SamePlace(s, t)
           /\ t.status = s.status /\ t.socket = s.socket /\ t.selecting = s.selecting
           /\ t.queue = Append(s.queue, k) /\ t.inFlight = s.inFlight /\ t.flusher = s.flusher
<1>0. s \in Client /\ ~s.failed /\ s.status # "NeverConnected" /\ k \in Commands
  BY DEF Fits, Accepted
<1>f. PICK f \in [Commands -> Fates] :
         t = [s EXCEPT !.fate = f, !.sent = Append(@, k), !.queue = Append(@, k)]
  BY DEF Accepted
<1>1. s.queue \in Seq(Commands) /\ s.sent \in Seq(Commands) /\ s.inFlight \in Seq(Commands)
  BY <1>0 DEF Client
<1>2. Append(s.queue, k) \in Seq(Commands) /\ Append(s.sent, k) \in Seq(Commands)
  BY <1>0, <1>1
<1>3. t \in Client
  BY <1>0, <1>f, <1>2 DEF Client
<1>4. /\ t.wire = s.wire /\ t.written = s.written
      /\ t.status = s.status /\ t.socket = s.socket /\ t.selecting = s.selecting
      /\ t.reconnecting = s.reconnecting /\ t.failed = s.failed /\ t.queue = Append(s.queue, k)
      /\ t.inFlight = s.inFlight /\ t.flusher = s.flusher
      /\ t.timer = s.timer /\ t.retryTimer = s.retryTimer /\ t.deferred = s.deferred
      /\ t.sent = Append(s.sent, k) /\ t.replies = s.replies /\ t.same = s.same /\ t.in = s.in
  BY <1>0, <1>f DEF Client
<1>5. StatusFits(t)
  BY <1>0, <1>4 DEF StatusFits, Fits
<1>6. WireFits(t)
  BY <1>4 DEF WireFits, Outstanding, Handshake, Fits
<1>7. OrderFits(t)
  <2>1. PICK p : p = s.inFlight \o s.queue
    OBVIOUS
  <2>2. p \in Seq(Commands) /\ InOrder(p, s.sent)
    BY <1>1, <2>1 DEF Fits, OrderFits
  <2>3. InOrder(Append(p, k), Append(s.sent, k))
    BY <1>0, <1>1, <2>2, OrderAppend
  <2>4. s.inFlight \o Append(s.queue, k) = Append(p, k)
    <3>1. Append(s.queue, k) = s.queue \o <<k>> /\ Append(p, k) = p \o <<k>>
      BY <1>0, <1>1, <2>2, AppendIsConcat
    <3>2. <<k>> \in Seq(Commands)
      BY <1>0
    <3>3. (s.inFlight \o s.queue) \o <<k>> = s.inFlight \o (s.queue \o <<k>>)
      BY <1>1, <3>2, RegroupCommands, Zenon
    <3> QED
      BY ONLY <2>1, <3>1, <3>3, Zenon
  <2> QED
    BY <1>4, <2>3, <2>4 DEF OrderFits, Fits
<1> QED
  BY <1>3, <1>4, <1>5, <1>6, <1>7 DEF Fits, SamePlace

(* A command that could go out has its flush coming. *)
Going(s) == ConnectionReady(s) /\ s.inFlight = <<>> /\ s.queue # <<>> => s.flusher

(* Registering or dropping the auto flusher keeps the invariant. *)
LEMMA FlusherFits ==
    ASSUME NEW s, Fits(s), NEW b \in BOOLEAN, NEW t, t = [s EXCEPT !.flusher = b]
    PROVE  /\ Fits(t) /\ Alike(s, t) /\ t.flusher = b /\ t.in = s.in /\ t.poll = s.poll
<1>0. s \in Client
  BY DEF Fits
<1>a. t \in Client
  BY <1>0, ZenonT(40) DEF Client
<1>1. t \in Client /\ t.flusher = b /\ t.in = s.in /\ t.poll = s.poll
  BY <1>0, <1>a DEF Client
<1>2. Alike(s, t)
  BY <1>0, <1>1 DEF Alike, Client
<1> QED
  BY <1>1, <1>2, AlikeFits

(* With nothing in flight drain sends the head of the queue, if there is one. *)
LEMMA DrainFits ==
    ASSUME NEW s, Fits(s), NEW takes, ConnectionReady(s), s.inFlight = <<>>
    PROVE  LET r == Drain(s, takes) IN
           /\ Fits(r) /\ SamePlace(s, r)
           /\ r.status = s.status /\ r.socket = s.socket /\ r.selecting = s.selecting
           /\ s.queue = <<>> => r = s
           /\ s.queue # <<>> => r.inFlight # <<>>
<1>1. CASE s.queue = <<>>
  <2>1. Drain(s, takes) = s
    BY <1>1 DEF Drain
  <2> QED
    BY <1>1, <2>1 DEF SamePlace
<1>2. CASE s.queue # <<>>
  <2>0. /\ s \in Client /\ s.queue \in Seq(Commands) /\ s.written \in Seq(Requests)
        /\ s.inFlight \in Seq(Commands)
    BY DEF Fits, Client
  <2>1. PICK k : k = Head(s.queue)
    OBVIOUS
  <2>2. k \in Commands /\ Tail(s.queue) \in Seq(Commands)
    BY <1>2, <2>0, <2>1
  <2>a. <<k>> \in Seq(Commands)
    BY <2>2
  <2>b. PICK b : b \in Seq(Commands) /\ b = <<k>>
    BY <2>a
  <2>3. PICK t : t = [s EXCEPT !.queue = Tail(@), !.inFlight = Append(@, k), !.written = Append(@, k)]
    OBVIOUS
  <2>4. t = [s EXCEPT !.queue = Tail(s.queue), !.inFlight = @ \o b, !.written = @ \o b]
    <3>1. Append(s.inFlight, k) = s.inFlight \o <<k>>
      BY <2>0, <2>2, AppendIsConcat
    <3>2. Append(s.written, k) = s.written \o <<k>>
      <4>1. k \in Requests
        BY <2>2 DEF Requests
      <4> QED
        BY <2>0, <4>1, AppendIsConcat
    <3> QED
      BY <2>b, <2>3, <3>1, <3>2
  <2>5. s.queue = b \o Tail(s.queue)
    BY <1>2, <2>0, <2>1, <2>b
  <2>6. \A i \in 1..Len(b) : b[i] \in Pipelined \/ (s.inFlight = <<>> /\ i = 1)
    BY <2>b
  <2>7. s.status = "Connected"
    BY DEF ConnectionReady
  <2>m. Moved(s, b, Tail(s.queue), t)
    BY <2>2, <2>b, <2>4, <2>5, <2>6, <2>7 DEF Moved
  <2>8. /\ Fits(t) /\ SamePlace(s, t)
        /\ t.status = s.status /\ t.socket = s.socket /\ t.selecting = s.selecting
        /\ t.inFlight = s.inFlight \o b
    <3>1. PICK rest : Moved(s, b, rest, t)
      BY <2>m, Zenon
    <3> QED
      BY ONLY Fits(s), <3>1, MoveFits
  <2>9. t.inFlight # <<>>
    BY <2>b, <2>8
  <2>10. Drain(s, takes) \in {t, FlushData(t, takes)}
    BY <1>2, <2>1, <2>3 DEF Drain
  <2>11. /\ Fits(FlushData(t, takes)) /\ SamePlace(t, FlushData(t, takes))
         /\ FlushData(t, takes).status = t.status /\ FlushData(t, takes).socket = t.socket
         /\ FlushData(t, takes).selecting = t.selecting
         /\ FlushData(t, takes).inFlight = t.inFlight
    BY <2>8, FlushDataFits
  <2> QED
    BY <1>2, <2>8, <2>9, <2>10, <2>11 DEF SamePlace
<1> QED
  BY <1>1, <1>2

(* send_next_command drains or has a flush registered: a command that could go
   out is not forgotten. *)
LEMMA SendNextCommandFits ==
    ASSUME NEW s, Fits(s), NEW takes
    PROVE  LET r == SendNextCommand(s, takes) IN
           /\ Fits(r) /\ SamePlace(s, r) /\ Going(r)
           /\ r.status = s.status /\ r.socket = s.socket /\ r.selecting = s.selecting
<1> DEFINE Good(r) == /\ Fits(r) /\ SamePlace(s, r) /\ Going(r)
                      /\ r.status = s.status /\ r.socket = s.socket /\ r.selecting = s.selecting
<1>0. s \in Client /\ s.flusher \in BOOLEAN
  BY DEF Fits, Client
<1>1. PICK next : next = IF s.written # <<>> \/ ~ConnectionReady(s) THEN s
                         ELSE IF Supports(s) THEN [s EXCEPT !.flusher = TRUE]
                         ELSE IF s.inFlight # <<>> THEN s
                         ELSE LET t == Drain(s, takes) IN [t EXCEPT !.flusher = @ \/ Supports(t)]
  OBVIOUS
<1>2. SendNextCommand(s, takes) = FlushData(next, takes)
  BY <1>1 DEF SendNextCommand
<1>3. Good(next)
  <2>1. CASE s.written # <<>> \/ ~ConnectionReady(s) \/ (~Supports(s) /\ s.inFlight # <<>>)
    <3>2. next = s
      BY <1>1, <2>1
    <3>3. ConnectionReady(s) => s.inFlight # <<>>
      <4>1. SUFFICES ASSUME ConnectionReady(s), s.written # <<>> PROVE s.inFlight # <<>>
        BY <2>1
      <4>2. Len(s.written) <= Len(s.inFlight)
        BY <4>1 DEF ConnectionReady, Fits, WireFits
      <4>3. s.written \in Seq(Requests) /\ s.inFlight \in Seq(Commands)
        BY <1>0 DEF Client
      <4> QED
        BY <4>1, <4>2, <4>3
    <3> QED
      BY <3>2, <3>3 DEF Going, SamePlace
  <2>2. CASE ~(s.written # <<>> \/ ~ConnectionReady(s)) /\ Supports(s)
    <3>1. next = [s EXCEPT !.flusher = TRUE]
      BY <1>1, <2>2
    <3> QED
      BY <3>1, FlusherFits, ZenonT(40) DEF Going, SamePlace, Alike
  <2>3. CASE ~(s.written # <<>> \/ ~ConnectionReady(s)) /\ ~Supports(s) /\ s.inFlight = <<>>
    <3>1. PICK t : t = Drain(s, takes)
      OBVIOUS
    <3>2. /\ Fits(t) /\ SamePlace(s, t)
          /\ t.status = s.status /\ t.socket = s.socket /\ t.selecting = s.selecting
          /\ s.queue = <<>> => t = s
          /\ s.queue # <<>> => t.inFlight # <<>>
      BY <2>3, <3>1, DrainFits
    <3>3. PICK b \in BOOLEAN : b = (t.flusher \/ Supports(t))
      OBVIOUS
    <3>4. next = [t EXCEPT !.flusher = b]
      BY <1>1, <2>3, <3>1, <3>3
    <3>5. Fits(next) /\ Alike(t, next) /\ next.in = t.in
      BY <3>2, <3>4, FlusherFits
    <3> QED
      BY <3>2, <3>5 DEF Going, SamePlace, Alike
  <2> QED
    BY <2>1, <2>2, <2>3
<1> QED
  BY <1>2, <1>3, FlushDataFits DEF Going, SamePlace, ConnectionReady

-----------------------------------------------------------------------------
(* What dialling needs: no connection, and none failed for good. *)
Idle(s) ==
    /\ s \in Client /\ OrderFits(s)
    /\ s.socket = "closed" /\ ~s.deferred /\ ~s.timer /\ ~s.failed
    /\ s.wire = <<>> /\ s.written = <<>> /\ s.inFlight = <<>>

(* A dial that starts waits for its socket; one that cannot start is deferred. *)
LEMMA DialIs ==
    ASSUME NEW s, Idle(s), NEW ok
    PROVE  LET r == Dial(s, ok) IN
           /\ Fits(r) /\ SamePlace(s, r) /\ r.status = "Connecting" /\ r.socket # "open"
           /\ r.poll = Activity(r) /\ ~r.failed
<1>0. s \in Client
  BY DEF Idle
<1> DEFINE Good(r) == /\ Fits(r) /\ SamePlace(s, r) /\ r.status = "Connecting"
                      /\ r.socket # "open" /\ r.poll = Activity(r) /\ ~r.failed
<1>1. CASE ok
  <2>1. PICK t : t = [s EXCEPT !.status = "Connecting", !.socket = "dialing"]
    OBVIOUS
  <2>2. t \in Client
    BY <1>0, <2>1 DEF Client
  <2>3. PICK u : u = UpdatePollRef(t)
    OBVIOUS
  <2>4. u \in Client /\ u.poll
    BY <2>1, <2>2, <2>3, <1>0, ZenonT(40) DEF UpdatePollRef, Activity, Client
  <2>5. PICK b \in BOOLEAN : b = (~u.failed /\ (u.status = "Connected" => IdleTimeout))
    OBVIOUS
  <2>6. PICK r : r = [u EXCEPT !.timer = b]
    OBVIOUS
  <2>7. r = Dial(s, ok)
    <3>1. t = [[s EXCEPT !.status = "Connecting"] EXCEPT !.socket = "dialing"]
      BY <2>1
    <3> QED
      BY <1>1, <2>3, <2>5, <2>6, <3>1 DEF Dial, ResetConnectionTimeout
  <2>8. r \in Client
    BY <2>4, <2>6 DEF Client
  <2>9. /\ r.status = "Connecting" /\ r.socket = "dialing" /\ ~r.deferred /\ ~r.failed
        /\ r.wire = <<>> /\ r.written = <<>> /\ r.inFlight = <<>> /\ r.poll
        /\ r.queue = s.queue /\ r.sent = s.sent /\ SamePlace(s, r)
    BY <1>0, <2>1, <2>3, <2>4, <2>6 DEF UpdatePollRef, Client, Idle, SamePlace
  <2>10. StatusFits(r) /\ WireFits(r)
    BY <2>9 DEF StatusFits, WireFits
  <2>11. OrderFits(r)
    BY <2>9 DEF OrderFits, Idle
  <2>12. r.poll = Activity(r)
    BY <2>8, <2>9 DEF Activity, Client
  <2> QED
    BY <2>7, <2>8, <2>9, <2>10, <2>11, <2>12 DEF Fits
<1>2. CASE ~ok
  <2>1. PICK t : t = [s EXCEPT !.status = "Connecting", !.deferred = TRUE]
    OBVIOUS
  <2>2. t \in Client
    BY <1>0, <2>1 DEF Client
  <2>3. UpdatePollRef(t) = Dial(s, ok)
    <3>1. t = [[s EXCEPT !.status = "Connecting"] EXCEPT !.deferred = TRUE]
      BY <2>1
    <3> QED
      BY <1>2, <3>1 DEF Dial
  <2>4. /\ t.status = "Connecting" /\ t.socket = "closed" /\ t.deferred /\ ~t.failed /\ ~t.timer
        /\ t.wire = <<>> /\ t.written = <<>> /\ t.inFlight = <<>>
        /\ t.queue = s.queue /\ t.sent = s.sent /\ SamePlace(s, t)
    BY <1>0, <2>1 DEF Client, Idle, SamePlace
  <2>5. StatusFits(t) /\ WireFits(t)
    BY <2>4 DEF StatusFits, WireFits
  <2>6. OrderFits(t)
    BY <2>4 DEF OrderFits, Idle
  <2>7. Fits(t)
    BY <2>2, <2>5, <2>6 DEF Fits
  <2> QED
    BY <2>3, <2>4, <2>7, PollRefFits DEF Alike, SamePlace
<1> QED
  BY <1>1, <1>2

(* What a callback or a call of a script, other than the handling of a reply,
   has to leave behind. *)
LEMMA KeepsInv ==
    ASSUME NEW s, NEW r, ClientInv(s), s.in # "reply", Fits(r), SamePlace(s, r),
           r.socket = "open" <=> s.socket = "open",
           r.in = "loop" => r.poll = Activity(r) /\ Going(r)
    PROVE  ClientInv(r)
<1>1. DataFits(r)
  BY DEF ClientInv, DataFits, SamePlace
<1>2. LoopFits(r)
  BY DEF LoopFits, Going
<1> QED
  BY <1>1, <1>2 DEF ClientInv

(* The invariant holds of a client whose socket has been closed. *)
LEMMA ShutInv ==
    ASSUME NEW s, NEW r, ClientInv(s), s.in # "reply", Shut(s, r)
    PROVE  ClientInv(r)
<1>1. DataFits(r)
  BY DEF ClientInv, DataFits, Shut
<1>2. LoopFits(r)
  BY DEF LoopFits, Shut, ConnectionReady
<1> QED
  BY <1>1, <1>2 DEF ClientInv, Shut

(* What the invariant says that most cases use. *)
LEMMA InvFacts ==
    ASSUME NEW s, ClientInv(s)
    PROVE  /\ s \in Client /\ Fits(s) /\ OrderFits(s)
           /\ s.socket # "closed" => ~s.deferred /\ ~s.failed
           /\ s.failed => ~s.reconnecting /\ s.queue = <<>> /\ s.inFlight = <<>>
           /\ s.socket = "closed" => /\ ~s.timer /\ s.wire = <<>> /\ s.written = <<>>
                                     /\ s.inFlight = <<>>
           /\ s.in = "loop" => s.poll = Activity(s) /\ Going(s)
<1>1. Fits(s) /\ s \in Client /\ OrderFits(s) /\ StatusFits(s) /\ WireFits(s) /\ LoopFits(s)
  BY DEF ClientInv, Fits
<1>2. s.socket # "closed" => ~s.deferred /\ ~s.failed
  BY <1>1 DEF StatusFits, Client
<1>3. s.socket = "closed" => /\ ~s.timer /\ s.wire = <<>> /\ s.written = <<>>
                             /\ s.inFlight = <<>>
  BY <1>1 DEF StatusFits, WireFits
<1>4. s.failed => ~s.reconnecting /\ s.queue = <<>> /\ s.inFlight = <<>>
  BY <1>1, <1>2, <1>3 DEF StatusFits
<1> QED
  BY <1>1, <1>2, <1>3, <1>4 DEF LoopFits, Going

(* The retry timer dials again, or finds that it need not. *)
LEMMA RetryInv ==
    ASSUME NEW s, ClientInv(s), s.in = "loop", s.retryTimer, NEW ok
    PROVE  ClientInv(Reconnect(s, ok))
<1>0. s \in Client /\ Fits(s)
  BY InvFacts
<1>1. PICK t : t = [s EXCEPT !.retryTimer = FALSE]
  OBVIOUS
<1>2. t \in Client
  BY <1>0, <1>1 DEF Client
<1>3. /\ t.status = s.status /\ t.socket = s.socket /\ t.selecting = s.selecting
      /\ t.reconnecting = s.reconnecting /\ t.failed = s.failed /\ t.queue = s.queue
      /\ t.inFlight = s.inFlight /\ t.written = s.written /\ t.wire = s.wire
      /\ t.timer = s.timer /\ t.deferred = s.deferred /\ t.flusher = s.flusher
      /\ t.sent = s.sent /\ t.poll = s.poll /\ SamePlace(s, t)
  BY <1>0, <1>1 DEF Client, SamePlace
<1>4. CASE t.reconnecting /\ t.status = "Disconnected" /\ t.socket = "closed"
  <2>1. PICK u : u = [t EXCEPT !.poll = TRUE]
    OBVIOUS
  <2>2. /\ u \in Client /\ u.socket = t.socket /\ u.deferred = t.deferred /\ u.timer = t.timer
        /\ u.failed = t.failed /\ u.wire = t.wire /\ u.written = t.written
        /\ u.inFlight = t.inFlight /\ u.queue = t.queue /\ u.sent = t.sent /\ SamePlace(t, u)
    BY <1>2, <2>1 DEF Client, SamePlace
  <2>3. OrderFits(u)
    BY <1>0, <1>3, <2>2 DEF OrderFits, Fits
  <2>4. ~s.deferred /\ ~s.failed
    BY <1>0, <1>3, <1>4 DEF Fits, StatusFits
  <2>5. Idle(u)
    BY <1>3, <1>4, <2>2, <2>3, <2>4, InvFacts DEF Idle
  <2>6. Reconnect(s, ok) = Dial(u, ok)
    BY <1>1, <1>4, <2>1 DEF Reconnect
  <2>7. PICK r : r = Dial(u, ok)
    OBVIOUS
  <2>8. /\ Fits(r) /\ SamePlace(u, r) /\ r.status = "Connecting" /\ r.socket # "open"
        /\ r.poll = Activity(r)
    BY <2>5, <2>7, DialIs
  <2>9. SamePlace(s, r) /\ Going(r) /\ s.socket # "open"
    BY <1>3, <1>4, <2>2, <2>8 DEF SamePlace, Going, ConnectionReady
  <2> QED
    BY <2>6, <2>7, <2>8, <2>9, KeepsInv
<1>5. CASE ~(t.reconnecting /\ t.status = "Disconnected" /\ t.socket = "closed")
  <2>1. Reconnect(s, ok) = t
    BY <1>1, <1>5 DEF Reconnect
  <2>2. StatusFits(t)
    BY <1>0, <1>3, <1>5 DEF StatusFits, Fits
  <2>3. WireFits(t) /\ OrderFits(t)
    BY <1>0, <1>3, ZenonT(40) DEF WireFits, OrderFits, Fits, Outstanding, Handshake, SamePlace
  <2>4. Fits(t)
    BY <1>2, <2>2, <2>3 DEF Fits
  <2>5. t.poll = Activity(t) /\ Going(t)
    BY <1>3, InvFacts DEF Activity, Going, ConnectionReady
  <2> QED
    BY <1>3, <2>1, <2>4, <2>5, KeepsInv
<1> QED
  BY <1>4, <1>5

(* connect called by a script. *)
LEMMA ConnectInv ==
    ASSUME NEW s, ClientInv(s), s.in # "reply", NEW ok
    PROVE  ClientInv(DoConnect(s, ok))
<1>0. s \in Client /\ Fits(s)
  BY InvFacts
<1>1. CASE s.status = "Connected" \/ s.promise
  BY <1>1 DEF DoConnect
<1>2. CASE ~(s.status = "Connected" \/ s.promise)
  <2>1. PICK t : t = [s EXCEPT !.promise = TRUE, !.manual = FALSE, !.failed = FALSE]
    OBVIOUS
  <2>2. t \in Client
    BY <1>0, <2>1 DEF Client
  <2>3. /\ t.status = s.status /\ t.socket = s.socket /\ t.selecting = s.selecting
        /\ t.reconnecting = s.reconnecting /\ ~t.failed /\ t.queue = s.queue
        /\ t.inFlight = s.inFlight /\ t.written = s.written /\ t.wire = s.wire
        /\ t.timer = s.timer /\ t.retryTimer = s.retryTimer /\ t.deferred = s.deferred
        /\ t.sent = s.sent /\ SamePlace(s, t)
    BY <1>0, <2>1 DEF Client, SamePlace
  <2>4. OrderFits(t)
    BY <1>0, <2>3 DEF OrderFits, Fits
  <2>5. ASSUME NEW u, Idle(u), SamePlace(s, u), s.socket = "closed",
               DoConnect(s, ok) = UpdatePollRef(Dial(u, ok))
        PROVE  ClientInv(DoConnect(s, ok))
    <3>1. PICK d : d = Dial(u, ok)
      OBVIOUS
    <3>2. /\ Fits(d) /\ SamePlace(u, d) /\ d.status = "Connecting" /\ d.socket # "open"
      BY <2>5, <3>1, DialIs
    <3>3. PICK r : r = UpdatePollRef(d)
      OBVIOUS
    <3>4. Fits(r) /\ Alike(d, r) /\ r.poll = Activity(r) /\ r.in = d.in
      BY <3>2, <3>3, PollRefFits
    <3>5. SamePlace(s, r) /\ Going(r) /\ r.socket # "open"
      BY <2>5, <3>2, <3>4 DEF SamePlace, Going, ConnectionReady, Alike
    <3> QED
      BY <2>5, <3>1, <3>3, <3>4, <3>5, KeepsInv
  <2>6. CASE s.status = "NeverConnected"
    <3>1. s.socket = "closed" /\ ~s.deferred
      BY <1>0, <2>6 DEF Fits, StatusFits
    <3>2. Idle(t)
      BY <2>2, <2>3, <2>4, <3>1, InvFacts DEF Idle
    <3>3. DoConnect(s, ok) = UpdatePollRef(Dial(t, ok))
      BY <1>2, <2>1, <2>3, <2>6 DEF DoConnect
    <3> QED
      BY <2>3, <2>5, <3>1, <3>2, <3>3
  <2>7. CASE s.status = "Disconnected"
    <3>1. s.socket = "closed" /\ ~s.deferred
      BY <1>0, <2>7 DEF Fits, StatusFits
    <3>2. PICK u : u = [[[t EXCEPT !.reconnecting = TRUE, !.retries = 0]
                         EXCEPT !.retryTimer = FALSE] EXCEPT !.poll = TRUE]
      OBVIOUS
    <3>3. u \in Client /\ SamePlace(t, u) /\ u.socket = t.socket /\ u.deferred = t.deferred
          /\ u.timer = t.timer /\ u.failed = t.failed /\ u.wire = t.wire
          /\ u.written = t.written /\ u.inFlight = t.inFlight /\ u.queue = t.queue
          /\ u.sent = t.sent /\ u.status = t.status /\ u.reconnecting
      BY <2>2, <3>2 DEF Client, SamePlace
    <3>4. OrderFits(u)
      BY <2>4, <3>3 DEF OrderFits
    <3>5. Idle(u)
      BY <2>3, <3>1, <3>3, <3>4, InvFacts DEF Idle
    <3>6. DoConnect(s, ok) = UpdatePollRef(Dial(u, ok))
      <4>1. PICK w : w = [t EXCEPT !.reconnecting = TRUE, !.retries = 0]
        OBVIOUS
      <4>2. PICK v : v = [w EXCEPT !.retryTimer = FALSE]
        OBVIOUS
      <4>3. v.reconnecting /\ v.status = "Disconnected" /\ v.socket = "closed"
        BY <2>2, <2>3, <2>7, <3>1, <4>1, <4>2 DEF Client
      <4>4. u = [v EXCEPT !.poll = TRUE]
        BY <3>2, <4>1, <4>2
      <4>5. Reconnect(w, ok) = Dial(u, ok)
        BY <4>2, <4>3, <4>4 DEF Reconnect
      <4> QED
        BY <1>2, <2>1, <2>3, <2>7, <4>1, <4>5 DEF DoConnect
    <3>7. SamePlace(s, u)
      BY <2>3, <3>3 DEF SamePlace
    <3> QED
      BY <2>5, <3>1, <3>5, <3>6, <3>7
  <2>8. CASE s.status = "Connecting"
    <3>1. ~s.failed
      BY <1>0, <2>8 DEF Fits, StatusFits
    <3>2. Alike(s, t)
      BY <1>0, <2>2, <2>3, <3>1 DEF Alike, SamePlace, Client
    <3>3. DoConnect(s, ok) = UpdatePollRef(t)
      BY <1>2, <2>1, <2>3, <2>8 DEF DoConnect
    <3>4. PICK r : r = UpdatePollRef(t)
      OBVIOUS
    <3>5. Fits(r) /\ Alike(t, r) /\ r.poll = Activity(r) /\ r.in = t.in
      BY <1>0, <3>2, <3>4, AlikeFits, PollRefFits
    <3>6. SamePlace(s, r) /\ Going(r) /\ r.socket = s.socket
      BY <2>3, <2>8, <3>2, <3>5 DEF SamePlace, Going, ConnectionReady, Alike
    <3> QED
      BY <3>3, <3>4, <3>5, <3>6, KeepsInv
  <2> QED
    BY <1>0, <1>2, <2>6, <2>7, <2>8 DEF Client
<1> QED
  BY <1>1, <1>2

(* The socket is closed under the client. *)
LEMMA ClosedInv ==
    ASSUME NEW s, ClientInv(s), s.in # "reply", s.socket # "closed"
    PROVE  ClientInv(SocketClosed(s))
  BY InvFacts, SocketClosedIs, ShutInv

(* close called by a script, in whatever state the connection is. *)
LEMMA DisconnectInv ==
    ASSUME NEW s, ClientInv(s), s.in # "reply"
    PROVE  ClientInv(Disconnect(s))
<1>0. s \in Client /\ Fits(s)
  BY InvFacts
<1>1. PICK t : t = [s EXCEPT !.manual = TRUE, !.flusher = FALSE]
  OBVIOUS
<1>2. /\ t \in Client /\ t.manual /\ t.poll = s.poll /\ SamePlace(s, t)
      /\ t.reconnecting = s.reconnecting
  BY <1>0, <1>1 DEF Client, SamePlace
<1>3. Alike(s, t)
  BY <1>0, <1>1, <1>2 DEF Alike, Client
<1>4. Fits(t) /\ Activity(t) = Activity(s) /\ ConnectionReady(t) = ConnectionReady(s)
  BY <1>0, <1>3, AlikeFits
<1>5. CASE s.status = "NeverConnected" \/ (s.status = "Disconnected" /\ ~s.reconnecting)
  BY <1>5 DEF Disconnect
<1>6. CASE s.status = "Disconnected" /\ s.reconnecting
  <2>1. PICK u : u = [t EXCEPT !.retryTimer = FALSE]
    OBVIOUS
  <2>2. /\ u \in Client /\ u.manual /\ SamePlace(t, u) /\ u.status = t.status
        /\ u.socket = t.socket /\ u.deferred = t.deferred /\ u.wire = t.wire
        /\ u.failed = t.failed /\ u.reconnecting = t.reconnecting /\ u.queue = t.queue
        /\ u.inFlight = t.inFlight /\ u.sent = t.sent
    BY <1>2, <2>1 DEF Client, SamePlace
  <2>3. s.socket = "closed" /\ ~s.deferred /\ ~s.failed
    BY <1>0, <1>6 DEF Fits, StatusFits
  <2>4. PICK r : r = OnClose(u)
    OBVIOUS
  <2>5. u.status = "Disconnected" /\ u.socket = "closed" /\ ~u.deferred /\ u.wire = <<>> /\ ~u.failed
    BY <1>3, <1>6, <2>2, <2>3, InvFacts DEF Alike
  <2>6. Over(u, r) /\ SamePlace(u, r) /\ r.poll = Activity(r)
    BY <2>2, <2>4, <2>5, OnCloseIs
  <2>7. OrderFits(u)
    BY <1>4, <2>2 DEF OrderFits, Fits
  <2>8. Fits(r)
    BY <2>2, <2>6, <2>7, OverFits
  <2>9. SamePlace(s, r) /\ Going(r) /\ r.socket = "closed"
    BY <1>2, <2>2, <2>6 DEF SamePlace, Going, Over, ConnectionReady
  <2>10. Disconnect(s) = r
    BY <1>1, <1>6, <2>1, <2>4 DEF Disconnect
  <2> QED
    BY <2>3, <2>6, <2>8, <2>9, <2>10, KeepsInv
<1>7. CASE ~(s.status = "NeverConnected" \/ s.status = "Disconnected")
  <2>1. Disconnect(s) = Close(t)
    BY <1>1, <1>7 DEF Disconnect
  <2>2. CASE s.socket = "closed"
    <3>1. Close(t) = t
      BY <1>3, <2>2 DEF Close, Alike
    <3>2. s.status = "Connecting"
      BY <1>0, <1>7, <2>2 DEF Fits, StatusFits, Client
    <3>3. Going(t)
      BY <1>3, <3>2 DEF Going, ConnectionReady, Alike
    <3>4. t.in = "loop" => t.poll = Activity(t) /\ Going(t)
      BY <1>2, <1>4, <3>3, InvFacts DEF SamePlace
    <3>5. t.socket = s.socket
      BY <1>3 DEF Alike
    <3> QED
      BY <1>2, <1>4, <2>1, <3>1, <3>4, <3>5, KeepsInv
  <2>3. CASE s.socket # "closed"
    <3>1. Close(t) = SocketClosed(t)
      BY <1>3, <2>3 DEF Close, Alike
    <3>2. ~t.deferred /\ ~t.failed /\ OrderFits(t)
      BY <1>3, <1>4, <2>3, InvFacts DEF Alike, Fits
    <3>3. Shut(t, SocketClosed(t))
      BY <1>2, <3>2, SocketClosedIs
    <3>4. Shut(s, SocketClosed(t))
      BY <1>2, <3>3 DEF Shut, SamePlace
    <3> QED
      BY <2>1, <3>1, <3>4, ShutInv
  <2> QED
    BY <2>2, <2>3
<1> QED
  BY <1>5, <1>6, <1>7

(* The command k is accepted; it is not in the queue yet. *)
Noted(s, k, u) ==
    /\ ~s.failed /\ s.status # "NeverConnected" /\ k \in Commands
    /\ \E f \in [Commands -> Fates] : u = [[s EXCEPT !.fate = f] EXCEPT !.sent = Append(@, k)]

(* enqueue writes the command at once only when nothing waits before it. *)
LEMMA EnqueueFits ==
    ASSUME NEW s, NEW k, NEW u, NEW takes, Fits(s), Noted(s, k, u)
    PROVE  LET r == Enqueue(u, k, takes) IN
           /\ Fits(r) /\ SamePlace(s, r) /\ r.socket = s.socket
           /\ Going(s) => Going(r)
<1> DEFINE Good(r) == Fits(r) /\ SamePlace(s, r) /\ r.socket = s.socket /\ (Going(s) => Going(r))
<1>k. ~s.failed /\ s.status # "NeverConnected" /\ k \in Commands
  BY DEF Noted
<1>u. PICK f \in [Commands -> Fates] : u = [[s EXCEPT !.fate = f] EXCEPT !.sent = Append(@, k)]
  BY DEF Noted
<1>0. /\ s \in Client /\ s.queue \in Seq(Commands) /\ s.inFlight \in Seq(Commands)
      /\ s.written \in Seq(Requests) /\ s.sent \in Seq(Commands) /\ s.flusher \in BOOLEAN
  BY DEF Fits, Client
<1>1. PICK t : t = [s EXCEPT !.fate = f, !.sent = Append(@, k), !.queue = Append(@, k)]
  OBVIOUS
<1>2. /\ Fits(t) /\ SamePlace(s, t)
      /\ t.status = s.status /\ t.socket = s.socket /\ t.selecting = s.selecting
      /\ t.queue = Append(s.queue, k) /\ t.inFlight = s.inFlight /\ t.flusher = s.flusher
  <2>1. Accepted(s, k, t)
    BY <1>k, <1>1 DEF Accepted
  <2> QED
    BY ONLY Fits(s), <2>1, AppendFits
<1>3. /\ u.queue = s.queue /\ u.inFlight = s.inFlight /\ u.status = s.status
      /\ u.selecting = s.selecting /\ u.flusher = s.flusher /\ u.written = s.written
  BY <1>0, <1>u DEF Client
<1>4. CASE u.queue # <<>> \/ u.inFlight # <<>> \/ ~ConnectionReady(u) \/ k \in Pipelined
  <2>1. PICK b \in BOOLEAN : b = (u.flusher \/ (u.status = "Connected" /\ k \in Pipelined))
    OBVIOUS
  <2>2. Enqueue(u, k, takes) = [u EXCEPT !.queue = Append(@, k), !.flusher = b]
    BY <1>4, <2>1 DEF Enqueue
  <2>3. PICK r : r = [t EXCEPT !.flusher = b]
    OBVIOUS
  <2>4. r = Enqueue(u, k, takes)
    BY <1>0, <1>1, <1>u, <2>2, <2>3 DEF Client
  <2>5. Fits(r) /\ Alike(t, r) /\ r.flusher = b /\ r.in = t.in
    BY <1>2, <2>3, FlusherFits
  <2>6. SamePlace(s, r) /\ r.socket = s.socket
    BY <1>2, <2>5 DEF SamePlace, Alike
  <2>7. ASSUME Going(s), ConnectionReady(r), r.inFlight = <<>> PROVE r.flusher
    <3>1. ConnectionReady(s) /\ ConnectionReady(u) /\ s.inFlight = <<>> /\ s.status = "Connected"
      BY <1>2, <1>3, <2>5, <2>7 DEF Alike, ConnectionReady
    <3>2. s.queue # <<>> \/ k \in Pipelined
      BY <1>3, <1>4, <3>1
    <3>3. s.queue # <<>> => s.flusher
      BY <2>7, <3>1 DEF Going
    <3> QED
      BY <1>3, <2>1, <2>5, <3>1, <3>2, <3>3
  <2>8. Good(r)
    BY <2>5, <2>6, <2>7 DEF Going
  <2> QED
    BY <2>4, <2>8
<1>5. CASE ~(u.queue # <<>> \/ u.inFlight # <<>> \/ ~ConnectionReady(u) \/ k \in Pipelined)
  <2>1. PICK v : v = [u EXCEPT !.inFlight = Append(@, k), !.written = Append(@, k)]
    OBVIOUS
  <2>2. Enqueue(u, k, takes) = FlushData(v, takes)
    BY <1>5, <2>1 DEF Enqueue
  <2>3. s.queue = <<>> /\ s.inFlight = <<>> /\ s.status = "Connected"
    BY <1>3, <1>5 DEF ConnectionReady
  <2>4. PICK b : b = <<k>>
    OBVIOUS
  <2>5. b \in Seq(Commands) /\ Len(b) = 1
    BY <1>k, <2>4
  <2>6. t.queue = b \o <<>>
    BY <1>2, <2>3, <2>4
  <2>7. v = [t EXCEPT !.queue = <<>>, !.inFlight = @ \o b, !.written = @ \o b]
    <3>1. Append(s.inFlight, k) = s.inFlight \o b
      BY <1>k, <1>0, <2>4, AppendIsConcat
    <3>2. Append(s.written, k) = s.written \o b
      <4>1. k \in Requests
        BY <1>k DEF Requests
      <4> QED
        BY <1>0, <2>4, <4>1, AppendIsConcat
    <3>3. v = [u EXCEPT !.inFlight = s.inFlight \o b, !.written = s.written \o b]
      BY <1>3, <2>1, <3>1, <3>2
    <3>4. t.inFlight = s.inFlight /\ t.written = s.written
      BY <1>0, <1>1 DEF Client
    <3>5. v = [t EXCEPT !.queue = <<>>, !.inFlight = s.inFlight \o b, !.written = s.written \o b]
      BY <1>0, <1>1, <1>u, <2>3, <3>3 DEF Client
    <3> QED
      BY <3>4, <3>5
  <2>8. \A i \in 1..Len(b) : b[i] \in Pipelined \/ (t.inFlight = <<>> /\ i = 1)
    BY <1>2, <2>3, <2>5
  <2>9. Moved(t, b, <<>>, v)
    BY <1>2, <2>3, <2>5, <2>6, <2>7, <2>8, Empty DEF Moved
  <2>10. /\ Fits(v) /\ SamePlace(t, v) /\ v.socket = t.socket /\ v.inFlight = t.inFlight \o b
    <3>1. PICK rest : Moved(t, b, rest, v)
      BY <2>9, Zenon
    <3>2. Fits(t)
      BY <1>2
    <3> QED
      BY ONLY <3>1, <3>2, MoveFits
  <2>11. PICK r : r = FlushData(v, takes)
    OBVIOUS
  <2>12. Fits(r) /\ SamePlace(v, r) /\ r.socket = v.socket /\ r.inFlight = v.inFlight
    BY <2>10, <2>11, FlushDataFits
  <2>13. r.inFlight # <<>>
    BY <1>2, <2>3, <2>4, <2>10, <2>12
  <2>14. Good(r)
    BY <1>2, <2>10, <2>12, <2>13 DEF SamePlace, Going
  <2> QED
    BY <2>2, <2>11, <2>14
<1> QED
  BY <1>4, <1>5

(* send called by a script: the command is refused or put in its place, and the
   first one dials. *)
LEMMA SendInv ==
    ASSUME NEW s, ClientInv(s), s.in # "reply", NEW k \in Commands, NEW ok
    PROVE  ClientInv(Send(s, k, ok))
<1>0. s \in Client /\ Fits(s)
  BY InvFacts
<1>1. PICK t : t = IF s.status = "NeverConnected" THEN Dial(s, ok) ELSE s
  OBVIOUS
<1>2. /\ Fits(t) /\ SamePlace(s, t) /\ t.status # "NeverConnected"
      /\ t.socket = "open" <=> s.socket = "open"
      /\ t.in = "loop" => Going(t)
  <2>1. CASE s.status = "NeverConnected"
    <3>1. s.socket = "closed" /\ ~s.deferred /\ ~s.failed
      BY <1>0, <2>1 DEF Fits, StatusFits
    <3>2. Idle(s)
      BY <3>1, InvFacts DEF Idle
    <3>3. /\ Fits(t) /\ SamePlace(s, t) /\ t.status = "Connecting" /\ t.socket # "open"
      BY <1>1, <2>1, <3>2, DialIs
    <3> QED
      BY <3>1, <3>3 DEF Going, ConnectionReady
  <2>2. CASE s.status # "NeverConnected"
    BY <1>0, <1>1, <2>2, InvFacts DEF SamePlace
  <2> QED
    BY <2>1, <2>2
<1>3. ASSUME NEW r, Fits(r), SamePlace(t, r), r.socket = t.socket, Going(t) => Going(r),
             Send(s, k, ok) = UpdatePollRef(r)
      PROVE  ClientInv(Send(s, k, ok))
  <2>1. PICK v : v = UpdatePollRef(r)
    OBVIOUS
  <2>2. Fits(v) /\ Alike(r, v) /\ v.poll = Activity(v) /\ v.in = r.in /\ v.flusher = r.flusher
    BY <1>3, <2>1, PollRefFits
  <2>3. SamePlace(s, v) /\ v.socket = r.socket /\ (Going(r) => Going(v))
    BY <1>2, <1>3, <2>2 DEF SamePlace, Going, Alike, ConnectionReady
  <2>4. v.in = "loop" => Going(v)
    BY <1>2, <1>3, <2>2, <2>3 DEF SamePlace
  <2> QED
    BY <1>2, <1>3, <2>1, <2>2, <2>3, <2>4, KeepsInv
<1>4. t \in Client
  BY <1>2 DEF Fits
<1>5. CASE t.failed \/ (t.status # "Connected" /\ ~t.offlineQueue)
  <2>1. PICK f \in [Commands -> Fates] : Settle(t, {k}, "rejected") = [t EXCEPT !.fate = f]
    <3>1. "rejected" \in Fates
      BY DEF Fates
    <3> QED
      BY <1>4, <3>1, SettleIs, SMTT(30)
  <2>2. PICK r : r = [t EXCEPT !.fate = f]
    OBVIOUS
  <2>3. r \in Client /\ r.in = t.in /\ r.flusher = t.flusher
    BY <1>4, <2>2 DEF Client
  <2>4. Alike(t, r)
    BY <1>4, <2>2, <2>3 DEF Alike, Client
  <2>5. Fits(r) /\ ConnectionReady(r) = ConnectionReady(t)
    BY <1>2, <2>4, AlikeFits
  <2>6. SamePlace(t, r) /\ r.socket = t.socket /\ (Going(t) => Going(r))
    BY <2>3, <2>4, <2>5 DEF SamePlace, Alike, Going
  <2>7. Send(s, k, ok) = UpdatePollRef(r)
    BY <1>1, <1>5, <2>1, <2>2 DEF Send
  <2> QED
    BY <1>3, <2>5, <2>6, <2>7
<1>6. CASE ~(t.failed \/ (t.status # "Connected" /\ ~t.offlineQueue))
  <2>1. PICK f \in [Commands -> Fates] : Settle(t, {k}, "waiting") = [t EXCEPT !.fate = f]
    <3>1. "waiting" \in Fates
      BY DEF Fates
    <3> QED
      BY ONLY <1>4, <3>1, SettleIs
  <2>2. PICK u : u = [[t EXCEPT !.fate = f] EXCEPT !.sent = Append(@, k)]
    OBVIOUS
  <2>3. PICK r : r = Enqueue(u, k, ok)
    OBVIOUS
  <2>4. Fits(r) /\ SamePlace(t, r) /\ r.socket = t.socket /\ (Going(t) => Going(r))
    <3>1. Noted(t, k, u)
      BY <1>2, <1>6, <2>2 DEF Noted
    <3>2. Fits(t)
      BY <1>2
    <3> QED
      BY ONLY <2>3, <3>1, <3>2, EnqueueFits
  <2>5. Send(s, k, ok) = UpdatePollRef(r)
    BY <1>1, <1>6, <2>1, <2>2, <2>3 DEF Send
  <2> QED
    BY <1>3, <2>4, <2>5
<1> QED
  BY <1>5, <1>6

-----------------------------------------------------------------------------
(* A sequence is its first n elements and the rest. *)
LEMMA SplitSeq ==
    ASSUME NEW S, NEW q \in Seq(S), NEW n \in 0..Len(q)
    PROVE  /\ SubSeq(q, 1, n) \in Seq(S) /\ SubSeq(q, n + 1, Len(q)) \in Seq(S)
           /\ q = SubSeq(q, 1, n) \o SubSeq(q, n + 1, Len(q))
           /\ Len(SubSeq(q, 1, n)) = n
           /\ \A i \in 1..n : SubSeq(q, 1, n)[i] = q[i]
<1>0. Len(q) \in Nat /\ n \in Nat /\ n <= Len(q)
  OBVIOUS
<1>1. SubSeq(q, 1, n) \o SubSeq(q, n + 1, Len(q)) = SubSeq(q, 1, Len(q))
  <2>1. 1 \in 1..(Len(q) + 1) /\ n \in (1 - 1)..Len(q) /\ Len(q) \in n..Len(q)
    BY <1>0
  <2> QED
    BY <2>1, ConcatAdjacentSubSeq
<1>2. SubSeq(q, 1, Len(q)) = q
  BY SubSeqFull
<1>3. /\ SubSeq(q, 1, n) \in Seq(S) /\ SubSeq(q, n + 1, Len(q)) \in Seq(S)
      /\ Len(SubSeq(q, 1, n)) = n /\ \A i \in 1..n : SubSeq(q, 1, n)[i] = q[i]
  BY <1>0
<1> QED
  BY <1>1, <1>2, <1>3

(* on_auto_flush sends the longest prefix of the queue that may be pipelined. *)
LEMMA AutoFlushInv ==
    ASSUME NEW s, ClientInv(s), s.in # "reply", NEW takes
    PROVE  ClientInv(OnAutoFlush(s, takes))
<1>0. s \in Client /\ Fits(s) /\ s.queue \in Seq(Commands) /\ s.inFlight \in Seq(Commands)
      /\ s.written \in Seq(Requests)
  BY InvFacts DEF Client
<1>1. CASE s.status # "Connected"
  <2>1. PICK r : r = [s EXCEPT !.flusher = FALSE]
    OBVIOUS
  <2>2. Fits(r) /\ Alike(s, r) /\ r.in = s.in /\ r.poll = s.poll
    BY <1>0, <2>1, FlusherFits
  <2>3. Activity(r) = Activity(s)
    BY <1>0, <2>2, AlikeFits
  <2>4. SamePlace(s, r) /\ Going(r) /\ r.socket = s.socket
    BY <1>1, <2>2 DEF SamePlace, Going, Alike, ConnectionReady
  <2>5. r.in = "loop" => r.poll = Activity(r)
    BY <2>2, <2>3, InvFacts
  <2>6. OnAutoFlush(s, takes) = r
    BY <1>1, <2>1 DEF OnAutoFlush
  <2> QED
    BY <2>2, <2>4, <2>5, <2>6, KeepsInv
<1>2. CASE s.status = "Connected"
  <2>1. PICK first \in 0..Len(s.queue) :
           /\ first = SelectInSeq(s.queue, LAMBDA k : k \notin Pipelined)
           /\ \A i \in 1..Len(s.queue) : first = 0 \/ i < first => s.queue[i] \in Pipelined
    BY <1>0, FirstOther
  <2>2. PICK n : n = IF first = 0 THEN Len(s.queue) ELSE first - 1
    OBVIOUS
  <2>3. /\ n \in 0..Len(s.queue) /\ \A i \in 1..n : i \in 1..Len(s.queue) /\ (first = 0 \/ i < first)
    <3>1. PICK l : l \in Nat /\ l = Len(s.queue)
      BY <1>0
    <3>2. first \in 0..l /\ n = IF first = 0 THEN l ELSE first - 1
      BY <2>2, <3>1
    <3>3. n \in 0..l /\ \A i \in 1..n : i \in 1..l /\ (first = 0 \/ i < first)
      BY ONLY <3>1, <3>2
    <3> QED
      BY <3>1, <3>3
  <2>4. PICK b : b = SubSeq(s.queue, 1, n)
    OBVIOUS
  <2>5. PICK rest : rest = SubSeq(s.queue, n + 1, Len(s.queue))
    OBVIOUS
  <2>6. /\ b \in Seq(Commands) /\ rest \in Seq(Commands) /\ s.queue = b \o rest
        /\ Len(b) = n /\ \A i \in 1..n : b[i] = s.queue[i]
    BY <1>0, <2>3, <2>4, <2>5, SplitSeq, ZenonT(40)
  <2>7. \A i \in 1..Len(b) : b[i] \in Pipelined
    BY <2>1, <2>3, <2>6
  <2>8. PICK t : t = [s EXCEPT !.queue = rest, !.inFlight = @ \o b, !.written = @ \o b]
    OBVIOUS
  <2>9. Moved(s, b, rest, t)
    BY <1>2, <2>6, <2>7, <2>8 DEF Moved
  <2>10. /\ Fits(t) /\ SamePlace(s, t)
         /\ t.status = s.status /\ t.socket = s.socket /\ t.selecting = s.selecting
         /\ t.queue = rest /\ t.inFlight = s.inFlight \o b /\ t.poll = s.poll
    BY ONLY <1>0, <2>9, MoveFits
  <2>11. PICK u : u = FlushData(t, takes)
    OBVIOUS
  <2>12. /\ Fits(u) /\ SamePlace(t, u) /\ u.status = t.status /\ u.socket = t.socket
         /\ u.queue = t.queue /\ u.inFlight = t.inFlight /\ u.poll = t.poll
    BY <2>10, <2>11, FlushDataFits
  <2>13. PICK x \in BOOLEAN : x = (t.queue # <<>>)
    OBVIOUS
  <2>14. PICK r : r = [u EXCEPT !.flusher = x]
    OBVIOUS
  <2>15. Fits(r) /\ Alike(u, r) /\ r.flusher = x /\ r.in = u.in /\ r.poll = u.poll
    BY <2>12, <2>14, FlusherFits
  <2>16. OnAutoFlush(s, takes) = r
    <3>1. t = [s EXCEPT !.queue = SubSeq(@, n + 1, Len(@)),
                        !.inFlight = @ \o b, !.written = @ \o b]
      BY <2>5, <2>8
    <3> QED
      BY <1>2, <2>1, <2>2, <2>4, <2>11, <2>13, <2>14, <3>1 DEF OnAutoFlush
  <2>17. SamePlace(s, r) /\ Going(r) /\ r.socket = s.socket
    BY <2>10, <2>12, <2>13, <2>15 DEF SamePlace, Going, Alike
  <2>18. ASSUME r.in = "loop" PROVE r.poll = Activity(r)
    <3>1. s.poll = Activity(s)
      BY <2>17, <2>18, InvFacts DEF SamePlace
    <3>2. r.poll = s.poll /\ r.queue = rest /\ r.inFlight = s.inFlight \o b /\ r.status = "Connected"
          /\ r.socket = "open"
      BY <1>0, <1>2, <2>10, <2>12, <2>15, <2>17 DEF Alike, Fits, StatusFits
    <3>3. ~s.reconnecting /\ ~r.reconnecting
      BY <1>0, <1>2, <2>15, <3>2 DEF Fits, StatusFits
    <3>4. (s.inFlight = <<>> => s.written = <<>>) /\ (r.inFlight = <<>> => r.written = <<>>)
      <4>1. ASSUME NEW v, Fits(v), v.status = "Connected", v.inFlight = <<>> PROVE v.written = <<>>
        <5>1. v.written \in Seq(Requests) /\ Len(v.written) <= Len(v.inFlight)
          BY <4>1 DEF Fits, WireFits, Client
        <5> QED
          BY <4>1, <5>1
      <4> QED
        BY <1>0, <1>2, <2>15, <3>2, <4>1
    <3>5. r.inFlight = <<>> /\ r.queue = <<>> <=> s.inFlight = <<>> /\ s.queue = <<>>
      BY <1>0, <2>6, <3>2
    <3>6. Activity(s) <=> ~(s.inFlight = <<>> /\ s.queue = <<>>)
      BY <1>2, <3>3, <3>4 DEF Activity
    <3>7. Activity(r) <=> ~(r.inFlight = <<>> /\ r.queue = <<>>)
      BY <3>2, <3>3, <3>4 DEF Activity
    <3>8. Activity(r) = Activity(s)
      BY <3>5, <3>6, <3>7 DEF Activity
    <3> QED
      BY <3>1, <3>2, <3>8
  <2> QED
    BY <2>15, <2>16, <2>17, <2>18, KeepsInv
<1> QED
  BY <1>1, <1>2

(* on_open writes HELLO, and SELECT when a database was chosen, before anything
   else. *)
LEMMA OpenInv ==
    ASSUME NEW s, ClientInv(s), s.in = "loop", s.socket = "dialing", NEW takes
    PROVE  ClientInv(OnOpen(s, takes))
<1>0. s \in Client /\ Fits(s) /\ s.replies = <<>>
  BY InvFacts DEF ClientInv, DataFits
<1>1. s.status = "Connecting" /\ ~s.deferred
  BY <1>0 DEF Fits, StatusFits, Client
<1>2. s.wire = <<>> /\ s.inFlight = <<>>
  BY <1>0 DEF Fits, WireFits
<1>3. PICK h : h = IF Database THEN <<Hello, Select>> ELSE <<Hello>>
  OBVIOUS
<1>4. h \in Seq(Requests)
  <2>1. <<Hello, Select>> \in Seq(Requests) /\ <<Hello>> \in Seq(Requests)
    BY DEF Requests
  <2> QED
    BY <1>3, <2>1
<1>5. PICK t : t = [s EXCEPT !.socket = "open", !.failed = FALSE, !.selecting = Database,
                             !.written = h]
  OBVIOUS
<1>6. t \in Client
  BY <1>0, <1>4, <1>5, ValkeyAssumption, ZenonT(40) DEF Client
<1>7. /\ t.status = "Connecting" /\ t.socket = "open" /\ ~t.failed /\ t.selecting = Database
      /\ t.written = h /\ t.wire = <<>> /\ t.inFlight = <<>> /\ t.queue = s.queue
      /\ t.sent = s.sent /\ ~t.deferred /\ t.poll = s.poll /\ SamePlace(s, t)
  BY <1>0, <1>1, <1>2, <1>5 DEF Client, SamePlace
<1>8. StatusFits(t)
  BY <1>7 DEF StatusFits
<1>9. OrderFits(t)
  BY <1>0, <1>2, <1>7 DEF OrderFits, Fits
<1>10. WireFits(t)
  <2>1. Handshake(t) = h
    BY <1>3, <1>7 DEF Handshake
  <2>2. Outstanding(t) = (<<>> \o <<>>) \o h
    BY <1>0, <1>7 DEF Outstanding, SamePlace
  <2>3. (<<>> \o <<>>) \o h = h /\ h \o <<>> = h
    BY <1>4
  <2> QED
    BY <1>7, <2>1, <2>2, <2>3 DEF WireFits
<1>11. Fits(t)
  BY <1>6, <1>8, <1>9, <1>10 DEF Fits
<1>12. PICK r : r = FlushData(t, takes)
  OBVIOUS
<1>13. OnOpen(s, takes) = r
  BY <1>3, <1>5, <1>12 DEF OnOpen
<1>14. Fits(r) /\ SamePlace(t, r) /\ r.status = t.status /\ r.socket = t.socket /\ r.poll = t.poll
  BY <1>11, <1>12, FlushDataFits
<1>15. Activity(s) /\ Activity(r)
  BY <1>1, <1>7, <1>14 DEF Activity
<1>16. r.poll = Activity(r)
  <2>1. r.poll = Activity(s)
    BY <1>7, <1>14, InvFacts
  <2> QED
    BY <1>15, <2>1 DEF Activity
<1>17. DataFits(r)
  BY <1>0, <1>7, <1>14 DEF DataFits, SamePlace
<1>18. LoopFits(r)
  BY <1>7, <1>14, <1>16 DEF LoopFits, ConnectionReady
<1> QED
  BY <1>13, <1>14, <1>17, <1>18 DEF ClientInv

(* on_writable sends what is left over. *)
LEMMA WritableInv ==
    ASSUME NEW s, ClientInv(s), s.in = "loop"
    PROVE  ClientInv(UpdatePollRef(SendNextCommand(s, TRUE)))
<1>1. PICK t : t = SendNextCommand(s, TRUE)
  OBVIOUS
<1>2. Fits(t) /\ SamePlace(s, t) /\ Going(t) /\ t.socket = s.socket
  BY <1>1, InvFacts, SendNextCommandFits
<1>3. PICK r : r = UpdatePollRef(t)
  OBVIOUS
<1>4. Fits(r) /\ Alike(t, r) /\ r.poll = Activity(r) /\ r.in = t.in /\ r.flusher = t.flusher
  BY <1>2, <1>3, PollRefFits
<1>5. SamePlace(s, r) /\ Going(r) /\ r.socket = s.socket
  BY <1>2, <1>4 DEF SamePlace, Going, Alike, ConnectionReady
<1> QED
  BY <1>1, <1>3, <1>4, <1>5, KeepsInv

(* Arming and disarming the timer keeps the invariant. *)
LEMMA TimerFits ==
    ASSUME NEW s, Fits(s), NEW b \in BOOLEAN, b => s.socket # "closed"
    PROVE  LET t == [s EXCEPT !.timer = b] IN
           /\ Fits(t) /\ SamePlace(s, t) /\ t.status = s.status /\ t.socket = s.socket
           /\ t.deferred = s.deferred /\ t.failed = s.failed /\ t.poll = s.poll
           /\ Activity(t) = Activity(s) /\ (Going(s) => Going(t))
<1>0. s \in Client
  BY DEF Fits
<1>1. PICK t : t = [s EXCEPT !.timer = b]
  OBVIOUS
<1>2. t \in Client
  BY <1>0, <1>1 DEF Client
<1>3. /\ t.status = s.status /\ t.socket = s.socket /\ t.selecting = s.selecting
      /\ t.reconnecting = s.reconnecting /\ t.failed = s.failed /\ t.queue = s.queue
      /\ t.inFlight = s.inFlight /\ t.written = s.written /\ t.wire = s.wire
      /\ t.timer = b /\ t.retryTimer = s.retryTimer /\ t.deferred = s.deferred
      /\ t.sent = s.sent /\ t.poll = s.poll /\ t.flusher = s.flusher
      /\ t.in = s.in /\ t.replies = s.replies /\ t.same = s.same
  BY <1>0, <1>1 DEF Client
<1>4. StatusFits(t)
  BY <1>3 DEF Fits, StatusFits
<1>5. WireFits(t)
  BY <1>3 DEF Fits, WireFits, Outstanding, Handshake
<1>6. OrderFits(t)
  BY <1>3 DEF Fits, OrderFits
<1>7. Activity(t) = Activity(s) /\ (Going(s) => Going(t))
  BY <1>3 DEF Activity, Going, ConnectionReady
<1>8. Fits(t)
  BY <1>2, <1>4, <1>5, <1>6 DEF Fits
<1> QED
  BY <1>1, <1>3, <1>7, <1>8 DEF SamePlace

(* The timer's callback, and the failure it brings about. *)
LEMMA TimeoutInv ==
    ASSUME NEW s, ClientInv(s), s.in = "loop", s.timer
    PROVE  LET t == [s EXCEPT !.timer = FALSE] IN ClientInv(t) /\ ClientInv(Fail(t))
<1>0. s \in Client /\ Fits(s) /\ s.socket # "closed" /\ ~s.deferred /\ ~s.failed
      /\ s.poll = Activity(s) /\ Going(s)
  BY InvFacts
<1>1. PICK t : t = [s EXCEPT !.timer = FALSE]
  OBVIOUS
<1>2. /\ Fits(t) /\ SamePlace(s, t) /\ t.status = s.status /\ t.socket = s.socket
      /\ t.deferred = s.deferred /\ t.failed = s.failed /\ t.poll = s.poll
      /\ Activity(t) = Activity(s) /\ (Going(s) => Going(t))
  BY <1>0, <1>1, TimerFits
<1>3. ClientInv(t)
  BY <1>0, <1>2, KeepsInv
<1>4. Shut(t, Fail(t))
  BY <1>0, <1>2, FailIs DEF Fits
<1>5. ClientInv(Fail(t))
  BY <1>2, <1>3, <1>4, ShutInv DEF SamePlace
<1> QED
  BY <1>1, <1>3, <1>5

(* The deferred failure of a dial that never started is a close. *)
LEMMA DeferredInv ==
    ASSUME NEW s, ClientInv(s), s.in = "loop", s.deferred
    PROVE  ClientInv(UpdatePollRef(OnClose([s EXCEPT !.deferred = FALSE, !.status = "Disconnected"])))
<1>0. s \in Client /\ Fits(s) /\ s.socket = "closed" /\ s.wire = <<>> /\ OrderFits(s)
      /\ (s.failed => ~s.reconnecting /\ s.queue = <<>> /\ s.inFlight = <<>>)
  BY InvFacts
<1>1. PICK t : t = [s EXCEPT !.deferred = FALSE, !.status = "Disconnected"]
  OBVIOUS
<1>2. /\ t \in Client /\ t.status = "Disconnected" /\ t.socket = "closed" /\ ~t.deferred
      /\ t.wire = <<>> /\ t.failed = s.failed /\ t.reconnecting = s.reconnecting
      /\ t.queue = s.queue /\ t.inFlight = s.inFlight /\ t.sent = s.sent /\ SamePlace(s, t)
  BY <1>0, <1>1 DEF Client, SamePlace
<1>3. OrderFits(t)
  BY <1>0, <1>2 DEF OrderFits
<1>4. PICK u : u = OnClose(t)
  OBVIOUS
<1>5. Over(t, u) /\ SamePlace(t, u)
  BY <1>0, <1>2, <1>4, OnCloseIs
<1>6. Fits(u)
  BY <1>2, <1>3, <1>5, OverFits
<1>7. PICK r : r = UpdatePollRef(u)
  OBVIOUS
<1>8. Fits(r) /\ Alike(u, r) /\ r.poll = Activity(r) /\ r.in = u.in
  BY <1>6, <1>7, PollRefFits
<1>9. SamePlace(s, r) /\ Going(r) /\ r.socket = s.socket
  BY <1>0, <1>2, <1>5, <1>8 DEF SamePlace, Going, Alike, Over, ConnectionReady
<1> QED
  BY <1>1, <1>4, <1>7, <1>8, <1>9, KeepsInv

-----------------------------------------------------------------------------
(* on_data begins: the replies read are answers to the oldest requests. *)
LEMMA DataInv ==
    ASSUME NEW s, ClientInv(s), s.in = "loop", s.socket = "open", NEW n \in 1..Len(s.wire)
    PROVE  ClientInv([s EXCEPT !.in = "reply", !.same = TRUE, !.replies = SubSeq(s.wire, 1, n),
                               !.wire = SubSeq(@, n + 1, Len(@))])
<1>0. /\ s \in Client /\ Fits(s) /\ s.replies = <<>> /\ s.wire \in Seq(Requests)
      /\ s.written \in Seq(Requests) /\ s.inFlight \in Seq(Commands)
  BY InvFacts DEF Client, ClientInv, DataFits
<1>1. PICK a : a = SubSeq(s.wire, 1, n)
  OBVIOUS
<1>2. PICK b : b = SubSeq(s.wire, n + 1, Len(s.wire))
  OBVIOUS
<1>3. a \in Seq(Requests) /\ b \in Seq(Requests) /\ s.wire = a \o b /\ Len(a) = n
  <2>1. n \in 0..Len(s.wire)
    BY <1>0
  <2> QED
    BY <1>0, <1>1, <1>2, <2>1, SplitSeq
<1>4. PICK r : r = [s EXCEPT !.in = "reply", !.same = TRUE, !.replies = a, !.wire = b]
  OBVIOUS
<1>5. r = [s EXCEPT !.in = "reply", !.same = TRUE, !.replies = SubSeq(s.wire, 1, n),
                    !.wire = SubSeq(@, n + 1, Len(@))]
  BY <1>1, <1>2, <1>4
<1>6. r \in Client
  BY <1>0, <1>3, <1>4 DEF Client
<1>7. /\ r.status = s.status /\ r.socket = s.socket /\ r.selecting = s.selecting
      /\ r.reconnecting = s.reconnecting /\ r.failed = s.failed /\ r.queue = s.queue
      /\ r.inFlight = s.inFlight /\ r.written = s.written /\ r.wire = b
      /\ r.timer = s.timer /\ r.retryTimer = s.retryTimer /\ r.deferred = s.deferred
      /\ r.sent = s.sent /\ r.replies = a /\ r.same /\ r.in = "reply"
  BY <1>0, <1>4 DEF Client
<1>8. StatusFits(r)
  BY <1>0, <1>7 DEF Fits, StatusFits
<1>9. OrderFits(r)
  BY <1>0, <1>7 DEF Fits, OrderFits
<1>10. WireFits(r)
  <2>1. Outstanding(r) = (a \o b) \o s.written
    BY <1>7 DEF Outstanding
  <2>2. Outstanding(s) = (<<>> \o s.wire) \o s.written
    BY <1>0 DEF Outstanding
  <2>3. <<>> \o s.wire = s.wire
    BY <1>0
  <2>4. Outstanding(r) = Outstanding(s)
    BY <1>3, <2>1, <2>2, <2>3
  <2>5. Handshake(r) = Handshake(s)
    BY <1>7 DEF Handshake
  <2> QED
    BY <1>0, <1>7, <2>4, <2>5 DEF Fits, WireFits
<1>11. DataFits(r)
  <2>1. a # <<>>
    BY <1>3
  <2> QED
    BY <1>7, <2>1 DEF DataFits
<1>12. LoopFits(r)
  BY <1>7 DEF LoopFits
<1> QED
  BY <1>5, <1>6, <1>8, <1>9, <1>10, <1>11, <1>12 DEF ClientInv, Fits

(* A handled reply leaves on_data at the point where the script may run. *)
LEMMA ScriptInv ==
    ASSUME NEW w, Fits(w), w.same <=> w.socket = "open"
    PROVE  ClientInv([w EXCEPT !.in = "script"])
<1>0. w \in Client
  BY DEF Fits
<1>1. PICK r : r = [w EXCEPT !.in = "script"]
  OBVIOUS
<1>2. r \in Client /\ r.in = "script"
  BY <1>0, <1>1 DEF Client
<1>3. Alike(w, r)
  BY <1>0, <1>1, <1>2, ZenonT(40) DEF Alike, Client
<1>4. Fits(r)
  BY <1>3, AlikeFits
<1>5. DataFits(r) /\ LoopFits(r)
  BY <1>2, <1>3 DEF DataFits, LoopFits, Alike
<1> QED
  BY <1>1, <1>4, <1>5 DEF ClientInv

(* The first of joined sequences is the first of the first. *)
LEMMA TailOfJoined ==
    ASSUME NEW a \in Seq(Requests), a # <<>>, NEW b \in Seq(Requests)
    PROVE  a \o b # <<>> /\ Tail(a \o b) = Tail(a) \o b /\ a \o b \in Seq(Requests)
  OBVIOUS

(* t is s when on_data takes the reply at hand. *)
TakesReply(s, t) == ClientInv(s) /\ s.in = "reply" /\ t = [s EXCEPT !.replies = Tail(@)]

(* What on_data knows when it takes a reply: it answers the oldest outstanding
   request, which is a handshake request until the handshake is over. *)
LEMMA ReplyTaken ==
    ASSUME NEW s, NEW t, TakesReply(s, t)
    PROVE  /\ t \in Client /\ t.same /\ t.socket = "open" /\ t.status \in {"Connecting", "Connected"}
           /\ OrderFits(t) /\ ~t.deferred /\ ~t.failed
           /\ t.status = "Connected" => ~t.reconnecting
           /\ t.status = "Connecting" => t.inFlight = <<>> /\ t.selecting = Database
           /\ Handshake(t) \o t.inFlight # <<>>
           /\ Outstanding(t) = Tail(Handshake(t) \o t.inFlight)
           /\ t.status = "Connecting" => t.written = <<>>
           /\ t.status = "Connected" => Len(t.written) <= Len(t.inFlight)
           /\ t.status = "Connected" /\ ~t.selecting => Len(t.written) < Len(t.inFlight)
<1>0. /\ s \in Client /\ Fits(s) /\ s.replies # <<>> /\ s.same /\ s.socket = "open"
      /\ s.replies \in Seq(Requests) /\ s.wire \in Seq(Requests)
      /\ s.written \in Seq(Requests) /\ s.inFlight \in Seq(Commands)
      /\ s.inFlight \in Seq(Requests)
  <2>0. ClientInv(s) /\ s.in = "reply"
    BY DEF TakesReply
  <2>1. s \in Client /\ Fits(s) /\ s.replies # <<>> /\ s.same /\ s.socket = "open"
    BY <2>0, InvFacts DEF ClientInv, DataFits
  <2>2. /\ s.replies \in Seq(Requests) /\ s.wire \in Seq(Requests)
        /\ s.written \in Seq(Requests) /\ s.inFlight \in Seq(Commands)
    BY <2>1 DEF Client
  <2> QED
    BY <2>1, <2>2, RequestsOf
<1>1. t \in Client
  <2>1. Tail(s.replies) \in Seq(Requests)
    BY <1>0
  <2> QED
    BY <1>0, <2>1 DEF Client, TakesReply
<1>2. /\ t.status = s.status /\ t.socket = s.socket /\ t.selecting = s.selecting
      /\ t.reconnecting = s.reconnecting /\ t.failed = s.failed /\ t.queue = s.queue
      /\ t.inFlight = s.inFlight /\ t.written = s.written /\ t.wire = s.wire
      /\ t.deferred = s.deferred /\ t.sent = s.sent /\ t.replies = Tail(s.replies) /\ t.same
  BY <1>0 DEF Client, TakesReply
<1>3. /\ t.status \in {"Connecting", "Connected"} /\ ~t.deferred /\ ~t.failed
      /\ t.status = "Connected" => ~t.reconnecting
      /\ t.status = "Connecting" => t.inFlight = <<>> /\ t.selecting = Database
  BY <1>0, <1>2 DEF Fits, StatusFits, WireFits, Client
<1>4. OrderFits(t)
  BY <1>0, <1>2 DEF Fits, OrderFits
<1>5. PICK h : h = Handshake(s)
  OBVIOUS
<1>6. h \in Seq(Requests) /\ Handshake(t) = h
  <2>1. /\ <<Hello, Select>> \in Seq(Requests) /\ <<Hello>> \in Seq(Requests)
        /\ <<Select>> \in Seq(Requests)
    BY DEF Requests
  <2>2. h \in {<<Hello, Select>>, <<Hello>>, <<Select>>, <<>>}
    BY <1>5 DEF Handshake
  <2>3. Handshake(t) = h
    BY <1>2, <1>5 DEF Handshake
  <2> QED
    BY <2>1, <2>2, <2>3, Empty
<1>7. (s.replies \o s.wire) \o s.written = h \o s.inFlight
  BY <1>0, <1>5 DEF Fits, WireFits, Outstanding
<1>8. Outstanding(t) = (Tail(s.replies) \o s.wire) \o s.written
  BY <1>2 DEF Outstanding
<1>9. Tail(h \o s.inFlight) = Outstanding(t) /\ h \o s.inFlight # <<>>
  <2>1. PICK a : a = s.replies \o s.wire
    OBVIOUS
  <2>2. a # <<>> /\ a \in Seq(Requests) /\ Tail(a) = Tail(s.replies) \o s.wire
    BY <1>0, <2>1, TailOfJoined
  <2>3. a \o s.written # <<>> /\ Tail(a \o s.written) = Tail(a) \o s.written
    BY <1>0, <2>2, TailOfJoined
  <2> QED
    BY <1>7, <1>8, <2>1, <2>2, <2>3
<1>10. Len(s.written) < Len(h) + Len(s.inFlight)
  <2>0. /\ Len(s.replies) \in Nat /\ Len(s.wire) \in Nat /\ Len(s.written) \in Nat
        /\ Len(h) \in Nat /\ Len(s.inFlight) \in Nat
    BY <1>0, <1>6
  <2>1. PICK x, y, z, u, v \in Nat : /\ x = Len(s.replies) /\ y = Len(s.wire) /\ z = Len(s.written)
                                     /\ u = Len(h) /\ v = Len(s.inFlight)
    BY ONLY <2>0, Zenon
  <2>2. x # 0
    BY <1>0, <2>1
  <2>3. Len((s.replies \o s.wire) \o s.written) = (x + y) + z
    BY <1>0, <2>1
  <2>4. Len(h \o s.inFlight) = u + v
    BY <1>0, <1>6, <2>1
  <2>5. z < u + v
    BY ONLY <2>2, <2>3, <2>4, <1>7, x \in Nat, y \in Nat, z \in Nat, u \in Nat, v \in Nat
  <2> QED
    BY <2>1, <2>5
<1>11. ASSUME t.status = "Connecting" PROVE t.written = <<>>
  <2>1. s.written \in {<<>>, h} /\ s.inFlight = <<>>
    BY <1>0, <1>2, <1>5, <1>11 DEF Fits, WireFits
  <2>2. Len(s.written) < Len(h)
    BY <1>6, <1>10, <2>1
  <2>3. s.written # h
    BY <1>6, <2>2
  <2> QED
    BY <1>2, <2>1, <2>3
<1>12. t.status = "Connected" => Len(t.written) <= Len(t.inFlight)
  BY <1>0, <1>2 DEF Fits, WireFits
<1>13. t.status = "Connected" /\ ~t.selecting => Len(t.written) < Len(t.inFlight)
  <2>1. SUFFICES ASSUME t.status = "Connected", ~t.selecting PROVE Len(t.written) < Len(t.inFlight)
    OBVIOUS
  <2>2. h = <<>>
    BY <1>2, <1>5, <2>1 DEF Handshake
  <2>3. Len(h) = 0 /\ Len(s.inFlight) \in Nat
    BY <1>0, <2>2
  <2> QED
    BY <1>2, <1>10, <2>3
<1> QED
  BY <1>0, <1>1, <1>2, <1>3, <1>4, <1>6, <1>9, <1>11, <1>12, <1>13

(* The answer to HELLO connects or fails the client. *)
LEMMA HelloInv ==
    ASSUME NEW s, NEW t, TakesReply(s, t),
           t.status # "Connected", NEW ok
    PROVE  ClientInv([HandleHelloResponse(t, ok) EXCEPT !.in = "script"])
<1>0. /\ t \in Client /\ t.same /\ t.socket = "open" /\ t.status = "Connecting"
      /\ OrderFits(t) /\ ~t.deferred /\ ~t.failed /\ t.inFlight = <<>> /\ t.selecting = Database
      /\ Outstanding(t) = Tail(Handshake(t) \o t.inFlight) /\ t.written = <<>>
  BY ReplyTaken
<1>1. CASE ~ok
  <2>1. HandleHelloResponse(t, ok) = Fail(t)
    BY <1>1 DEF HandleHelloResponse
  <2>2. Shut(t, Fail(t))
    BY <1>0, FailIs
  <2>3. Fits(Fail(t)) /\ ~Fail(t).same /\ Fail(t).socket = "closed"
    BY <2>2 DEF Shut
  <2> QED
    BY <2>1, <2>3, ScriptInv
<1>2. CASE ok
  <2>1. PICK b \in BOOLEAN : b = IdleTimeout
    BY ValkeyAssumption
  <2>2. PICK u : u = [t EXCEPT !.status = "Connected", !.reconnecting = FALSE, !.retries = 0,
                               !.promise = FALSE]
    OBVIOUS
  <2>3. u \in Client
    BY <1>0, <2>2 DEF Client
  <2>4. PICK r : r = [u EXCEPT !.timer = b]
    OBVIOUS
  <2>5. r \in Client
    BY <2>1, <2>3, <2>4 DEF Client
  <2>6. /\ r.status = "Connected" /\ r.socket = "open" /\ r.selecting = t.selecting
        /\ ~r.reconnecting /\ ~r.failed /\ r.queue = t.queue
        /\ r.inFlight = <<>> /\ r.written = <<>> /\ r.wire = t.wire
        /\ ~r.deferred /\ r.sent = t.sent /\ r.replies = t.replies /\ r.same
    BY <1>0, <2>2, <2>4 DEF Client
  <2>7. HandleHelloResponse(t, ok) = r
    <3>1. u.failed = FALSE /\ u.status = "Connected"
      BY <1>0, <2>2 DEF Client
    <3>2. (~u.failed /\ (u.status = "Connected" => IdleTimeout)) = b
      BY <2>1, <3>1
    <3> QED
      BY <1>2, <2>2, <2>4, <3>2 DEF HandleHelloResponse, ResetConnectionTimeout
  <2>8. StatusFits(r)
    BY <2>6 DEF StatusFits
  <2>9. OrderFits(r)
    BY <1>0, <2>6 DEF OrderFits
  <2>10. WireFits(r)
    <3>1. Outstanding(r) = Outstanding(t)
      BY <1>0, <2>6 DEF Outstanding
    <3>2. Handshake(t) = IF Database THEN <<Hello, Select>> ELSE <<Hello>>
      BY <1>0 DEF Handshake
    <3>3. Handshake(r) = IF Database THEN <<Select>> ELSE <<>>
      BY <1>0, <2>6 DEF Handshake
    <3>4. Tail(<<Hello, Select>> \o <<>>) = <<Select>> \o <<>> /\ Tail(<<Hello>> \o <<>>) = <<>> \o <<>>
      OBVIOUS
    <3>5. Outstanding(r) = Handshake(r) \o <<>>
      BY <1>0, <3>1, <3>2, <3>3, <3>4
    <3>6. Len(r.written) <= Len(r.inFlight)
      BY <2>6
    <3> QED
      BY <2>6, <3>5, <3>6 DEF WireFits
  <2>11. Fits(r)
    BY <2>5, <2>8, <2>9, <2>10 DEF Fits
  <2> QED
    BY <2>6, <2>7, <2>11, ScriptInv
<1> QED
  BY <1>1, <1>2

(* The answer to SELECT starts the commands or fails the client. *)
LEMMA SelectInv ==
    ASSUME NEW s, NEW t, TakesReply(s, t),
           t.status = "Connected", t.selecting,
           NEW ok
    PROVE  LET u == [t EXCEPT !.selecting = FALSE]
               w == IF ok THEN SendNextCommand(u, TRUE) ELSE Fail(u) IN
           ClientInv([w EXCEPT !.in = "script"])
<1>u. PICK u : u = [t EXCEPT !.selecting = FALSE]
  OBVIOUS
<1>0. /\ t \in Client /\ t.same /\ t.socket = "open" /\ OrderFits(t) /\ ~t.deferred /\ ~t.failed
      /\ ~t.reconnecting /\ Outstanding(t) = Tail(Handshake(t) \o t.inFlight)
      /\ Len(t.written) <= Len(t.inFlight)
  BY ReplyTaken
<1>t. t.inFlight \in Seq(Commands)
  BY <1>0 DEF Client
<1>1. u \in Client
  BY <1>0, <1>u DEF Client
<1>2. /\ u.status = "Connected" /\ u.socket = "open" /\ ~u.selecting
      /\ ~u.reconnecting /\ ~u.failed /\ u.queue = t.queue
      /\ u.inFlight = t.inFlight /\ u.written = t.written /\ u.wire = t.wire
      /\ ~u.deferred /\ u.sent = t.sent /\ u.replies = t.replies /\ u.same
  BY <1>0, <1>u DEF Client
<1>3. StatusFits(u)
  BY <1>2 DEF StatusFits
<1>4. OrderFits(u)
  BY <1>0, <1>2 DEF OrderFits
<1>5. WireFits(u)
  <2>1. Outstanding(u) = Outstanding(t)
    BY <1>0, <1>2 DEF Outstanding
  <2>2. Handshake(t) = <<Select>> /\ Handshake(u) = <<>>
    BY <1>2 DEF Handshake
  <2>3. Tail(<<Select>> \o t.inFlight) = <<>> \o t.inFlight
    <3>1. t.inFlight \in Seq(Requests) /\ <<Select>> \in Seq(Requests) /\ <<Select>> # <<>>
      BY <1>t, RequestsOf DEF Requests
    <3>2. Tail(<<Select>> \o t.inFlight) = Tail(<<Select>>) \o t.inFlight
      BY <3>1, TailOfJoined
    <3>3. Tail(<<Select>>) = <<>>
      OBVIOUS
    <3> QED
      BY <3>2, <3>3
  <2> QED
    BY <1>0, <1>2, <2>1, <2>2, <2>3 DEF WireFits
<1>6. Fits(u)
  BY <1>1, <1>3, <1>4, <1>5 DEF Fits
<1>7. PICK r : r = SendNextCommand(u, TRUE)
  OBVIOUS
<1>8. Fits(r) /\ r.same /\ r.socket = "open"
  <2>1. Fits(r) /\ SamePlace(u, r) /\ r.socket = u.socket
    BY <1>6, <1>7, SendNextCommandFits
  <2> QED
    BY <1>2, <2>1 DEF SamePlace
<1>9. Fits(Fail(u)) /\ ~Fail(u).same /\ Fail(u).socket = "closed"
  BY <1>1, <1>2, <1>4, FailIs DEF Shut
<1>10. PICK w : w = IF ok THEN SendNextCommand(u, TRUE) ELSE Fail(u)
  OBVIOUS
<1>11. Fits(w) /\ (w.same <=> w.socket = "open")
  BY <1>7, <1>8, <1>9, <1>10
<1>12. ClientInv([w EXCEPT !.in = "script"])
  BY <1>11, ScriptInv
<1> QED
  BY <1>u, <1>10, <1>12

(* The answer to a command meets the command at the head of in_flight. *)
LEMMA AnswerInv ==
    ASSUME NEW s, NEW t, TakesReply(s, t),
           t.status = "Connected", ~t.selecting
    PROVE  /\ t.inFlight # <<>>
           /\ ClientInv([[Settle(t, {Head(t.inFlight)}, "answered") EXCEPT !.inFlight = Tail(@)]
                            EXCEPT !.in = "script"])
<1>0. /\ t \in Client /\ t.same /\ t.socket = "open" /\ OrderFits(t) /\ ~t.deferred /\ ~t.failed
      /\ ~t.reconnecting /\ Outstanding(t) = Tail(Handshake(t) \o t.inFlight)
      /\ Handshake(t) \o t.inFlight # <<>>
      /\ Len(t.written) < Len(t.inFlight)
  BY ReplyTaken
<1>t. /\ t.inFlight \in Seq(Commands) /\ t.queue \in Seq(Commands) /\ t.sent \in Seq(Commands)
      /\ t.written \in Seq(Requests)
  BY <1>0 DEF Client
<1>1. Handshake(t) = <<>>
  BY DEF Handshake
<1>2. t.inFlight # <<>> /\ Outstanding(t) = Tail(t.inFlight)
  <2>1. <<>> \o t.inFlight = t.inFlight
    BY <1>t
  <2> QED
    BY <1>0, <1>1, <2>1
<1>3. PICK f \in [Commands -> Fates] :
         Settle(t, {Head(t.inFlight)}, "answered") = [t EXCEPT !.fate = f]
  <2>1. PICK cmds : cmds = {Head(t.inFlight)}
    OBVIOUS
  <2>2. "answered" \in Fates
    BY DEF Fates
  <2>3. PICK f \in [Commands -> Fates] : Settle(t, cmds, "answered") = [t EXCEPT !.fate = f]
    <3>1. t \in Client
      BY <1>0
    <3> QED
      BY ONLY <2>2, <3>1, SettleIs
  <2> QED
    BY <2>1, <2>3
<1>4. PICK q \in Seq(Commands) : q = Tail(t.inFlight)
  <2>1. Tail(t.inFlight) \in Seq(Commands)
    BY <1>2, <1>t
  <2> QED
    BY <2>1
<1>5. Len(q) = Len(t.inFlight) - 1 /\ \A i \in 1..Len(q) : q[i] = t.inFlight[i + 1]
  BY <1>2, <1>t, <1>4
<1>6. PICK r : r = [[t EXCEPT !.fate = f] EXCEPT !.inFlight = q]
  OBVIOUS
<1>7. r = [Settle(t, {Head(t.inFlight)}, "answered") EXCEPT !.inFlight = Tail(@)]
  <2>1. [t EXCEPT !.fate = f].inFlight = t.inFlight
    BY <1>0 DEF Client
  <2> QED
    BY <1>3, <1>4, <1>6, <2>1
<1>8. r \in Client
  BY <1>0, <1>6 DEF Client
<1>9. /\ r.status = "Connected" /\ r.socket = "open" /\ ~r.selecting
      /\ ~r.reconnecting /\ ~r.failed /\ r.queue = t.queue
      /\ r.inFlight = q /\ r.written = t.written /\ r.wire = t.wire
      /\ ~r.deferred /\ r.sent = t.sent /\ r.replies = t.replies /\ r.same
  BY <1>0, <1>6 DEF Client
<1>10. StatusFits(r)
  BY <1>9 DEF StatusFits
<1>11. OrderFits(r)
  <2>1. PICK p : p = t.inFlight \o t.queue
    OBVIOUS
  <2>2. PICK w : w = q \o t.queue
    OBVIOUS
  <2>3. /\ p \in Seq(Commands) /\ w \in Seq(Commands) /\ Len(p) = 1 + Len(w)
        /\ \A i \in 1..Len(w) : w[i] = p[1 + i]
    <3>1. /\ p \in Seq(Commands) /\ w \in Seq(Commands)
          /\ Len(p) = Len(t.inFlight) + Len(t.queue) /\ Len(w) = Len(q) + Len(t.queue)
          /\ Len(t.inFlight) \in Nat /\ Len(t.queue) \in Nat /\ Len(q) \in Nat
      BY <1>t, <2>1, <2>2
    <3>2. ASSUME NEW i \in 1..Len(w) PROVE w[i] = p[1 + i]
      <4>1. CASE i <= Len(q)
        <5>1. i \in 1..Len(q) /\ i + 1 \in 1..Len(t.inFlight)
          BY <1>5, <3>1, <4>1
        <5>2. w[i] = q[i] /\ p[i + 1] = t.inFlight[i + 1]
          BY <1>t, <2>1, <2>2, <5>1
        <5> QED
          BY <1>5, <5>1, <5>2
      <4>2. CASE ~(i <= Len(q))
        <5>0. PICK x, y, z \in Nat : x = Len(t.inFlight) /\ y = Len(t.queue) /\ z = Len(q)
          BY ONLY <3>1, Zenon
        <5>a. z = x - 1 /\ Len(p) = x + y /\ i \in 1..(z + y) /\ ~(i <= z)
          BY <1>5, <3>1, <4>2, <5>0
        <5>b. i - z \in 1..y /\ (1 + i) - x = i - z /\ 1 + i \in 1..(x + y) /\ ~(1 + i <= x)
          BY ONLY <5>a, x \in Nat, y \in Nat, z \in Nat
        <5>1. i - Len(q) \in 1..Len(t.queue) /\ (1 + i) - Len(t.inFlight) = i - Len(q)
              /\ 1 + i \in 1..Len(p) /\ ~(1 + i <= Len(t.inFlight))
          BY ONLY <5>0, <5>a, <5>b
        <5>2. w[i] = t.queue[i - Len(q)]
          BY <1>t, <2>2, <3>1, <4>2, ConcatProperties
        <5>3. p[1 + i] = t.queue[(1 + i) - Len(t.inFlight)]
          BY <1>t, <2>1, <3>1, <5>1, ConcatProperties
        <5> QED
          BY <5>1, <5>2, <5>3
      <4> QED
        BY <4>1, <4>2
    <3>3. Len(p) = 1 + Len(w)
      BY <1>5, <3>1
    <3> QED
      BY <3>1, <3>2, <3>3
  <2>4. InOrder(p, t.sent)
    BY <1>0, <2>1 DEF OrderFits
  <2>5. InOrder(w, t.sent)
    BY <2>3, <2>4, OrderSuffix
  <2>6. ASSUME NEW i \in 2..Len(q) PROVE q[i] \in Pipelined
    <3>1. i \in 1..Len(q) /\ i + 1 \in 2..Len(t.inFlight)
      BY <1>5, <1>t
    <3> QED
      BY <1>0, <1>5, <3>1 DEF OrderFits
  <2> QED
    BY <1>9, <2>2, <2>5, <2>6 DEF OrderFits
<1>12. WireFits(r)
  <2>1. Outstanding(r) = q
    BY <1>0, <1>2, <1>4, <1>9 DEF Outstanding
  <2>2. Handshake(r) = <<>>
    BY <1>9 DEF Handshake
  <2>3. <<>> \o q = q
    OBVIOUS
  <2>4. Len(r.written) <= Len(r.inFlight)
    BY <1>0, <1>5, <1>9, <1>t
  <2> QED
    BY <1>9, <2>1, <2>2, <2>3, <2>4 DEF WireFits
<1>13. Fits(r)
  BY <1>8, <1>10, <1>11, <1>12 DEF Fits
<1>14. ClientInv([r EXCEPT !.in = "script"])
  BY <1>9, <1>13, ScriptInv
<1> QED
  BY <1>2, <1>7, <1>14

(* handle_response, whichever request the reply answers. *)
LEMMA ReplyInv ==
    ASSUME NEW s, ClientInv(s), s.in = "reply", NEW ok
    PROVE  ClientInv([HandleResponse([s EXCEPT !.replies = Tail(@)], ok) EXCEPT !.in = "script"])
<1>1. PICK t : t = [s EXCEPT !.replies = Tail(@)]
  OBVIOUS
<1>2. TakesReply(s, t)
  BY <1>1 DEF TakesReply
<1>3. ClientInv([HandleResponse(t, ok) EXCEPT !.in = "script"])
  <2>1. CASE t.status # "Connected"
    <3>1. HandleResponse(t, ok) = HandleHelloResponse(t, ok)
      BY <2>1 DEF HandleResponse
    <3>2. ClientInv([HandleHelloResponse(t, ok) EXCEPT !.in = "script"])
      BY ONLY <1>2, <2>1, HelloInv
    <3> QED
      BY <3>1, <3>2
  <2>2. CASE t.status = "Connected" /\ t.selecting
    <3>1. PICK u : u = [t EXCEPT !.selecting = FALSE]
      OBVIOUS
    <3>2. PICK w : w = IF ok THEN SendNextCommand(u, TRUE) ELSE Fail(u)
      OBVIOUS
    <3>3. HandleResponse(t, ok) = w
      BY <2>2, <3>1, <3>2 DEF HandleResponse
    <3>4. ClientInv([w EXCEPT !.in = "script"])
      BY ONLY <1>2, <2>2, <3>1, <3>2, SelectInv
    <3> QED
      BY <3>3, <3>4
  <2>3. CASE t.status = "Connected" /\ ~t.selecting
    <3>1. PICK w : w = [Settle(t, {Head(t.inFlight)}, "answered") EXCEPT !.inFlight = Tail(@)]
      OBVIOUS
    <3>2. t.inFlight # <<>> /\ ClientInv([w EXCEPT !.in = "script"])
      BY ONLY <1>2, <2>3, <3>1, AnswerInv
    <3>3. HandleResponse(t, ok) = w
      BY <2>3, <3>1, <3>2 DEF HandleResponse
    <3> QED
      BY <3>2, <3>3
  <2> QED
    BY <2>1, <2>2, <2>3
<1> QED
  BY <1>1, <1>3

-----------------------------------------------------------------------------
(* The end of on_data updates poll_ref. *)
LEMMA EndOfDataInv ==
    ASSUME NEW s, Fits(s), Going(s), s.socket = "open" => s.same /\ s.replies = <<>>
    PROVE  ClientInv(EndOfData(s))
<1>0. s \in Client
  BY DEF Fits
<1>1. PICK t : t = [s EXCEPT !.in = "loop", !.replies = <<>>, !.same = TRUE]
  OBVIOUS
<1>2. t \in Client
  BY <1>0, <1>1, Empty DEF Client
<1>3. /\ t.status = s.status /\ t.socket = s.socket /\ t.selecting = s.selecting
      /\ t.reconnecting = s.reconnecting /\ t.failed = s.failed /\ t.queue = s.queue
      /\ t.inFlight = s.inFlight /\ t.written = s.written /\ t.wire = s.wire
      /\ t.timer = s.timer /\ t.retryTimer = s.retryTimer /\ t.deferred = s.deferred
      /\ t.sent = s.sent /\ t.replies = <<>> /\ t.same /\ t.in = "loop" /\ t.flusher = s.flusher
  BY <1>0, <1>1 DEF Client
<1>4. StatusFits(t)
  BY <1>3 DEF Fits, StatusFits
<1>5. OrderFits(t)
  BY <1>3 DEF Fits, OrderFits
<1>6. WireFits(t)
  <2>1. s.socket = "open" => Outstanding(t) = Outstanding(s)
    BY <1>3 DEF Outstanding
  <2>2. Handshake(t) = Handshake(s)
    BY <1>3 DEF Handshake
  <2> QED
    BY <1>3, <2>1, <2>2 DEF Fits, WireFits
<1>7. Fits(t)
  BY <1>2, <1>4, <1>5, <1>6 DEF Fits
<1>8. Going(t)
  BY <1>3 DEF Going, ConnectionReady
<1>9. PICK u : u = IF t.status = "Connected" THEN ResetConnectionTimeout(t) ELSE t
  OBVIOUS
<1>10. Fits(u) /\ SamePlace(t, u) /\ Going(u)
  <2>1. CASE t.status # "Connected"
    BY <1>7, <1>8, <1>9, <2>1 DEF SamePlace
  <2>2. CASE t.status = "Connected"
    <3>1. PICK b \in BOOLEAN : b = (~t.failed /\ (t.status = "Connected" => IdleTimeout))
      OBVIOUS
    <3>2. u = [t EXCEPT !.timer = b]
      BY <1>9, <2>2, <3>1 DEF ResetConnectionTimeout
    <3>3. t.socket # "closed"
      BY <1>4, <2>2 DEF StatusFits
    <3> QED
      BY <1>7, <1>8, <3>2, <3>3, TimerFits
  <2> QED
    BY <2>1, <2>2
<1>11. PICK r : r = UpdatePollRef(u)
  OBVIOUS
<1>12. Fits(r) /\ Alike(u, r) /\ r.poll = Activity(r) /\ r.in = u.in /\ r.flusher = u.flusher
  BY <1>10, <1>11, PollRefFits
<1>13. Going(r) /\ r.in = "loop" /\ r.replies = <<>>
  BY <1>3, <1>10, <1>12 DEF Alike, SamePlace, Going, ConnectionReady
<1>14. DataFits(r) /\ LoopFits(r)
  BY <1>12, <1>13 DEF DataFits, LoopFits, Going
<1>15. EndOfData(s) = r
  BY <1>1, <1>9, <1>11 DEF EndOfData
<1> QED
  BY <1>12, <1>14, <1>15 DEF ClientInv

(* on_data goes on after the script ran: it stops if the socket is not the one
   it was reading, whatever the script did to the client. *)
LEMMA ContinueInv ==
    ASSUME NEW s, ClientInv(s), s.in = "script", NEW ok
    PROVE  ClientInv(IF ~s.same THEN EndOfData(s)
                     ELSE LET t == SendNextCommand(s, ok) IN
                          IF t.replies = <<>> THEN EndOfData(t) ELSE [t EXCEPT !.in = "reply"])
<1>0. Fits(s) /\ (s.same <=> s.socket = "open")
  BY DEF ClientInv, DataFits
<1>1. CASE ~s.same
  <2>1. s.status # "Connected"
    BY <1>0, <1>1 DEF Fits, StatusFits
  <2>2. Going(s)
    BY <2>1 DEF Going, ConnectionReady
  <2>3. ClientInv(EndOfData(s))
    BY <1>0, <1>1, <2>2, EndOfDataInv
  <2> QED
    BY <1>1, <2>3
<1>2. CASE s.same
  <2>1. PICK t : t = SendNextCommand(s, ok)
    OBVIOUS
  <2>2. Fits(t) /\ SamePlace(s, t) /\ Going(t) /\ t.socket = s.socket
    BY <1>0, <2>1, SendNextCommandFits
  <2>3. t.same /\ t.socket = "open"
    BY <1>0, <1>2, <2>2 DEF SamePlace
  <2>4. CASE t.replies = <<>>
    <3>1. ClientInv(EndOfData(t))
      BY <2>2, <2>3, <2>4, EndOfDataInv
    <3> QED
      BY <1>2, <2>1, <2>4, <3>1
  <2>5. CASE t.replies # <<>>
    <3>1. PICK r : r = [t EXCEPT !.in = "reply"]
      OBVIOUS
    <3>2. t \in Client
      BY <2>2 DEF Fits
    <3>3. r \in Client /\ r.in = "reply"
      BY <3>1, <3>2 DEF Client
    <3>4. Alike(t, r)
      BY <3>1, <3>2, <3>3, ZenonT(40) DEF Alike, Client
    <3>5. Fits(r)
      BY <2>2, <3>4, AlikeFits
    <3>6. DataFits(r) /\ LoopFits(r)
      BY <2>3, <2>5, <3>3, <3>4 DEF DataFits, LoopFits, Alike
    <3>7. ClientInv(r)
      BY <3>5, <3>6 DEF ClientInv
    <3> QED
      BY <1>2, <2>1, <2>5, <3>1, <3>7
  <2> QED
    BY <2>4, <2>5
<1> QED
  BY <1>1, <1>2

(* A client that was never connected. *)
LEMMA ClientInit == Init => ClientInv(c)
<1> SUFFICES ASSUME Init PROVE ClientInv(c)
  OBVIOUS
<1>1. PICK a, b \in BOOLEAN : c = NewClient(a, b)
  BY DEF Init
<1>2. c \in Client
  <2>1. PICK f : f = [k \in Commands |-> "unsent"]
    OBVIOUS
  <2>2. f \in [Commands -> Fates]
    BY <2>1 DEF Fates
  <2>3. 0 \in Nat
    OBVIOUS
  <2> QED
    BY <1>1, <2>1, <2>2, <2>3, Empty DEF NewClient, Client
<1>3. /\ c.status = "NeverConnected" /\ c.socket = "closed" /\ ~c.deferred /\ ~c.reconnecting
      /\ c.queue = <<>> /\ c.inFlight = <<>> /\ c.wire = <<>> /\ c.written = <<>> /\ ~c.failed
      /\ ~c.timer /\ c.in = "loop" /\ c.replies = <<>> /\ c.poll = FALSE /\ c.sent = <<>>
  BY <1>1 DEF NewClient
<1>4. StatusFits(c) /\ WireFits(c)
  BY <1>3 DEF StatusFits, WireFits
<1>5. OrderFits(c)
  <2>1. InOrder(<<>> \o <<>>, c.sent)
    BY <1>2, OrderOfNone DEF Client
  <2>2. 2..Len(c.inFlight) = {}
    BY <1>3
  <2> QED
    BY <1>3, <2>1, <2>2 DEF OrderFits
<1>6. DataFits(c)
  BY <1>3 DEF DataFits
<1>7. LoopFits(c)
  BY <1>3 DEF LoopFits, Activity, ConnectionReady
<1> QED
  BY <1>2, <1>4, <1>5, <1>6, <1>7 DEF ClientInv, Fits

(* Every callback, timer and call of a script keeps the invariant, one case for
   each. *)
LEMMA ClientStep == ClientInv(c) /\ [Next]_vars => ClientInv(c')
<1> SUFFICES ASSUME ClientInv(c), [Next]_vars PROVE ClientInv(c')
  OBVIOUS
<1>1. CASE Open
  <2>1. PICK ok \in BOOLEAN : c' = OnOpen(c, ok)
    BY <1>1 DEF Open, Try
  <2> QED
    BY <1>1, <2>1, OpenInv DEF Open
<1>2. CASE Writable
  BY <1>2, WritableInv DEF Writable
<1>3. CASE RetryTimerFires
  <2>1. PICK ok \in BOOLEAN : c' = Reconnect(c, ok)
    BY <1>3 DEF RetryTimerFires, Try
  <2> QED
    BY <1>3, <2>1, RetryInv DEF RetryTimerFires
<1>4. CASE DeferredClose
  BY <1>4, DeferredInv DEF DeferredClose
<1>5. CASE AutoFlush
  <2>1. PICK ok \in BOOLEAN : c' = OnAutoFlush(c, ok)
    BY <1>5 DEF AutoFlush, Try
  <2> QED
    BY <1>5, <2>1, AutoFlushInv DEF AutoFlush, InScript
<1>6. CASE Data
  <2>1. PICK n \in 1..Len(c.wire) :
           c' = [c EXCEPT !.in = "reply", !.same = TRUE, !.replies = SubSeq(c.wire, 1, n),
                          !.wire = SubSeq(@, n + 1, Len(@))]
    BY <1>6 DEF Data
  <2>2. c.in = "loop" /\ c.socket = "open"
    BY <1>6 DEF Data
  <2> QED
    BY <2>1, <2>2, DataInv
<1>7. CASE Reply
  <2>1. PICK ok \in BOOLEAN :
           c' = [HandleResponse([c EXCEPT !.replies = Tail(@)], ok) EXCEPT !.in = "script"]
    BY <1>7 DEF Reply, Try
  <2> QED
    BY <1>7, <2>1, ReplyInv DEF Reply
<1>8. CASE Continue
  <2>1. PICK ok \in BOOLEAN :
           c' = IF ~c.same THEN EndOfData(c)
                ELSE LET t == SendNextCommand(c, ok) IN
                     IF t.replies = <<>> THEN EndOfData(t) ELSE [t EXCEPT !.in = "reply"]
    BY <1>8 DEF Continue, Try
  <2>2. c.in = "script"
    BY <1>8 DEF Continue
  <2> QED
    BY <2>1, <2>2, ContinueInv
<1>9. CASE ConnectError \/ PeerCloses
  <2>1. c.in = "loop" /\ c.socket # "closed" /\ c' = SocketClosed(c)
    BY <1>9 DEF ConnectError, PeerCloses, Fault
  <2> QED
    BY <2>1, ClosedInv
<1>10. CASE TimerFires
  <2>1. PICK t : t = [c EXCEPT !.timer = FALSE]
    OBVIOUS
  <2>2. c.in = "loop" /\ c.timer /\ c' \in {t, Fail(t)}
    BY <1>10, <2>1 DEF TimerFires, Fault
  <2> QED
    BY <2>1, <2>2, TimeoutInv
<1>11. CASE CallConnect
  <2>1. PICK ok \in BOOLEAN : c' = DoConnect(c, ok)
    BY <1>11 DEF CallConnect
  <2> QED
    BY <1>11, <2>1, ConnectInv DEF CallConnect, InScript
<1>12. CASE CallClose
  BY <1>12, DisconnectInv DEF CallClose, InScript
<1>13. ASSUME NEW k \in Commands, CallSend(k) PROVE ClientInv(c')
  <2>1. PICK ok \in BOOLEAN : c' = Send(c, k, ok)
    BY <1>13 DEF CallSend, Try
  <2> QED
    BY <1>13, <2>1, SendInv DEF CallSend, InScript
<1>14. CASE UNCHANGED vars
  BY <1>14 DEF vars
<1> QED
  BY <1>1, <1>2, <1>3, <1>4, <1>5, <1>6, <1>7, <1>8, <1>9, <1>10, <1>11, <1>12, <1>13, <1>14
     DEF Next, Callback

ValkeyInv == ClientInv(c)

(* The invariant holds of every behaviour of the client. *)
LEMMA ClientSafe == Spec => []ValkeyInv
<1>1. Init => ValkeyInv
  BY ClientInit DEF ValkeyInv
<1>2. ValkeyInv /\ [Next]_vars => ValkeyInv'
  BY ClientStep DEF ValkeyInv
<1> QED
  BY <1>1, <1>2, PTL DEF Spec

(* Every reply meets the command it answers: in_flight is what was written and
   not answered, in order, through handshakes, closes inside on_data, failures
   and reconnections, for any set of commands. *)
THEOREM ValkeyInFlightMatchesWire == Spec => []InFlightMatchesWire
<1>1. ValkeyInv => InFlightMatchesWire
  BY DEF ValkeyInv, ClientInv, Fits, WireFits, InFlightMatchesWire
<1> QED
  BY <1>1, ClientSafe, PTL

(* Commands go out in the order of the calls, whichever of enqueue, drain and
   on_auto_flush sends them, and only ones that may be pipelined go out behind
   one that is not answered. *)
THEOREM ValkeyCallOrderKept == Spec => []CallOrderKept
<1>1. ValkeyInv => CallOrderKept
  BY DEF ValkeyInv, ClientInv, Fits, OrderFits, CallOrderKept
<1> QED
  BY <1>1, ClientSafe, PTL

(* A client that keeps the loop alive has a timer, a dial, a flush or a reply
   coming. *)
LEMMA NothingEnds ==
    ASSUME NEW s, ClientInv(s), s.in = "loop", Activity(s)
    PROVE  \/ s.deferred \/ s.retryTimer \/ s.socket = "dialing"
           \/ s.socket = "open" /\ (s.flusher \/ s.wire \o s.written # <<>>)
<1>0. /\ s \in Client /\ StatusFits(s) /\ WireFits(s) /\ s.replies = <<>> /\ Going(s)
  BY InvFacts DEF ClientInv, Fits, DataFits
<1>t. /\ s.wire \in Seq(Requests) /\ s.written \in Seq(Requests) /\ s.inFlight \in Seq(Commands)
  BY <1>0 DEF Client
<1>1. CASE s.socket = "closed"
  <2>1. s.inFlight = <<>> /\ s.written = <<>>
    BY <1>0, <1>1 DEF WireFits
  <2>2. s.queue # <<>> \/ s.reconnecting \/ s.status = "Connecting"
    BY <2>1 DEF Activity
  <2> QED
    BY <1>0, <1>1, <2>2 DEF StatusFits, Client
<1>2. CASE s.socket = "open"
  <2>1. s.wire \o s.written = Handshake(s) \o s.inFlight
    <3>1. Outstanding(s) = Handshake(s) \o s.inFlight
      BY <1>0, <1>2 DEF WireFits
    <3>2. Outstanding(s) = (<<>> \o s.wire) \o s.written
      BY <1>0 DEF Outstanding
    <3>3. <<>> \o s.wire = s.wire
      BY <1>t
    <3> QED
      BY <3>1, <3>2, <3>3
  <2>2. CASE s.inFlight # <<>>
    <3>1. Handshake(s) \in Seq(Requests) /\ s.inFlight \in Seq(Requests)
      <4>1. /\ <<Hello, Select>> \in Seq(Requests) /\ <<Hello>> \in Seq(Requests)
            /\ <<Select>> \in Seq(Requests)
        BY DEF Requests
      <4>2. Handshake(s) \in {<<Hello, Select>>, <<Hello>>, <<Select>>, <<>>}
        BY DEF Handshake
      <4> QED
        BY <1>t, <4>1, <4>2, Empty, RequestsOf
    <3>2. Handshake(s) \o s.inFlight # <<>>
      BY <2>2, <3>1
    <3> QED
      BY <1>2, <2>1, <3>2
  <2>3. CASE s.inFlight = <<>> /\ ~ConnectionReady(s)
    <3>1. Handshake(s) \in {<<Hello, Select>>, <<Hello>>, <<Select>>}
      BY <2>3 DEF Handshake, ConnectionReady
    <3>2. /\ <<Hello, Select>> \o <<>> # <<>> /\ <<Hello>> \o <<>> # <<>>
          /\ <<Select>> \o <<>> # <<>>
      OBVIOUS
    <3>3. Handshake(s) \o s.inFlight # <<>>
      BY <2>3, <3>1, <3>2
    <3> QED
      BY <1>2, <2>1, <3>3
  <2>4. CASE s.inFlight = <<>> /\ ConnectionReady(s)
    <3>1. s.written = <<>>
      <4>1. Len(s.written) <= Len(s.inFlight)
        BY <1>0, <2>4 DEF WireFits, ConnectionReady
      <4> QED
        BY <1>t, <2>4, <4>1
    <3>2. s.queue # <<>>
      BY <1>0, <2>4, <3>1 DEF Activity, ConnectionReady, StatusFits
    <3> QED
      BY <1>0, <1>2, <2>4, <3>2 DEF Going
  <2> QED
    BY <2>2, <2>3, <2>4
<1> QED
  BY <1>0, <1>1, <1>2 DEF Client

(* Between two callbacks poll_ref holds the loop exactly while something is
   going on, and then an event is to come that calls the client back. *)
THEOREM ValkeyAliveForAReason == Spec => []AliveForAReason
<1>1. ValkeyInv => AliveForAReason
  <2> SUFFICES ASSUME ClientInv(c), c.in = "loop"
               PROVE  /\ c.poll = Activity(c)
                      /\ Activity(c) => \/ c.deferred \/ c.retryTimer \/ c.socket = "dialing"
                                        \/ c.socket = "open" /\ (c.flusher \/ c.wire \o c.written # <<>>)
    BY DEF ValkeyInv, AliveForAReason
  <2>1. c.poll = Activity(c)
    BY InvFacts
  <2> QED
    BY <2>1, NothingEnds
<1> QED
  BY <1>1, ClientSafe, PTL
=============================================================================
