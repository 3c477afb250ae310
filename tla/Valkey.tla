------------------------------- MODULE Valkey -------------------------------
(* The Redis/Valkey client (src/src/runtime/valkey_jsc/valkey.rs and         *)
(* js_valkey.rs): one connection with its retries, the commands that wait    *)
(* and the commands that are on the wire. Everything runs on the JavaScript  *)
(* thread, in callbacks; scripts run in between, also between two replies    *)
(* that arrived together, and may then close the connection the second came  *)
(* from and open another.                                                    *)
(*                                                                           *)
(* The client is one record. The functions of the code are operators from    *)
(* clients to clients, the callbacks and the calls of scripts the actions.   *)
(* The server and the kernel are external: requests are answered in order,   *)
(* and at most MaxFaults times something goes wrong.                         *)
(* TLS, subscriptions and the finalizer are left out.                        *)
EXTENDS Naturals, Sequences, SequencesExt

CONSTANTS Commands,
          Pipelined,       \* the commands that support auto-pipelining
          Database,        \* whether a database must be selected
          IdleTimeout,     \* whether an idle connection times out
          MaxRetries,
          MaxFaults,       \* bound: failures of the network and timeouts
          MaxCalls,        \* bound: calls of connect() and close()
          Hello, Select    \* the requests of the handshake

ASSUME ValkeyAssumption ==
    /\ Pipelined \subseteq Commands /\ {Hello, Select} \cap Commands = {}
    /\ {Database, IdleTimeout} \subseteq BOOLEAN
    /\ {MaxRetries, MaxFaults, MaxCalls} \subseteq Nat

VARIABLES c,        \* the client
          faults, calls

vars == <<c, faults, calls>>

NewClient(autoReconnect, offlineQueue) ==
    [autoReconnect |-> autoReconnect, offlineQueue |-> offlineQueue,
     status |-> "NeverConnected",
     socket |-> "closed",           \* or "dialing", "open"
     manual |-> FALSE, selecting |-> FALSE, reconnecting |-> FALSE, failed |-> FALSE,
     retries |-> 0,
     queue |-> <<>>, inFlight |-> <<>>,
     written |-> <<>>,              \* write_buffer
     wire |-> <<>>,                 \* sent on this socket and not yet answered
     flusher |-> FALSE, timer |-> FALSE, retryTimer |-> FALSE,
     promise |-> FALSE,             \* a connect() promise is pending
     deferred |-> FALSE,            \* a ValkeyDeferredClose is queued
     poll |-> FALSE,                \* poll_ref keeps the event loop alive
     in |-> "loop",                 \* or in on_data: at a "reply", in the "script" after it
     replies |-> <<>>,              \* what on_data has still to handle
     same |-> TRUE,                 \* the socket is still the one they came from
     fate |-> [k \in Commands |-> "unsent"],
     sent |-> <<>>]                 \* the accepted commands, in the order of their calls

Init ==
    /\ \E autoReconnect, offlineQueue \in BOOLEAN : c = NewClient(autoReconnect, offlineQueue)
    /\ faults = 0 /\ calls = 0

-----------------------------------------------------------------------------
(* Helpers of valkey.rs *)

ConnectionReady(s) == s.status = "Connected" /\ ~s.selecting

Activity(s) ==
    \/ s.inFlight # <<>> \/ s.queue # <<>> \/ s.written # <<>>
    \/ s.reconnecting \/ s.status = "Connecting"

UpdatePollRef(s) == [s EXCEPT !.poll = Activity(s)]

Settle(s, cmds, how) == [s EXCEPT !.fate = [k \in Commands |-> IF k \in cmds THEN how ELSE @[k]]]

RejectInFlight(s) == [Settle(s, Range(s.inFlight), "rejected") EXCEPT !.inFlight = <<>>]

RejectAll(s) ==
    [Settle(s, Range(s.inFlight \o s.queue), "rejected") EXCEPT !.inFlight = <<>>, !.queue = <<>>]

(* socket.write; the kernel takes all of it or nothing. *)
FlushData(s, takes) ==
    IF takes /\ s.socket = "open"
    THEN [s EXCEPT !.wire = @ \o s.written, !.written = <<>>] ELSE s

Supports(s) == s.queue # <<>> /\ Head(s.queue) \in Pipelined

(* drain: the head of the queue goes out, unless it has to wait for answers. *)
Drain(s, takes) ==
    IF s.queue = <<>> \/ (s.inFlight # <<>> /\ ~Supports(s)) THEN s
    ELSE LET k == Head(s.queue)
             t == [s EXCEPT !.queue = Tail(@), !.inFlight = Append(@, k),
                            !.written = Append(@, k)]
         IN IF ConnectionReady(s) /\ s.written = <<>> THEN FlushData(t, takes) ELSE t

SendNextCommand(s, takes) ==
    LET next ==
          IF s.written # <<>> \/ ~ConnectionReady(s) THEN s
          ELSE IF Supports(s) THEN [s EXCEPT !.flusher = TRUE]
          ELSE IF s.inFlight # <<>> THEN s
          ELSE LET t == Drain(s, takes) IN [t EXCEPT !.flusher = @ \/ Supports(t)]
    IN FlushData(next, takes)

-----------------------------------------------------------------------------
(* The end of a connection *)

(* Slip: a failure leaves is_reconnecting as it was. *)
SlipStaysReconnecting(s) == IF s.failed THEN s ELSE [RejectAll(s) EXCEPT !.failed = TRUE]

(* fail, up to its close: every command is rejected. *)
FailCommands(s) ==
    IF s.failed THEN s ELSE [RejectAll(s) EXCEPT !.failed = TRUE, !.reconnecting = FALSE]

(* The connect() promise is rejected and onclose called. *)
OnValkeyClose(s) == UpdatePollRef([s EXCEPT !.timer = FALSE, !.promise = FALSE])

(* Slip: the timer that bounded the attempt stays armed. *)
SlipTimerLeftArmed(s) == [s EXCEPT !.retryTimer = TRUE]

OnValkeyReconnect(s) == [s EXCEPT !.timer = FALSE, !.retryTimer = TRUE]

(* The retry policy *)
OnClose(s) ==
    LET t == [s EXCEPT !.flusher = FALSE, !.written = <<>>]
        u == [t EXCEPT !.retries = @ + 1]
    IN IF t.manual \/ t.failed \/ ~t.autoReconnect THEN OnValkeyClose(FailCommands(t))
       ELSE IF u.retries > MaxRetries THEN OnValkeyClose(FailCommands(u))
       ELSE OnValkeyReconnect(RejectInFlight([u EXCEPT !.reconnecting = TRUE,
                                                       !.selecting = FALSE]))

(* SocketHandler::on_close and on_connect_error *)
SocketClosed(s) ==
    UpdatePollRef(OnClose([s EXCEPT !.socket = "closed", !.wire = <<>>, !.same = FALSE,
                                    !.status = "Disconnected"]))

(* close: its callback has run when it returns. *)
Close(s) == IF s.socket = "closed" THEN s ELSE SocketClosed(s)

Fail(s) == IF s.failed THEN s ELSE Close(FailCommands(s))

-----------------------------------------------------------------------------
(* Dialling *)

ResetConnectionTimeout(s) ==
    [s EXCEPT !.timer = ~s.failed /\ (s.status = "Connected" => IdleTimeout)]

(* connect; a dial that fails outright is closed by a task of its own. *)
Dial(s, ok) ==
    LET t == [s EXCEPT !.status = "Connecting"] IN
    IF ok THEN ResetConnectionTimeout(UpdatePollRef([t EXCEPT !.socket = "dialing"]))
    ELSE UpdatePollRef([t EXCEPT !.deferred = TRUE])

Reconnect(s, ok) ==
    LET t == [s EXCEPT !.retryTimer = FALSE] IN
    IF t.reconnecting /\ t.status = "Disconnected" /\ t.socket = "closed"
    THEN Dial([t EXCEPT !.poll = TRUE], ok) ELSE t

DoConnect(s, ok) ==
    IF s.status = "Connected" \/ s.promise THEN s
    ELSE LET t == [s EXCEPT !.promise = TRUE, !.manual = FALSE, !.failed = FALSE] IN
         UpdatePollRef(
             IF t.status = "NeverConnected" THEN Dial(t, ok)
             ELSE IF t.status = "Disconnected"
             THEN Reconnect([t EXCEPT !.reconnecting = TRUE, !.retries = 0], ok)
             ELSE t)

(* js_disconnect and disconnect; between two attempts it cancels the retry. *)
Disconnect(s) ==
    LET t == [s EXCEPT !.manual = TRUE, !.flusher = FALSE] IN
    IF s.status = "NeverConnected" \/ (s.status = "Disconnected" /\ ~s.reconnecting) THEN s
    ELSE IF s.status = "Disconnected" THEN OnClose([t EXCEPT !.retryTimer = FALSE])
    ELSE Close(t)

-----------------------------------------------------------------------------
(* Commands *)

(* Slip: only the queue is looked at, not what is in flight. *)
SlipQueueOnly(s, k, takes) ==
    IF s.queue # <<>> \/ ~ConnectionReady(s) \/ k \in Pipelined
    THEN [s EXCEPT !.queue = Append(@, k),
                   !.flusher = @ \/ (s.status = "Connected" /\ k \in Pipelined)]
    ELSE FlushData([s EXCEPT !.inFlight = Append(@, k), !.written = Append(@, k)], takes)

Enqueue(s, k, takes) ==
    IF s.queue # <<>> \/ s.inFlight # <<>> \/ ~ConnectionReady(s) \/ k \in Pipelined
    THEN [s EXCEPT !.queue = Append(@, k),
                   !.flusher = @ \/ (s.status = "Connected" /\ k \in Pipelined)]
    ELSE FlushData([s EXCEPT !.inFlight = Append(@, k), !.written = Append(@, k)], takes)

(* ensure_dialing, and send or its refusal *)
Send(s, k, ok) ==
    LET t == IF s.status = "NeverConnected" THEN Dial(s, ok) ELSE s IN
    UpdatePollRef(
        IF t.failed \/ (t.status # "Connected" /\ ~t.offlineQueue)
        THEN Settle(t, {k}, "rejected")
        ELSE Enqueue([Settle(t, {k}, "waiting") EXCEPT !.sent = Append(@, k)], k, ok))

(* on_auto_flush: the commands up to the first that does not support it *)
OnAutoFlush(s, takes) ==
    IF s.status # "Connected" THEN [s EXCEPT !.flusher = FALSE]
    ELSE LET firstOther == SelectInSeq(s.queue, LAMBDA k : k \notin Pipelined)
             n == IF firstOther = 0 THEN Len(s.queue) ELSE firstOther - 1
             batch == SubSeq(s.queue, 1, n)
             t == [s EXCEPT !.queue = SubSeq(@, n + 1, Len(@)),
                            !.inFlight = @ \o batch, !.written = @ \o batch]
         IN [FlushData(t, takes) EXCEPT !.flusher = t.queue # <<>>]

-----------------------------------------------------------------------------
(* The connection's replies *)

(* on_open, start and authenticate *)
OnOpen(s, takes) ==
    FlushData([s EXCEPT !.socket = "open", !.failed = FALSE, !.selecting = Database,
                        !.written = IF Database THEN <<Hello, Select>> ELSE <<Hello>>], takes)

HandleHelloResponse(s, accepted) ==
    IF accepted
    THEN ResetConnectionTimeout([s EXCEPT !.status = "Connected", !.reconnecting = FALSE,
                                          !.retries = 0, !.promise = FALSE])
    ELSE Fail(s)

(* A reply belongs to the handshake or to the command that is longest in
   flight. *)
HandleResponse(s, accepted) ==
    IF s.status # "Connected" THEN HandleHelloResponse(s, accepted)
    ELSE IF s.selecting
    THEN LET t == [s EXCEPT !.selecting = FALSE] IN
         IF accepted THEN SendNextCommand(t, TRUE) ELSE Fail(t)
    ELSE IF s.inFlight = <<>> THEN s
    ELSE [Settle(s, {Head(s.inFlight)}, "answered") EXCEPT !.inFlight = Tail(@)]

(* The end of SocketHandler::on_data *)
EndOfData(s) ==
    LET t == [s EXCEPT !.in = "loop", !.replies = <<>>, !.same = TRUE] IN
    UpdatePollRef(IF t.status = "Connected" THEN ResetConnectionTimeout(t) ELSE t)

-----------------------------------------------------------------------------
(* A step that the outside may let fail: a dial, a write or a handshake *)
Try(Step(_)) ==
    /\ \E ok \in BOOLEAN :
          /\ ok \/ faults < MaxFaults
          /\ faults' = IF ok THEN faults ELSE faults + 1
          /\ c' = Step(ok)
    /\ UNCHANGED calls

Fault(s) == faults < MaxFaults /\ faults' = faults + 1 /\ c' = s /\ UNCHANGED calls

(* Scripts *)

InScript == c.in # "reply"

CallSend(k) ==
    /\ InScript /\ c.fate[k] = "unsent"
    /\ Try(LAMBDA ok : Send(c, k, ok))

CallConnect ==
    /\ InScript /\ calls < MaxCalls
    /\ \E ok \in BOOLEAN :
          /\ ok \/ faults < MaxFaults
          /\ faults' = IF ok THEN faults ELSE faults + 1
          /\ c' = DoConnect(c, ok)
    /\ calls' = calls + 1

CallClose ==
    /\ InScript /\ calls < MaxCalls
    /\ c' = Disconnect(c)
    /\ calls' = calls + 1
    /\ UNCHANGED faults

-----------------------------------------------------------------------------
(* Callbacks of the event loop *)

Open == c.in = "loop" /\ c.socket = "dialing" /\ Try(LAMBDA ok : OnOpen(c, ok))

ConnectError == c.in = "loop" /\ c.socket = "dialing" /\ Fault(SocketClosed(c))

PeerCloses == c.in = "loop" /\ c.socket = "open" /\ Fault(SocketClosed(c))

Writable ==
    /\ c.in = "loop" /\ c.socket = "open" /\ c.written # <<>>
    /\ c' = UpdatePollRef(SendNextCommand(c, TRUE))
    /\ UNCHANGED <<faults, calls>>

(* on_connection_timeout *)
TimerFires ==
    /\ c.in = "loop" /\ c.timer
    /\ Fault(LET t == [c EXCEPT !.timer = FALSE] IN
             IF t.status = "Connected" /\ ~IdleTimeout THEN t ELSE Fail(t))

RetryTimerFires ==
    /\ c.in = "loop" /\ c.retryTimer
    /\ Try(LAMBDA ok : Reconnect(c, ok))

(* ValkeyDeferredClose::run *)
DeferredClose ==
    /\ c.in = "loop" /\ c.deferred
    /\ c' = UpdatePollRef(OnClose([c EXCEPT !.deferred = FALSE, !.status = "Disconnected"]))
    /\ UNCHANGED <<faults, calls>>

(* after the microtasks *)
AutoFlush == InScript /\ c.flusher /\ Try(LAMBDA ok : OnAutoFlush(c, ok))

(* on_data: the answers to the first n requests arrive together. *)
Data ==
    /\ c.in = "loop" /\ c.socket = "open"
    /\ \E n \in 1..Len(c.wire) :
          c' = [c EXCEPT !.in = "reply", !.same = TRUE,
                         !.replies = SubSeq(c.wire, 1, n),
                         !.wire = SubSeq(@, n + 1, Len(@))]
    /\ UNCHANGED <<faults, calls>>

Reply ==
    /\ c.in = "reply"
    /\ Try(LAMBDA ok : [HandleResponse([c EXCEPT !.replies = Tail(@)], ok) EXCEPT !.in = "script"])

(* Slip: the replies left over are handled, whatever became of the socket. *)
SlipNoSocketCheck ==
    /\ c.in = "script"
    /\ Try(LAMBDA ok :
          LET t == SendNextCommand(c, ok) IN
          IF t.replies = <<>> THEN EndOfData(t) ELSE [t EXCEPT !.in = "reply"])

(* After a reply the loop of on_data goes on only on the same socket. *)
Continue ==
    /\ c.in = "script"
    /\ Try(LAMBDA ok :
          IF ~c.same THEN EndOfData(c)
          ELSE LET t == SendNextCommand(c, ok) IN
               IF t.replies = <<>> THEN EndOfData(t) ELSE [t EXCEPT !.in = "reply"])

-----------------------------------------------------------------------------
Callback ==
    \/ Open \/ Writable \/ RetryTimerFires \/ DeferredClose \/ AutoFlush
    \/ Data \/ Reply \/ Continue

Next ==
    \/ Callback
    \/ ConnectError \/ PeerCloses \/ TimerFires
    \/ CallConnect \/ CallClose \/ \E k \in Commands : CallSend(k)

(* The event loop turns, the network and the server get around to everything.
   Scripts and faults are bounded, so one condition is enough. *)
Spec == Init /\ [][Next]_vars /\ WF_vars(Callback)

-----------------------------------------------------------------------------
(* Properties *)

(* The requests on this connection whose answers have not been handled. *)
Outstanding(s) == (IF s.same THEN s.replies ELSE <<>>) \o s.wire \o s.written

(* The requests of the handshake whose answers have not been handled. *)
Handshake(s) ==
    IF s.status # "Connected" THEN IF Database THEN <<Hello, Select>> ELSE <<Hello>>
    ELSE IF s.selecting THEN <<Select>> ELSE <<>>

(* The answers still to come on this very connection are those to the rest of
   the handshake and then, in order, to the commands in flight: an answer never
   settles another command's promise, and no answer of a closed connection
   settles one. *)
InFlightMatchesWire ==
    IF c.socket = "open"
    THEN Outstanding(c) = Handshake(c) \o c.inFlight
    ELSE c.inFlight = <<>>

(* s are elements of t, in the order they have there. *)
InOrder(s, t) ==
    /\ Range(s) \subseteq Range(t)
    /\ \A i, j \in DOMAIN s : i < j =>
          \E x, y \in DOMAIN t : x < y /\ t[x] = s[i] /\ t[y] = s[j]

(* Commands are put on the wire in the order of their calls, and one that does
   not support pipelining only when everything before it has been answered. *)
CallOrderKept ==
    /\ InOrder(c.inFlight \o c.queue, c.sent)
    /\ \A i \in 2..Len(c.inFlight) : c.inFlight[i] \in Pipelined

(* Between two callbacks the client keeps the event loop alive exactly as long
   as something is going on, and then there is an event to come that moves it
   on: else the process would end with commands pending, or never. *)
AliveForAReason ==
    c.in = "loop" =>
        /\ c.poll = Activity(c)
        /\ Activity(c) => \/ c.deferred \/ c.retryTimer \/ c.socket = "dialing"
                          \/ c.socket = "open" /\ (c.flusher \/ c.wire \o c.written # <<>>)

(* Whatever fails, every command and every connect() is settled. *)
EverythingSettles ==
    /\ c.promise ~> ~c.promise
    /\ \A k \in Commands : (c.fate[k] = "waiting") ~> (c.fate[k] \in {"answered", "rejected"})
=============================================================================
