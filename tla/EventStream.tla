----------------------------- MODULE EventStream -----------------------------
(* The SDK's event stream: typed subscriptions multiplexed over a WebSocket  *)
(* that is reopened with backoff.                                            *)
(*                                                                           *)
(* What makes it hard is that nothing ties a handler to the socket the       *)
(* stream now uses: every socket ever opened keeps its handlers, and they    *)
(* all write the same fields (ws, status, the timers).  The sockets are      *)
(* therefore kept apart from `ws`, the one the stream believes in, and each  *)
(* event of each socket is an action.                                        *)
(*                                                                           *)
(* The stream also calls out, in the middle of its handlers: a listener of   *)
(* 'close' or 'reconnecting' may call close() or connect() before the        *)
(* handler goes on.  A handler is therefore a sequence of steps over a       *)
(* working copy of the stream's fields (records like Fields), those that     *)
(* call out with a set of outcomes, and its action takes one of the copies   *)
(* it can end with.  What a listener calls at the end of a handler, or where *)
(* it comes to the same, is a call of the application after it.              *)
EXTENDS Integers, Sequences, FiniteSets, Functions

CONSTANTS
    Type,           \* event types: the modelled part of STREAM_EVENT_TYPES
    Token,          \* token addresses an event can be about
    NoFilter,       \* the filter of a subscription that gave none
    Socket,         \* identities of WebSocket objects, reused once closed
    NoSocket,       \* the value of `ws` when it is null
    Pong,           \* the relay's answer to a ping
    AutoReconnect,  \* config.autoReconnect
    MaxAttempts,    \* config.maxReconnectAttempts
    Heartbeat,      \* config.heartbeatIntervalMs and heartbeatTimeoutMs > 0
    Listeners,      \* the methods a lifecycle listener may call, once in an event
    MaxSubs,        \* bound: subscriptions made
    MaxCalls,       \* bound: calls to connect() and close(), listeners' included
    MaxEvents       \* bound: events the relay publishes

ASSUME StreamAssumption ==
    /\ MaxAttempts \in Nat /\ MaxSubs \in Nat
    /\ MaxCalls \in Nat /\ MaxEvents \in Nat
    /\ AutoReconnect \in BOOLEAN /\ Heartbeat \in BOOLEAN
    /\ Listeners \subseteq {"close", "connect"}
    /\ NoSocket \notin Socket /\ NoFilter \notin Token /\ Pong \notin Nat

VARIABLES
    status,         \* this.status
    ws,             \* this.ws
    sockets,        \* what each WebSocket object, and the relay's end of it, hold
    subs,           \* this.subscriptions, by id
    nextId,         \* this.nextSubscriptionId
    attempts,       \* this.reconnectAttempts
    manuallyClosed, \* this.manuallyClosed
    retryTimer,     \* the reconnect timer is armed
    connectTimer,   \* the connect timeout `this.connectTimeoutTimer` names is armed
    strayTimers,    \* armed connect timeouts whose handle was overwritten
    beating,        \* the heartbeat interval is running
    staleTimer,     \* the stale timer is armed
    calls,          \* calls made so far to connect() and close()
    events,         \* what the relay has published
    heard           \* how often each subscription was called for each event

stream == <<status, ws, sockets, attempts, manuallyClosed, retryTimer, connectTimer,
            strayTimers, beating, staleTimer, calls>>
outside == <<events, heard>>
vars == <<stream, subs, nextId, outside>>

Statuses == {"idle", "connecting", "open", "reconnecting", "closed"}
Unused == [state |-> "unused", reg |-> {}, inbox |-> {}]

(* isOpen(): the socket the stream believes in is open, and so is the stream. *)
Usable(sk, w) == w # NoSocket /\ sk[w].state = "open"
IsOpen == Usable(sockets, ws) /\ status = "open"

Wanted(ss) == {ss[i].event : i \in DOMAIN ss}

(* An event passes a filter that names its token, or no filter at all. *)
EventMatchesFilter(event, filter) == filter \in {NoFilter, event.token}

(* The working copy a handler starts from, and the one it ends with. *)
Fields ==
    [status |-> status, ws |-> ws, sockets |-> sockets, attempts |-> attempts,
     manual |-> manuallyClosed, retry |-> retryTimer, connect |-> connectTimer,
     strays |-> strayTimers, beating |-> beating, stale |-> staleTimer, calls |-> calls]

Becomes(f) ==
    /\ status' = f.status /\ ws' = f.ws /\ sockets' = f.sockets
    /\ attempts' = f.attempts /\ manuallyClosed' = f.manual
    /\ retryTimer' = f.retry /\ connectTimer' = f.connect /\ strayTimers' = f.strays
    /\ beating' = f.beating /\ staleTimer' = f.stale /\ calls' = f.calls

(* close() on a socket: its close event comes later. *)
Closing(sk, w) ==
    IF w = NoSocket THEN sk ELSE [sk EXCEPT ![w].state = "closing"]

Init ==
    /\ status = "idle" /\ ws = NoSocket
    /\ sockets = [s \in Socket |-> Unused]
    /\ subs = <<>> /\ nextId = 1 /\ attempts = 0 /\ manuallyClosed = FALSE
    /\ retryTimer = FALSE /\ connectTimer = FALSE /\ strayTimers = 0
    /\ beating = FALSE /\ staleTimer = FALSE
    /\ events = <<>> /\ calls = 0
    /\ heard = [i \in 1..MaxSubs |-> [e \in 1..MaxEvents |-> 0]]

-----------------------------------------------------------------------------
(* Closing, opening and reconnecting *)

\* Mutant: close() leaves the reconnect timer armed.
ClosedButRetrying(f) ==
    [f EXCEPT !.manual = TRUE, !.status = "closed", !.connect = FALSE, !.beating = FALSE,
              !.stale = FALSE, !.sockets = Closing(f.sockets, f.ws), !.ws = NoSocket]

(* close() *)
Closed(f) ==
    [f EXCEPT !.manual = TRUE, !.status = "closed", !.retry = FALSE, !.connect = FALSE,
              !.beating = FALSE, !.stale = FALSE,
              !.sockets = Closing(f.sockets, f.ws), !.ws = NoSocket]

(* A call to connect() or close(), by the application or by a listener. *)
Call(f) == [f EXCEPT !.calls = @ + 1]
Calls(f, method) == method \in Listeners /\ f.calls < MaxCalls

(* The copies a listener that may call close() leaves. *)
MaybeClosed(f) == {f} \cup (IF Calls(f, "close") THEN {Closed(Call(f))} ELSE {})

GivesUp(f) == ~AutoReconnect \/ f.manual \/ f.attempts >= MaxAttempts

\* Mutant: says it is reconnecting before it knows whether it will.
ScheduledTooSoon(f) ==
    IF GivesUp(f) THEN {[f EXCEPT !.status = "reconnecting"]}
    ELSE {[g EXCEPT !.retry = TRUE] :
            g \in MaybeClosed([f EXCEPT !.status = "reconnecting", !.attempts = @ + 1])}

\* Mutant: attempts are not counted.
ScheduledForEver(f) ==
    IF GivesUp(f) THEN {[f EXCEPT !.status = "closed"]}
    ELSE {[g EXCEPT !.retry = TRUE] : g \in MaybeClosed([f EXCEPT !.status = "reconnecting"])}

(* scheduleReconnect(): the listeners of 'reconnecting' are called before    *)
(* the timer is armed.                                                       *)
Scheduled(f) ==
    IF GivesUp(f) THEN {[f EXCEPT !.status = "closed"]}
    ELSE {[g EXCEPT !.retry = TRUE] :
            g \in MaybeClosed([f EXCEPT !.status = "reconnecting", !.attempts = @ + 1])}

(* An identity for a new socket, if one is left. *)
Fresh(sk) ==
    IF \E s \in Socket : sk[s] = Unused THEN {CHOOSE s \in Socket : sk[s] = Unused} ELSE {}

(* openSocket(): a new socket replaces `ws`, whatever `ws` was; or the       *)
(* constructor throws, which leaves `ws` and asks for another attempt.       *)
Opened(f) ==
    {[f EXCEPT !.status = "connecting", !.ws = s, !.sockets[s].state = "connecting",
               !.connect = TRUE, !.strays = IF f.connect THEN @ + 1 ELSE @] :
       s \in Fresh(f.sockets)}
    \cup Scheduled([f EXCEPT !.status = "connecting"])

(* connect() *)
Connected(f) ==
    IF f.status \in {"connecting", "open"} THEN {f} ELSE Opened([f EXCEPT !.manual = FALSE])

(* forceReconnect(): gives up `ws` without waiting for its close event. *)
Forced(f) ==
    LET g == [f EXCEPT !.sockets = Closing(f.sockets, f.ws), !.ws = NoSocket,
                       !.beating = FALSE, !.stale = FALSE]
    IN  IF f.manual THEN {g} ELSE Scheduled(g)

-----------------------------------------------------------------------------
(* What the application calls *)

Connect ==
    /\ calls < MaxCalls
    /\ \E f \in Connected(Call(Fields)) : Becomes(f)
    /\ UNCHANGED <<subs, nextId, outside>>

Close ==
    /\ calls < MaxCalls
    /\ Becomes(Closed(Call(Fields)))
    /\ UNCHANGED <<subs, nextId, outside>>

(* subscribe(): registers at the relay when open, connects when never tried. *)
Subscribe(event, filter) ==
    /\ nextId <= MaxSubs /\ nextId' = nextId + 1
    /\ subs' = [i \in DOMAIN subs \cup {nextId} |->
                  IF i = nextId THEN [event |-> event, filter |-> filter] ELSE subs[i]]
    /\ IF status = "idle"
       THEN \E f \in Connected(Fields) : Becomes(f)
       ELSE Becomes([Fields EXCEPT !.sockets =
                       IF IsOpen THEN [sockets EXCEPT ![ws].reg = @ \cup {event}] ELSE sockets])
    /\ UNCHANGED outside

\* Mutant: the relay is told even when another subscription needs the type.
UnsubscribeAlways(i) ==
    /\ subs' = Restrict(subs, DOMAIN subs \ {i})
    /\ Becomes([Fields EXCEPT !.sockets =
                  IF IsOpen THEN [sockets EXCEPT ![ws].reg = @ \ {subs[i].event}] ELSE sockets])
    /\ UNCHANGED <<nextId, outside>>

(* The function subscribe() returned: the relay is told only when no other   *)
(* subscription needs the type.                                              *)
Unsubscribe(i) ==
    LET left == Restrict(subs, DOMAIN subs \ {i}) IN
    /\ subs' = left
    /\ Becomes([Fields EXCEPT !.sockets =
                  IF IsOpen /\ subs[i].event \notin Wanted(left)
                  THEN [sockets EXCEPT ![ws].reg = @ \ {subs[i].event}] ELSE sockets])
    /\ UNCHANGED <<nextId, outside>>

-----------------------------------------------------------------------------
(* The handlers of each socket.  None of them asks whether it is still `ws`. *)

(* onopen, with startHeartbeat: every subscription is sent over `ws`. *)
OnOpen(s) ==
    LET opened == [sockets EXCEPT ![s].state = "open"] IN
    /\ sockets[s].state = "connecting"
    /\ Becomes([Fields EXCEPT
                  !.sockets = IF Usable(opened, ws)
                              THEN [opened EXCEPT ![ws].reg = @ \cup Wanted(subs)] ELSE opened,
                  !.status = "open", !.attempts = 0, !.connect = FALSE,
                  !.beating = Heartbeat, !.stale = Heartbeat])
    /\ UNCHANGED <<subs, nextId, outside>>

(* The copies that the listeners of 'close' leave: by then `ws` is null, but *)
(* the stream has neither been scheduled nor set to closed.                  *)
Told(f) == MaybeClosed(f) \cup (IF Calls(f, "connect") THEN Connected(Call(f)) ELSE {})

(* onclose *)
OnClose(s) ==
    LET gone == [Fields EXCEPT !.sockets[s] = Unused, !.ws = NoSocket, !.connect = FALSE,
                               !.beating = FALSE, !.stale = FALSE]
    IN  /\ sockets[s].state \in {"connecting", "open", "closing"}
        /\ \E f \in Told(gone) :
              \E g \in IF f.manual THEN {[f EXCEPT !.status = "closed"]} ELSE Scheduled(f) :
                 Becomes(g)
        /\ UNCHANGED <<subs, nextId, outside>>

(* handleRawMessage(): who is called for an event of the relay. *)
Called(event) ==
    {i \in DOMAIN subs : subs[i].event = event.type
                         /\ EventMatchesFilter(event, subs[i].filter)}

(* onmessage, with resetStaleTimer.  A closing socket still delivers what    *)
(* had already reached it.                                                   *)
OnMessage(s, m) ==
    /\ sockets[s].state \in {"open", "closing"}
    /\ m \in sockets[s].inbox
    /\ Becomes([Fields EXCEPT !.sockets[s].inbox = @ \ {m}, !.stale = Heartbeat \/ staleTimer])
    /\ heard' = IF m = Pong THEN heard
                ELSE [i \in DOMAIN heard |->
                        IF i \in Called(events[m]) THEN [heard[i] EXCEPT ![m] = @ + 1]
                                                   ELSE heard[i]]
    /\ UNCHANGED <<subs, nextId, events>>

-----------------------------------------------------------------------------
(* Timers *)

(* The heartbeat interval: a ping over `ws`, which the relay answers. *)
Ping ==
    /\ beating /\ IsOpen
    /\ Becomes([Fields EXCEPT !.sockets[ws].inbox = @ \cup {Pong}])
    /\ UNCHANGED <<subs, nextId, outside>>

(* The reconnect timer does not ask whether the stream was closed. *)
RetryFires ==
    /\ retryTimer
    /\ \E f \in Opened([Fields EXCEPT !.retry = FALSE]) : Becomes(f)
    /\ UNCHANGED <<subs, nextId, outside>>

StaleFires ==
    /\ staleTimer
    /\ \E f \in Forced(Fields) : Becomes(f)
    /\ UNCHANGED <<subs, nextId, outside>>

(* A connect timeout acts on whatever is connecting when it fires. *)
TimedOut(f) == IF status = "connecting" THEN Forced(f) ELSE {f}

ConnectTimeout ==
    /\ \/ /\ connectTimer
          /\ \E f \in TimedOut([Fields EXCEPT !.connect = FALSE]) : Becomes(f)
       \/ /\ strayTimers > 0
          /\ \E f \in TimedOut([Fields EXCEPT !.strays = @ - 1]) : Becomes(f)
    /\ UNCHANGED <<subs, nextId, outside>>

(* The relay publishes an event to every connection registered for its type. *)
Publish(event) ==
    /\ Len(events) < MaxEvents /\ events' = Append(events, event)
    /\ Becomes([Fields EXCEPT !.sockets =
                  [s \in Socket |->
                     IF sockets[s].state = "open" /\ event.type \in sockets[s].reg
                     THEN [sockets[s] EXCEPT !.inbox = @ \cup {Len(events) + 1}]
                     ELSE sockets[s]]])
    /\ UNCHANGED <<subs, nextId, heard>>

Next ==
    \/ Connect \/ Close \/ Ping \/ RetryFires \/ StaleFires \/ ConnectTimeout
    \/ \E type \in Type, filter \in Token \cup {NoFilter} : Subscribe(type, filter)
    \/ \E i \in DOMAIN subs : Unsubscribe(i)
    \/ \E s \in Socket : OnOpen(s) \/ OnClose(s)
    \/ \E s \in Socket : \E m \in sockets[s].inbox : OnMessage(s, m)
    \/ \E type \in Type, token \in Token : Publish([type |-> type, token |-> token])

(* Timers that are armed fire, and a socket that was closed reports it. *)
Fairness ==
    /\ WF_vars(RetryFires) /\ WF_vars(StaleFires) /\ WF_vars(ConnectTimeout)
    /\ \A s \in Socket : WF_vars(sockets[s].state = "closing" /\ OnClose(s))

Spec == Init /\ [][Next]_vars /\ Fairness

-----------------------------------------------------------------------------
(* Properties *)

SocketRecord ==
    [state : {"unused", "connecting", "open", "closing"},
     reg : SUBSET Type, inbox : SUBSET (1..MaxEvents \cup {Pong})]

StreamTyped ==
    /\ status \in Statuses /\ ws \in Socket \cup {NoSocket}
    /\ sockets \in [Socket -> SocketRecord]
    /\ attempts \in 0..MaxAttempts /\ strayTimers \in Nat
    /\ manuallyClosed \in BOOLEAN /\ retryTimer \in BOOLEAN /\ connectTimer \in BOOLEAN
    /\ beating \in BOOLEAN /\ staleTimer \in BOOLEAN /\ calls \in Nat

SubscriptionsTyped ==
    /\ nextId \in 1..(MaxSubs + 1) /\ DOMAIN subs \subseteq 1..(nextId - 1)
    /\ \A i \in DOMAIN subs : subs[i] \in [event : Type, filter : Token \cup {NoFilter}]

EventsTyped == events \in Seq([type : Type, token : Token]) /\ Len(events) <= MaxEvents

TypeOK == StreamTyped /\ SubscriptionsTyped /\ EventsTyped

(* Whenever the stream reports itself open over a live socket, the relay     *)
(* knows every type a subscription wants on that very socket: subscriptions  *)
(* made while connecting, kept across a reconnect, or sharing a type with    *)
(* one that was dropped are all registered (onopen, subscribe, unsubscribe). *)
RegisteredWhenOpen == IsOpen => Wanted(subs) \subseteq sockets[ws].reg

(* Some socket starts to connect in this step. *)
SomeSocketStarts ==
    \E s \in Socket : sockets'[s].state = "connecting" /\ sockets[s].state # "connecting"

(* close() stops reconnecting, whatever timers and late handlers still run,  *)
(* but for one attempt: while the stream is manually closed a socket starts  *)
(* to connect only when a retry fires, which is then used up, and a retry is *)
(* armed only when the call to close() came from a listener of the very      *)
(* attempt that armed it.                                                    *)
ClosedOpensNothingElse ==
    [][manuallyClosed' =>
          /\ SomeSocketStarts => retryTimer /\ ~retryTimer'
          /\ retryTimer' => \/ retryTimer /\ manuallyClosed
                            \/ attempts' > attempts]_vars

(* A stream that waits has something under way that ends the wait: the       *)
(* reconnect timer while reconnecting; a connect timeout while connecting,   *)
(* or, once it was closed, a socket whose close event is to come.  This is   *)
(* so even when late handlers of older sockets clear timers that are not     *)
(* theirs and listeners close or connect in the middle of a handler.         *)
NeverStranded ==
    /\ status = "reconnecting" => retryTimer
    /\ status = "connecting" =>
          \/ connectTimer
          \/ manuallyClosed /\ \E s \in Socket : sockets[s].state = "closing"

(* Every attempt to connect ends: the stream gets open, or gives up after    *)
(* MaxAttempts and says so (openSocket, scheduleReconnect and its timers).   *)
AttemptsEnd == status \in {"connecting", "reconnecting"} ~> status \in {"open", "closed"}

-----------------------------------------------------------------------------
(* What the repository's words say and the code does not do.  Each was       *)
(* refuted by TLC; the README tells the shortest behaviour that does it.     *)

(* eventStream.ts:200 says that close() stops reconnecting: while the stream *)
(* is manually closed no socket starts to connect.                           *)
ClosedOpensNothing == [][manuallyClosed' => ~SomeSocketStarts]_vars

(* eventStream.ts:3 says one connection carries all subscriptions: no        *)
(* subscription is called twice for one event.                               *)
HeardOnce == \A i \in DOMAIN heard : \A e \in DOMAIN heard[i] : heard[i][e] <= 1
=============================================================================
