-------------------------- MODULE EventStreamProofs ---------------------------
(* The event stream, for every number of sockets, subscriptions, attempts    *)
(* and calls: it is never left waiting for nothing, a closed one tries at    *)
(* most what its own listeners made it try, and what it listens to is        *)
(* registered at the relay.                                                  *)
(*                                                                           *)
(* A handler works on a copy of the stream's fields, so the lemmas about     *)
(* what close(), scheduleReconnect and openSocket leave are about copies, in *)
(* whatever state of the stream the handler runs; each action then says what *)
(* its copy was and which it ends with.                                      *)
EXTENDS EventStream, TLAPS

Copies ==
    [status : Statuses, ws : Socket \cup {NoSocket}, sockets : [Socket -> SocketRecord],
     attempts : 0..MaxAttempts, manual : BOOLEAN, retry : BOOLEAN, connect : BOOLEAN,
     strays : Nat, beating : BOOLEAN, stale : BOOLEAN, calls : Nat]

SomeCloses(f) == \E s \in Socket : f.sockets[s].state = "closing"

\* What the stream waits for is under way.  Beside a timer, or a close event, it has
\* a socket to give up while it connects.
Waits(f) ==
    /\ f.status = "reconnecting" => f.retry
    /\ f.status = "connecting" =>
          /\ f.connect \/ (f.manual /\ SomeCloses(f))
          /\ f.ws # NoSocket \/ (f.manual /\ SomeCloses(f))

\* Which sockets began to connect between the sockets sk and the copy f.
NoneStarts(sk, f) ==
    \A s \in Socket : f.sockets[s].state = "connecting" => sk[s].state = "connecting"
OnlyItsOwnStarts(sk, f) ==
    \A s \in Socket : f.sockets[s].state = "connecting" => sk[s].state = "connecting" \/ s = f.ws

\* What a manually closed stream may do from copy f to copy g.
ClosedStep(f, g) ==
    g.manual =>
       /\ NoneStarts(f.sockets, g) \/ (f.retry /\ ~g.retry)
       /\ g.retry => (f.retry /\ f.manual) \/ g.attempts > f.attempts

IInv == TypeOK /\ Waits(Fields) /\ RegisteredWhenOpen

-----------------------------------------------------------------------------
(* What the steps of a handler leave *)

\* The close frame of one socket changes its state only.
LEMMA ClosingLeavesTheRest ==
  ASSUME NEW sk \in [Socket -> SocketRecord], NEW w \in Socket \cup {NoSocket}
  PROVE  /\ Closing(sk, w) \in [Socket -> SocketRecord]
         /\ \A s \in Socket : /\ Closing(sk, w)[s].reg = sk[s].reg
                              /\ Closing(sk, w)[s].state \in {sk[s].state, "closing"}
         /\ w \in Socket => Closing(sk, w)[w].state = "closing"
BY StreamAssumption DEF Closing, SocketRecord

\* close() and a call to it, in the middle of a handler or not.
LEMMA ClosedLeaves ==
  ASSUME NEW f \in Copies
  PROVE  /\ Closed(f) \in Copies
         /\ Closed(f).manual /\ Closed(f).status = "closed" /\ ~Closed(f).retry
         /\ Closed(f).sockets = Closing(f.sockets, f.ws) /\ Closed(f).ws = NoSocket
         /\ Closed(f).attempts = f.attempts
<1>1. f.sockets \in [Socket -> SocketRecord] /\ f.ws \in Socket \cup {NoSocket}
  BY DEF Copies
<1>2. Closing(f.sockets, f.ws) \in [Socket -> SocketRecord]
  BY <1>1, ClosingLeavesTheRest
<1> QED BY <1>2 DEF Closed, Copies, Statuses

\* The count of calls is all a call changes before it is carried out.
LEMMA CallLeaves ==
  ASSUME NEW f \in Copies
  PROVE  /\ Call(f) \in Copies
         /\ Call(f).status = f.status /\ Call(f).ws = f.ws /\ Call(f).sockets = f.sockets
         /\ Call(f).attempts = f.attempts /\ Call(f).manual = f.manual
         /\ Call(f).retry = f.retry /\ Call(f).connect = f.connect
BY DEF Call, Copies

\* A listener closes the stream, or leaves it.
LEMMA ListenersLeave ==
  ASSUME NEW f \in Copies, NEW g \in MaybeClosed(f)
  PROVE  /\ g \in Copies
         /\ \/ g = f
            \/ /\ g.manual /\ g.status = "closed" /\ ~g.retry /\ g.ws = NoSocket
               /\ g.sockets = Closing(f.sockets, f.ws) /\ g.attempts = f.attempts
<1>1. g = f \/ g = Closed(Call(f))
  BY DEF MaybeClosed
<1> QED BY <1>1, CallLeaves, ClosedLeaves

\* scheduleReconnect: the stream is closed, or a retry is armed, whatever its
\* listeners did in between.
LEMMA ScheduledLeaves ==
  ASSUME NEW f \in Copies, NEW g \in Scheduled(f)
  PROVE  /\ g \in Copies /\ g.attempts >= f.attempts
         /\ g.status \in {"closed", "reconnecting"} /\ (g.status = "reconnecting" => g.retry)
         /\ f.manual => /\ g.manual /\ g.retry = f.retry /\ g.sockets = f.sockets
                        /\ g.attempts = f.attempts
         /\ ~f.manual /\ g.manual => /\ g.attempts > f.attempts
                                     /\ g.sockets = Closing(f.sockets, f.ws)
         /\ ~g.manual => g.sockets = f.sockets /\ g.ws = f.ws
<1>1. f.attempts \in 0..MaxAttempts /\ MaxAttempts \in Nat
  BY StreamAssumption DEF Copies
<1>2. CASE GivesUp(f)
  <2>1. g = [f EXCEPT !.status = "closed"]
    BY <1>2 DEF Scheduled
  <2> QED BY <1>1, <2>1 DEF Copies, Statuses
<1>3. CASE ~GivesUp(f)
  <2> DEFINE h == [f EXCEPT !.status = "reconnecting", !.attempts = @ + 1]
  <2>1. ~f.manual /\ ~(f.attempts >= MaxAttempts)
    BY <1>3 DEF GivesUp
  <2>2. /\ h \in Copies /\ h.status = "reconnecting" /\ h.attempts = f.attempts + 1
        /\ ~h.manual /\ h.sockets = f.sockets /\ h.ws = f.ws
    <3>1. f.attempts + 1 \in 0..MaxAttempts
      BY <1>1, <2>1
    <3> QED BY <2>1, <3>1 DEF Copies, Statuses
  <2>3. PICK k \in MaybeClosed(h) : g = [k EXCEPT !.retry = TRUE]
    BY <1>3, Zenon DEF Scheduled
  <2> HIDE DEF h
  <2>4. /\ k \in Copies
        /\ \/ k = h
           \/ /\ k.manual /\ k.status = "closed" /\ k.ws = NoSocket
              /\ k.sockets = Closing(h.sockets, h.ws) /\ k.attempts = h.attempts
    BY <2>2, <2>3, ListenersLeave
  <2>5. /\ g \in Copies /\ g.retry /\ g.status = k.status /\ g.manual = k.manual
        /\ g.sockets = k.sockets /\ g.ws = k.ws /\ g.attempts = k.attempts
    BY <2>3, <2>4 DEF Copies
  <2>6. g.attempts > f.attempts /\ g.attempts >= f.attempts
    BY <1>1, <2>2, <2>4, <2>5
  <2>7. g.status \in {"closed", "reconnecting"}
    BY <2>2, <2>4, <2>5
  <2>8. g.manual => g.sockets = Closing(f.sockets, f.ws)
    BY <2>2, <2>4, <2>5, Zenon
  <2>9. ~g.manual => g.sockets = f.sockets /\ g.ws = f.ws
    BY <2>2, <2>4, <2>5, Zenon
  <2> QED BY <2>1, <2>5, <2>6, <2>7, <2>8, <2>9, Zenon
<1> QED BY <1>2, <1>3

\* openSocket: the stream connects under a timeout, or it is as scheduleReconnect
\* leaves it; a socket that a stream closed in between had opened is closing again.
LEMMA OpenedLeaves ==
  ASSUME NEW f \in Copies, NEW g \in Opened(f)
  PROVE  /\ g \in Copies /\ Waits(g) /\ g.status # "open" /\ g.attempts >= f.attempts
         /\ f.manual => g.manual /\ g.retry = f.retry
         /\ ~f.manual /\ g.manual => g.attempts > f.attempts /\ NoneStarts(f.sockets, g)
         /\ OnlyItsOwnStarts(f.sockets, g)
<1>1. f.attempts \in 0..MaxAttempts /\ f.sockets \in [Socket -> SocketRecord]
      /\ f.ws \in Socket \cup {NoSocket} /\ f.strays \in Nat
  BY DEF Copies
<1>2. ASSUME NEW s \in Fresh(f.sockets),
             g = [f EXCEPT !.status = "connecting", !.ws = s, !.sockets[s].state = "connecting",
                           !.connect = TRUE, !.strays = IF f.connect THEN @ + 1 ELSE @]
      PROVE  /\ g \in Copies /\ g.manual = f.manual /\ g.retry = f.retry /\ g.connect
             /\ g.ws = s /\ s \in Socket /\ g.status = "connecting" /\ g.attempts = f.attempts
             /\ g.sockets = [f.sockets EXCEPT ![s].state = "connecting"]
  <2>1. s \in Socket
    BY <1>2 DEF Fresh
  <2>2. [f.sockets EXCEPT ![s].state = "connecting"] \in [Socket -> SocketRecord]
    BY <1>1, <2>1 DEF SocketRecord
  <2>3. (IF f.connect THEN f.strays + 1 ELSE f.strays) \in Nat
    BY <1>1
  <2>4. g.sockets = [f.sockets EXCEPT ![s].state = "connecting"]
    BY <1>2 DEF Copies
  <2> QED BY <1>2, <2>1, <2>2, <2>3, <2>4 DEF Copies, Statuses
<1>3. ASSUME NEW s \in Fresh(f.sockets),
             g = [f EXCEPT !.status = "connecting", !.ws = s, !.sockets[s].state = "connecting",
                           !.connect = TRUE, !.strays = IF f.connect THEN @ + 1 ELSE @]
      PROVE  /\ Waits(g) /\ OnlyItsOwnStarts(f.sockets, g) /\ g.attempts >= f.attempts
             /\ g \in Copies /\ g.manual = f.manual /\ g.retry = f.retry /\ g.status # "open"
  <2>1. /\ g \in Copies /\ g.manual = f.manual /\ g.retry = f.retry /\ g.connect
        /\ g.ws = s /\ s \in Socket /\ g.status = "connecting" /\ g.attempts = f.attempts
        /\ g.sockets = [f.sockets EXCEPT ![s].state = "connecting"]
    BY <1>2, <1>3
  <2>2. OnlyItsOwnStarts(f.sockets, g)
    BY <1>1, <2>1 DEF OnlyItsOwnStarts, SocketRecord
  <2> QED BY <1>1, <2>1, <2>2, StreamAssumption DEF Waits
<1>4. CASE g \in Scheduled([f EXCEPT !.status = "connecting"])
  <2> DEFINE h == [f EXCEPT !.status = "connecting"]
  <2>1. /\ h \in Copies /\ h.manual = f.manual /\ h.retry = f.retry /\ h.ws = f.ws
        /\ h.sockets = f.sockets /\ h.attempts = f.attempts
    BY DEF Copies, Statuses
  <2> HIDE DEF h
  <2>2. g \in Scheduled(h)
    BY <1>4 DEF h
  <2>3. /\ g \in Copies /\ g.attempts >= f.attempts
        /\ g.status \in {"closed", "reconnecting"} /\ (g.status = "reconnecting" => g.retry)
        /\ f.manual => g.manual /\ g.retry = f.retry /\ g.sockets = f.sockets
        /\ ~f.manual /\ g.manual => /\ g.attempts > f.attempts
                                    /\ g.sockets = Closing(f.sockets, f.ws)
        /\ ~g.manual => g.sockets = f.sockets
    BY <2>1, <2>2, ScheduledLeaves
  <2>4. NoneStarts(f.sockets, g)
    BY <1>1, <2>3, ClosingLeavesTheRest DEF NoneStarts, Copies
  <2> QED BY <2>3, <2>4 DEF Waits, NoneStarts, OnlyItsOwnStarts
<1>5. \/ g \in Scheduled([f EXCEPT !.status = "connecting"])
      \/ \E s \in Fresh(f.sockets) :
            g = [f EXCEPT !.status = "connecting", !.ws = s, !.sockets[s].state = "connecting",
                          !.connect = TRUE, !.strays = IF f.connect THEN @ + 1 ELSE @]
  BY Zenon DEF Opened
<1> QED BY <1>3, <1>4, <1>5 DEF Copies

\* connect(): nothing, or an attempt of a stream that is no longer manually closed.
LEMMA ConnectedLeaves ==
  ASSUME NEW f \in Copies, NEW g \in Connected(f)
  PROVE  \/ g = f
         \/ /\ g \in Copies /\ Waits(g) /\ g.status # "open" /\ g.attempts >= f.attempts
            /\ g.manual => g.attempts > f.attempts /\ NoneStarts(f.sockets, g)
            /\ OnlyItsOwnStarts(f.sockets, g)
<1>1. CASE f.status \in {"connecting", "open"}
  BY <1>1 DEF Connected
<1>2. CASE f.status \notin {"connecting", "open"}
  <2> DEFINE h == [f EXCEPT !.manual = FALSE]
  <2>1. h \in Copies /\ ~h.manual /\ h.sockets = f.sockets /\ h.attempts = f.attempts
    BY DEF Copies
  <2>2. g \in Opened(h)
    BY <1>2 DEF Connected
  <2> HIDE DEF h
  <2> QED BY <2>1, <2>2, OpenedLeaves
<1> QED BY <1>1, <1>2

\* forceReconnect: a closed stream keeps what it waits for, another schedules a retry.
LEMMA ForcedLeaves ==
  ASSUME NEW f \in Copies, NEW g \in Forced(f)
  PROVE  /\ g \in Copies /\ NoneStarts(f.sockets, g) /\ g.attempts >= f.attempts
         /\ f.manual => /\ g.manual /\ g.retry = f.retry /\ g.status = f.status
                        /\ g.connect = f.connect /\ g.ws = NoSocket
                        /\ g.attempts = f.attempts
                        /\ SomeCloses(f) \/ f.ws # NoSocket => SomeCloses(g)
         /\ ~f.manual => /\ g.status \in {"closed", "reconnecting"} /\ Waits(g)
                         /\ g.manual => g.attempts > f.attempts
<1> DEFINE h == [f EXCEPT !.sockets = Closing(f.sockets, f.ws), !.ws = NoSocket,
                          !.beating = FALSE, !.stale = FALSE]
<1>1. f.sockets \in [Socket -> SocketRecord] /\ f.ws \in Socket \cup {NoSocket}
      /\ f.attempts \in 0..MaxAttempts
  BY DEF Copies
<1>2. Closing(f.sockets, f.ws) \in [Socket -> SocketRecord]
  BY <1>1, ClosingLeavesTheRest
<1>3. /\ h \in Copies /\ h.manual = f.manual /\ h.retry = f.retry /\ h.status = f.status
      /\ h.connect = f.connect /\ h.ws = NoSocket /\ h.attempts = f.attempts
      /\ h.sockets = Closing(f.sockets, f.ws)
  BY <1>2 DEF Copies
<1>4. IF f.manual THEN g = h ELSE g \in Scheduled(h)
  BY DEF Forced
<1> HIDE DEF h
<1>5. h.ws = NoSocket /\ h.sockets \in [Socket -> SocketRecord]
  BY <1>2, <1>3
<1>6. Closing(h.sockets, h.ws) = h.sockets
  BY <1>5 DEF Closing
<1>7. NoneStarts(f.sockets, h)
  BY <1>1, <1>3, ClosingLeavesTheRest DEF NoneStarts
<1>8. CASE f.manual
  <2>1. SomeCloses(f) \/ f.ws # NoSocket => SomeCloses(h)
    <3>1. CASE f.ws # NoSocket
      BY <1>1, <1>3, <3>1, ClosingLeavesTheRest DEF SomeCloses
    <3>2. ASSUME NEW s \in Socket, f.sockets[s].state = "closing" PROVE SomeCloses(h)
      <4>1. Closing(f.sockets, f.ws)[s].state = "closing"
        BY <1>1, <3>2, ClosingLeavesTheRest
      <4> QED BY <1>3, <4>1 DEF SomeCloses
    <3> QED BY <3>1, <3>2 DEF SomeCloses
  <2>2. g = h
    BY <1>4, <1>8
  <2>3. g.attempts >= f.attempts
    BY <1>1, <1>3, <2>2, StreamAssumption
  <2> QED BY <1>3, <1>7, <1>8, <2>1, <2>2, <2>3, Zenon
<1>9. CASE ~f.manual
  <2>1. /\ g \in Copies /\ g.attempts >= h.attempts
        /\ g.status \in {"closed", "reconnecting"} /\ (g.status = "reconnecting" => g.retry)
        /\ g.manual => g.attempts > h.attempts
        /\ g.sockets = h.sockets
    BY <1>3, <1>4, <1>6, <1>9, ScheduledLeaves
  <2> QED BY <1>3, <1>7, <1>9, <2>1 DEF Waits, NoneStarts
<1> QED BY <1>8, <1>9

-----------------------------------------------------------------------------
(* The invariant *)

\* The fields as they are typed, and as a copy.
LEMMA FieldsTyped == StreamTyped <=> Fields \in Copies
BY DEF StreamTyped, Fields, Copies

\* The fields after a step that ends with copy f.
LEMMA FieldsAre == ASSUME NEW f \in Copies, Becomes(f) PROVE Fields' = f
BY DEF Becomes, Fields, Copies

\* The invariant holds in the beginning.
LEMMA InitHolds == Init => IInv
<1> SUFFICES ASSUME Init PROVE IInv
  OBVIOUS
<1>1. sockets \in [Socket -> SocketRecord]
  BY DEF Init, Unused, SocketRecord
<1>2. StreamTyped
  <2>1. attempts \in 0..MaxAttempts /\ strayTimers \in Nat /\ calls \in Nat
    BY StreamAssumption DEF Init
  <2>2. status \in Statuses /\ ws \in Socket \cup {NoSocket}
    BY DEF Init, Statuses
  <2>3. /\ manuallyClosed \in BOOLEAN /\ retryTimer \in BOOLEAN /\ connectTimer \in BOOLEAN
        /\ beating \in BOOLEAN /\ staleTimer \in BOOLEAN
    BY DEF Init
  <2> QED BY <1>1, <2>1, <2>2, <2>3, Zenon DEF StreamTyped
<1>3. SubscriptionsTyped
  BY StreamAssumption DEF Init, SubscriptionsTyped
<1>4. EventsTyped
  BY StreamAssumption DEF Init, EventsTyped
<1>5. ~IsOpen
  BY DEF Init, IsOpen, Usable
<1>6. Waits(Fields)
  BY DEF Init, Waits, Fields
<1> QED BY <1>2, <1>3, <1>4, <1>5, <1>6 DEF IInv, TypeOK, RegisteredWhenOpen

\* What a step leaves alone keeps its type.
LEMMA SubscriptionsStay ==
  ASSUME IInv, UNCHANGED <<subs, nextId>> PROVE SubscriptionsTyped'
BY DEF IInv, TypeOK, SubscriptionsTyped

\* The events stay typed while none is added.
LEMMA EventsStay == ASSUME IInv, UNCHANGED events PROVE EventsTyped'
BY DEF IInv, TypeOK, EventsTyped

\* A handler that ends with a copy that waits for something, and does not leave the
\* stream open, keeps the invariant.
LEMMA EndingKeeps ==
  ASSUME IInv, NEW f \in Copies, Becomes(f), Waits(f), f.status # "open" \/ f.ws = NoSocket,
         SubscriptionsTyped', EventsTyped'
  PROVE  IInv'
<1>1. Fields' = f
  BY FieldsAre
<1>2. StreamTyped' /\ Waits(Fields)'
  <2>1. StreamTyped' <=> Fields' \in Copies
    BY DEF StreamTyped, Fields, Copies
  <2> QED BY <1>1, <2>1 DEF Waits, SomeCloses
<1>3. RegisteredWhenOpen'
  BY DEF Becomes, RegisteredWhenOpen, IsOpen, Usable
<1> QED BY <1>2, <1>3 DEF IInv, TypeOK

\* A step that only touches what the sockets have registered or received, and timers of
\* the heartbeat.
LEMMA QuietStepKeeps ==
  ASSUME IInv, SubscriptionsTyped', EventsTyped', sockets' \in [Socket -> SocketRecord],
         \A s \in Socket : sockets'[s].state = sockets[s].state,
         RegisteredWhenOpen', staleTimer' \in BOOLEAN,
         UNCHANGED <<status, ws, attempts, manuallyClosed, retryTimer, connectTimer,
                     strayTimers, beating, calls>>
  PROVE  /\ IInv' /\ ClosedStep(Fields, Fields')
<1>1. StreamTyped'
  BY Zenon DEF IInv, TypeOK, StreamTyped
<1>2. Waits(Fields)'
  BY DEF IInv, Waits, Fields, SomeCloses
<1>3. ClosedStep(Fields, Fields')
  BY DEF ClosedStep, Fields, NoneStarts
<1> QED BY <1>1, <1>2, <1>3 DEF IInv, TypeOK

\* Each step keeps the invariant, and does only what a closed stream may.
Kept == IInv' /\ ClosedStep(Fields, Fields')

\* connect(), called by the application or by subscribe().
LEMMA ConnectedKeeps ==
  ASSUME IInv, NEW f \in Copies, f.status = status, f.ws = ws, f.sockets = sockets,
         f.attempts = attempts, f.manual = manuallyClosed, f.retry = retryTimer,
         f.connect = connectTimer,
         NEW g \in Connected(f), Becomes(g), SubscriptionsTyped', EventsTyped',
         UNCHANGED subs \/ status \notin {"connecting", "open"}
  PROVE  Kept
<1>1. CASE f.status \in {"connecting", "open"}
  <2>1. g = f
    BY <1>1 DEF Connected
  <2>2. Fields' = f
    BY <2>1, FieldsAre
  <2>3. UNCHANGED <<status, ws, sockets, subs>>
    BY <1>1, <2>1 DEF Becomes
  <2>4. RegisteredWhenOpen'
    BY <2>3, Zenon DEF IInv, RegisteredWhenOpen, IsOpen, Usable, Wanted
  <2>5. StreamTyped' /\ Waits(Fields)'
    <3>1. StreamTyped' <=> Fields' \in Copies
      BY DEF StreamTyped, Fields, Copies
    <3>2. Waits(Fields)
      BY DEF IInv
    <3> QED BY <2>2, <3>1, <3>2 DEF Waits, SomeCloses, Fields
  <2>6. ClosedStep(Fields, Fields')
    BY <2>2 DEF ClosedStep, Fields, NoneStarts
  <2> QED BY <2>4, <2>5, <2>6 DEF Kept, IInv, TypeOK
<1>2. CASE f.status \notin {"connecting", "open"}
  <2> DEFINE h == [f EXCEPT !.manual = FALSE]
  <2>1. /\ h \in Copies /\ ~h.manual /\ h.sockets = f.sockets /\ h.attempts = f.attempts
    BY DEF Copies
  <2>2. g \in Opened(h)
    BY <1>2 DEF Connected
  <2> HIDE DEF h
  <2>3. /\ g \in Copies /\ Waits(g) /\ g.status # "open"
        /\ g.manual => g.attempts > attempts /\ NoneStarts(sockets, g)
    BY <2>1, <2>2, OpenedLeaves
  <2>4. IInv' /\ Fields' = g
    BY <2>3, EndingKeeps, FieldsAre
  <2>5. Fields.sockets = sockets /\ Fields.attempts = attempts
    BY DEF Fields
  <2> QED BY <2>3, <2>4, <2>5 DEF Kept, ClosedStep
<1> QED BY <1>1, <1>2

\* The application connects.
LEMMA ConnectKeeps == ASSUME IInv, Connect PROVE Kept
<1>1. SubscriptionsTyped' /\ EventsTyped' /\ UNCHANGED subs
  BY SubscriptionsStay, EventsStay DEF Connect, outside
<1>2. Fields \in Copies
  BY FieldsTyped DEF IInv, TypeOK
<1>3. /\ Call(Fields) \in Copies
      /\ Call(Fields).status = status /\ Call(Fields).ws = ws /\ Call(Fields).sockets = sockets
      /\ Call(Fields).attempts = attempts /\ Call(Fields).manual = manuallyClosed
      /\ Call(Fields).retry = retryTimer /\ Call(Fields).connect = connectTimer
  BY <1>2, CallLeaves DEF Fields
<1>4. PICK g \in Connected(Call(Fields)) : Becomes(g)
  BY DEF Connect
<1> QED BY <1>1, <1>3, <1>4, ConnectedKeeps

\* The application closes the stream.
LEMMA CloseKeeps == ASSUME IInv, Close PROVE Kept
<1> DEFINE f == Closed(Call(Fields))
<1>1. SubscriptionsTyped' /\ EventsTyped'
  BY SubscriptionsStay, EventsStay DEF Close, outside
<1>2. Fields \in Copies
  BY FieldsTyped DEF IInv, TypeOK
<1>3. /\ f \in Copies /\ f.status = "closed" /\ ~f.retry
      /\ f.sockets = Closing(Fields.sockets, Fields.ws)
  BY <1>2, CallLeaves, ClosedLeaves
<1>4. Becomes(f)
  BY DEF Close
<1> HIDE DEF f
<1>5. IInv' /\ Fields' = f
  BY <1>1, <1>3, <1>4, EndingKeeps, FieldsAre DEF Waits
<1>6. NoneStarts(Fields.sockets, f)
  BY <1>2, <1>3, ClosingLeavesTheRest DEF NoneStarts, Copies
<1> QED BY <1>3, <1>5, <1>6 DEF Kept, ClosedStep

\* A subscription made is registered at once when the stream is open.
LEMMA SubscribeKeeps ==
  ASSUME IInv, NEW event \in Type, NEW filter \in Token \cup {NoFilter}, Subscribe(event, filter)
  PROVE  Kept
<1>1. /\ nextId <= MaxSubs /\ nextId' = nextId + 1
      /\ subs' = [i \in DOMAIN subs \cup {nextId} |->
                    IF i = nextId THEN [event |-> event, filter |-> filter] ELSE subs[i]]
  BY DEF Subscribe
<1>2. SubscriptionsTyped'
  BY <1>1, StreamAssumption DEF IInv, TypeOK, SubscriptionsTyped
<1>3. EventsTyped'
  BY EventsStay DEF Subscribe, outside
<1>4. Fields \in Copies
  BY FieldsTyped DEF IInv, TypeOK
<1>5. CASE status = "idle"
  <2>1. PICK g \in Connected(Fields) : Becomes(g)
    BY <1>5 DEF Subscribe
  <2>2. /\ Fields.status = status /\ Fields.ws = ws /\ Fields.sockets = sockets
        /\ Fields.attempts = attempts /\ Fields.manual = manuallyClosed
        /\ Fields.retry = retryTimer /\ Fields.connect = connectTimer
    BY DEF Fields
  <2> QED BY <1>2, <1>3, <1>4, <1>5, <2>1, <2>2, ConnectedKeeps
<1>6. CASE status # "idle"
  <2>1. /\ sockets' = IF IsOpen THEN [sockets EXCEPT ![ws].reg = @ \cup {event}] ELSE sockets
        /\ UNCHANGED <<status, ws, attempts, manuallyClosed, retryTimer, connectTimer,
                       strayTimers, beating, staleTimer, calls>>
    BY <1>6 DEF Subscribe, Becomes, Fields
  <2>2. /\ sockets' \in [Socket -> SocketRecord]
        /\ \A s \in Socket : sockets'[s].state = sockets[s].state
    <3>1. IsOpen => ws \in Socket
      BY DEF IInv, TypeOK, StreamTyped, IsOpen, Usable
    <3> QED BY <2>1, <3>1 DEF IInv, TypeOK, StreamTyped, SocketRecord
  <2>3. Wanted(subs') = Wanted(subs) \cup {event}
    <3>1. nextId \notin DOMAIN subs
      BY DEF IInv, TypeOK, SubscriptionsTyped
    <3>2. \A i \in DOMAIN subs : subs'[i] = subs[i]
      BY <1>1, <3>1
    <3>3. subs'[nextId].event = event /\ DOMAIN subs' = DOMAIN subs \cup {nextId}
      BY <1>1
    <3>4. \A i \in DOMAIN subs : subs'[i].event = subs[i].event
      BY <3>2
    <3> QED BY <3>3, <3>4 DEF Wanted
  <2>4. RegisteredWhenOpen'
    <3> SUFFICES ASSUME IsOpen' PROVE Wanted(subs') \subseteq sockets'[ws'].reg
      BY DEF RegisteredWhenOpen, Wanted
    <3>1. IsOpen
      BY <2>1 DEF IsOpen, Usable
    <3>2. ws \in Socket
      BY <3>1 DEF IInv, TypeOK, StreamTyped, IsOpen, Usable
    <3>3. sockets'[ws'].reg = sockets[ws].reg \cup {event}
      BY <2>1, <3>1, <3>2 DEF IInv, TypeOK, StreamTyped, SocketRecord
    <3>4. Wanted(subs) \subseteq sockets[ws].reg
      BY <3>1 DEF IInv, RegisteredWhenOpen
    <3> QED BY <2>3, <3>3, <3>4
  <2>5. staleTimer' \in BOOLEAN
    BY <2>1 DEF IInv, TypeOK, StreamTyped
  <2> QED BY <1>2, <1>3, <2>1, <2>2, <2>4, <2>5, QuietStepKeeps DEF Kept
<1> QED BY <1>5, <1>6

\* A registration is withdrawn only when no subscription is left that wants it.
LEMMA UnsubscribeKeeps ==
  ASSUME IInv, NEW i \in DOMAIN subs, Unsubscribe(i) PROVE Kept
<1> DEFINE left == Restrict(subs, DOMAIN subs \ {i})
<1>1. /\ subs' = left /\ UNCHANGED <<nextId, events>>
      /\ sockets' = IF IsOpen /\ subs[i].event \notin Wanted(left)
                    THEN [sockets EXCEPT ![ws].reg = @ \ {subs[i].event}] ELSE sockets
      /\ UNCHANGED <<status, ws, attempts, manuallyClosed, retryTimer, connectTimer,
                     strayTimers, beating, staleTimer, calls>>
  BY DEF Unsubscribe, Becomes, Fields, outside
<1>2. /\ DOMAIN left = DOMAIN subs \ {i}
      /\ \A j \in DOMAIN left : left[j] = subs[j]
  BY DEF Restrict
<1> HIDE DEF left
<1>3. SubscriptionsTyped'
  BY <1>1, <1>2 DEF IInv, TypeOK, SubscriptionsTyped
<1>4. EventsTyped'
  BY <1>1, EventsStay
<1>5. IsOpen => ws \in Socket
  BY DEF IInv, TypeOK, StreamTyped, IsOpen, Usable
<1>6. /\ sockets' \in [Socket -> SocketRecord]
      /\ \A s \in Socket : sockets'[s].state = sockets[s].state
  BY <1>1, <1>5 DEF IInv, TypeOK, StreamTyped, SocketRecord
<1>7. Wanted(left) \subseteq Wanted(subs)
  BY <1>2 DEF Wanted
<1>8. RegisteredWhenOpen'
  <2> SUFFICES ASSUME IsOpen' PROVE Wanted(left) \subseteq sockets'[ws'].reg
    BY <1>1 DEF RegisteredWhenOpen, Wanted
  <2>1. IsOpen
    <3>1. CASE IsOpen
      BY <3>1
    <3>2. CASE ~IsOpen
      BY <1>1, <3>2 DEF IsOpen, Usable
    <3> QED BY <3>1, <3>2
  <2>2. Wanted(left) \subseteq sockets[ws].reg /\ ws \in Socket
    BY <1>5, <1>7, <2>1 DEF IInv, RegisteredWhenOpen
  <2>3. CASE subs[i].event \in Wanted(left)
    BY <1>1, <2>2, <2>3
  <2>4. CASE subs[i].event \notin Wanted(left)
    <3>1. sockets'[ws'].reg = sockets[ws].reg \ {subs[i].event}
      BY <1>1, <2>1, <2>2, <2>4 DEF IInv, TypeOK, StreamTyped, SocketRecord
    <3> QED BY <2>2, <2>4, <3>1
  <2> QED BY <2>3, <2>4
<1>9. staleTimer' \in BOOLEAN
  BY <1>1 DEF IInv, TypeOK, StreamTyped
<1> QED BY <1>1, <1>3, <1>4, <1>6, <1>8, <1>9, QuietStepKeeps DEF Kept

\* Whichever socket opens, every subscription is sent over the one in use.
LEMMA OnOpenKeeps == ASSUME IInv, NEW s \in Socket, OnOpen(s) PROVE Kept
<1> DEFINE opened == [sockets EXCEPT ![s].state = "open"]
<1>1. /\ sockets' = IF Usable(opened, ws)
                    THEN [opened EXCEPT ![ws].reg = @ \cup Wanted(subs)] ELSE opened
      /\ status' = "open" /\ attempts' = 0 /\ connectTimer' = FALSE
      /\ beating' = Heartbeat /\ staleTimer' = Heartbeat
      /\ UNCHANGED <<ws, subs, nextId, manuallyClosed, retryTimer, strayTimers, calls, events>>
  BY DEF OnOpen, Becomes, Fields, outside
<1>2. /\ opened \in [Socket -> SocketRecord]
      /\ \A t \in Socket : opened[t].state \in {sockets[t].state, "open"}
  BY DEF IInv, TypeOK, StreamTyped, SocketRecord
<1> HIDE DEF opened
<1>3. Wanted(subs) \subseteq Type
  BY DEF IInv, TypeOK, SubscriptionsTyped, Wanted
<1>4. Usable(opened, ws) => ws \in Socket
  BY DEF IInv, TypeOK, StreamTyped, Usable
<1>5. /\ sockets' \in [Socket -> SocketRecord]
      /\ \A t \in Socket : sockets'[t].state \in {sockets[t].state, "open"}
  BY <1>1, <1>2, <1>3, <1>4 DEF SocketRecord
<1>6. StreamTyped'
  <2>1. status' \in Statuses /\ attempts' \in 0..MaxAttempts
    BY <1>1, StreamAssumption DEF Statuses
  <2>2. beating' \in BOOLEAN /\ staleTimer' \in BOOLEAN /\ connectTimer' \in BOOLEAN
    BY <1>1, StreamAssumption, Zenon
  <2> QED BY <1>1, <1>5, <2>1, <2>2, Zenon DEF IInv, TypeOK, StreamTyped
<1>7. SubscriptionsTyped' /\ EventsTyped'
  BY <1>1, SubscriptionsStay, EventsStay
<1>8. Waits(Fields)'
  BY <1>1 DEF Waits, Fields
<1>9. RegisteredWhenOpen'
  <2> SUFFICES ASSUME IsOpen' PROVE Wanted(subs) \subseteq sockets'[ws].reg
    BY <1>1 DEF RegisteredWhenOpen, Wanted
  <2>1. Usable(sockets', ws)
    BY <1>1 DEF IsOpen, Usable
  <2>2. CASE Usable(opened, ws)
    BY <1>1, <1>2, <1>4, <2>2 DEF SocketRecord
  <2>3. CASE ~Usable(opened, ws)
    BY <1>1, <2>1, <2>3
  <2> QED BY <2>2, <2>3
<1>10. ClosedStep(Fields, Fields')
  <2>1. NoneStarts(Fields.sockets, Fields')
    BY <1>5 DEF NoneStarts, Fields
  <2> QED BY <1>1, <2>1 DEF ClosedStep, Fields
<1> QED BY <1>6, <1>7, <1>8, <1>9, <1>10 DEF Kept, IInv, TypeOK

\* A close event of any socket makes the stream give up the one in use.  Its listeners
\* find the stream without a socket and with the status it had.
LEMMA OnCloseKeeps == ASSUME IInv, NEW s \in Socket, OnClose(s) PROVE Kept
<1> DEFINE gone == [Fields EXCEPT !.sockets[s] = Unused, !.ws = NoSocket, !.connect = FALSE,
                                  !.beating = FALSE, !.stale = FALSE]
<1>1. PICK f \in Told(gone) :
         \E g \in IF f.manual THEN {[f EXCEPT !.status = "closed"]} ELSE Scheduled(f) : Becomes(g)
  BY DEF OnClose
<1>2. PICK g \in IF f.manual THEN {[f EXCEPT !.status = "closed"]} ELSE Scheduled(f) : Becomes(g)
  BY <1>1
<1>3. SubscriptionsTyped' /\ EventsTyped'
  BY SubscriptionsStay, EventsStay DEF OnClose, outside
<1>4. Fields \in Copies
  BY FieldsTyped DEF IInv, TypeOK
<1>5. /\ gone \in Copies /\ gone.manual = manuallyClosed /\ gone.retry = retryTimer
      /\ gone.attempts = attempts /\ gone.sockets = [sockets EXCEPT ![s] = Unused]
  <2>1. [sockets EXCEPT ![s] = Unused] \in [Socket -> SocketRecord]
    BY <1>4 DEF Copies, Fields, SocketRecord, Unused
  <2> QED BY <1>4, <2>1 DEF Fields, Copies
<1> HIDE DEF gone
<1>6. NoneStarts(sockets, gone)
  BY <1>4, <1>5 DEF NoneStarts, Unused, Copies, Fields
<1>7. /\ f \in Copies /\ f.attempts >= attempts /\ OnlyItsOwnStarts(sockets, f)
      /\ f.manual => /\ NoneStarts(sockets, f)
                     /\ f.retry => (retryTimer /\ manuallyClosed) \/ f.attempts > attempts
  <2>1. attempts \in 0..MaxAttempts
    BY <1>4 DEF Copies, Fields
  <2>2. CASE f \in MaybeClosed(gone)
    <3>1. /\ f \in Copies
          /\ \/ f = gone
             \/ /\ f.manual /\ ~f.retry /\ f.attempts = gone.attempts
                /\ f.sockets = Closing(gone.sockets, gone.ws)
      BY <1>5, <2>2, ListenersLeave
    <3>2. gone.sockets \in [Socket -> SocketRecord] /\ gone.ws \in Socket \cup {NoSocket}
      BY <1>5 DEF Copies
    <3>3. NoneStarts(sockets, f)
      <4>1. CASE f = gone
        BY <1>6, <4>1
      <4>2. CASE f.sockets = Closing(gone.sockets, gone.ws)
        <5>1. \A t \in Socket : f.sockets[t].state \in {gone.sockets[t].state, "closing"}
          BY <3>2, <4>2, ClosingLeavesTheRest
        <5> QED BY <1>6, <5>1 DEF NoneStarts
      <4> QED BY <3>1, <4>1, <4>2
    <3> QED BY <1>5, <2>1, <3>1, <3>3, StreamAssumption DEF NoneStarts, OnlyItsOwnStarts
  <2>3. CASE f \in Connected(Call(gone))
    <3> DEFINE h == Call(gone)
    <3>1. /\ h \in Copies /\ h.sockets = gone.sockets /\ h.attempts = attempts
          /\ h.manual = manuallyClosed /\ h.retry = retryTimer
      BY <1>5, CallLeaves
    <3> HIDE DEF h
    <3>2. f \in Connected(h)
      BY <2>3 DEF h
    <3>3. \/ f = h
          \/ /\ f \in Copies /\ f.attempts >= h.attempts
             /\ f.manual => f.attempts > h.attempts /\ NoneStarts(h.sockets, f)
             /\ OnlyItsOwnStarts(h.sockets, f)
      BY <3>1, <3>2, ConnectedLeaves
    <3> QED BY <1>6, <2>1, <3>1, <3>3, StreamAssumption DEF NoneStarts, OnlyItsOwnStarts
  <2> QED BY <1>1, <2>2, <2>3 DEF Told
<1>8. CASE f.manual
  <2>1. /\ g \in Copies /\ g.status = "closed" /\ g.manual /\ g.sockets = f.sockets
        /\ g.retry = f.retry /\ g.attempts = f.attempts
    BY <1>2, <1>7, <1>8 DEF Copies, Statuses
  <2>2. IInv' /\ Fields' = g
    BY <1>2, <1>3, <2>1, EndingKeeps, FieldsAre DEF Waits
  <2>3. NoneStarts(sockets, g)
    BY <1>7, <1>8, <2>1 DEF NoneStarts
  <2>4. /\ Fields.sockets = sockets /\ Fields.attempts = attempts
        /\ Fields.manual = manuallyClosed /\ Fields.retry = retryTimer
    BY DEF Fields
  <2> QED BY <1>7, <1>8, <2>1, <2>2, <2>3, <2>4 DEF Kept, ClosedStep
<1>9. CASE ~f.manual
  <2>1. g \in Scheduled(f)
    BY <1>2, <1>9
  <2>2. /\ g \in Copies /\ g.status \in {"closed", "reconnecting"}
        /\ (g.status = "reconnecting" => g.retry)
        /\ g.manual => g.attempts > f.attempts /\ g.sockets = Closing(f.sockets, f.ws)
    BY <1>7, <1>9, <2>1, ScheduledLeaves
  <2>3. IInv' /\ Fields' = g
    BY <1>2, <1>3, <2>2, EndingKeeps, FieldsAre DEF Waits
  <2>4. g.manual => NoneStarts(sockets, g)
    BY <1>7, <2>2, ClosingLeavesTheRest, StreamAssumption
       DEF NoneStarts, OnlyItsOwnStarts, Copies
  <2>5. g.manual => g.attempts > attempts
    BY <1>4, <1>7, <2>2, StreamAssumption DEF Copies, Fields
  <2>6. /\ Fields.sockets = sockets /\ Fields.attempts = attempts
    BY DEF Fields
  <2> QED BY <2>3, <2>4, <2>5, <2>6 DEF Kept, ClosedStep
<1> QED BY <1>8, <1>9

\* A message that arrives keeps the invariant.
LEMMA OnMessageKeeps ==
  ASSUME IInv, NEW s \in Socket, NEW m \in sockets[s].inbox, OnMessage(s, m) PROVE Kept
<1>1. /\ sockets' = [sockets EXCEPT ![s].inbox = @ \ {m}]
      /\ staleTimer' = (Heartbeat \/ staleTimer)
      /\ UNCHANGED <<status, ws, subs, nextId, attempts, manuallyClosed, retryTimer,
                     connectTimer, strayTimers, beating, calls, events>>
  BY DEF OnMessage, Becomes, Fields
<1>2. /\ sockets' \in [Socket -> SocketRecord]
      /\ \A t \in Socket : sockets'[t].reg = sockets[t].reg /\ sockets'[t].state = sockets[t].state
  BY <1>1 DEF IInv, TypeOK, StreamTyped, SocketRecord
<1>3. staleTimer' \in BOOLEAN
  BY <1>1
<1>4. SubscriptionsTyped' /\ EventsTyped'
  BY <1>1, SubscriptionsStay, EventsStay
<1>5. RegisteredWhenOpen'
  BY <1>1, <1>2 DEF IInv, TypeOK, StreamTyped, RegisteredWhenOpen, IsOpen, Usable, Wanted
<1> QED BY <1>1, <1>2, <1>3, <1>4, <1>5, QuietStepKeeps DEF Kept

\* A ping of the heartbeat keeps the invariant.
LEMMA PingKeeps == ASSUME IInv, Ping PROVE Kept
<1>1. /\ sockets' = [sockets EXCEPT ![ws].inbox = @ \cup {Pong}] /\ IsOpen
      /\ UNCHANGED <<status, ws, subs, nextId, attempts, manuallyClosed, retryTimer,
                     connectTimer, strayTimers, beating, staleTimer, calls, events>>
  BY DEF Ping, Becomes, Fields, outside
<1>2. ws \in Socket
  BY <1>1 DEF IInv, TypeOK, StreamTyped, IsOpen, Usable
<1>3. /\ sockets' \in [Socket -> SocketRecord]
      /\ \A t \in Socket : sockets'[t].reg = sockets[t].reg /\ sockets'[t].state = sockets[t].state
  BY <1>1, <1>2 DEF IInv, TypeOK, StreamTyped, SocketRecord
<1>4. SubscriptionsTyped' /\ EventsTyped'
  BY <1>1, SubscriptionsStay, EventsStay
<1>5. staleTimer' \in BOOLEAN
  BY <1>1 DEF IInv, TypeOK, StreamTyped
<1>6. RegisteredWhenOpen'
  BY <1>1, <1>2, <1>3 DEF IInv, RegisteredWhenOpen, IsOpen, Usable, Wanted
<1> QED BY <1>1, <1>3, <1>4, <1>5, <1>6, QuietStepKeeps DEF Kept

\* An event on the chain keeps the invariant.
LEMMA PublishKeeps ==
  ASSUME IInv, NEW event \in [type : Type, token : Token], Publish(event) PROVE Kept
<1>1. /\ Len(events) < MaxEvents /\ events' = Append(events, event)
      /\ sockets' = [s \in Socket |->
                       IF sockets[s].state = "open" /\ event.type \in sockets[s].reg
                       THEN [sockets[s] EXCEPT !.inbox = @ \cup {Len(events) + 1}]
                       ELSE sockets[s]]
      /\ UNCHANGED <<status, ws, subs, nextId, attempts, manuallyClosed, retryTimer,
                     connectTimer, strayTimers, beating, staleTimer, calls>>
  BY DEF Publish, Becomes, Fields
<1>2. EventsTyped' /\ Len(events) + 1 \in 1..MaxEvents
  BY <1>1, StreamAssumption DEF IInv, TypeOK, EventsTyped
<1>3. \A t \in Socket : /\ sockets'[t] \in SocketRecord /\ sockets'[t].reg = sockets[t].reg
                        /\ sockets'[t].state = sockets[t].state
  BY <1>1, <1>2 DEF IInv, TypeOK, StreamTyped, SocketRecord
<1>4. sockets' \in [Socket -> SocketRecord]
  BY <1>1, <1>3
<1>5. SubscriptionsTyped'
  BY <1>1, SubscriptionsStay
<1>6. staleTimer' \in BOOLEAN
  BY <1>1 DEF IInv, TypeOK, StreamTyped
<1>7. RegisteredWhenOpen'
  BY <1>1, <1>3 DEF IInv, TypeOK, StreamTyped, RegisteredWhenOpen, IsOpen, Usable, Wanted
<1> QED BY <1>1, <1>2, <1>3, <1>4, <1>5, <1>6, <1>7, QuietStepKeeps DEF Kept

\* forceReconnect, from a timer: what a closed stream waits for is then a close event.
LEMMA ForcingKeeps ==
  ASSUME IInv, NEW f \in Copies, f.status = status, f.ws = ws, f.sockets = sockets,
         f.attempts = attempts, f.manual = manuallyClosed, f.retry = retryTimer,
         NEW g \in Forced(f), Becomes(g), UNCHANGED <<subs, nextId, outside>>,
         f.connect = connectTimer \/ f.status = "connecting"
  PROVE  Kept
<1>1. /\ g \in Copies /\ NoneStarts(f.sockets, g) /\ g.attempts >= f.attempts
      /\ f.manual => /\ g.manual /\ g.retry = f.retry /\ g.status = f.status
                     /\ g.connect = f.connect /\ g.ws = NoSocket
                     /\ g.attempts = f.attempts
                     /\ SomeCloses(f) \/ f.ws # NoSocket => SomeCloses(g)
      /\ ~f.manual => /\ g.status \in {"closed", "reconnecting"} /\ Waits(g)
                      /\ g.manual => g.attempts > f.attempts
  BY ForcedLeaves
<1>2. SubscriptionsTyped' /\ EventsTyped'
  BY SubscriptionsStay, EventsStay DEF outside
<1>3. Waits(g) /\ (g.status # "open" \/ g.ws = NoSocket)
  <2>1. CASE f.manual
    <3>1. Waits(Fields) /\ Fields.status = f.status /\ Fields.retry = f.retry
      BY DEF IInv, Fields
    <3>2. f.status = "connecting" => f.ws # NoSocket \/ SomeCloses(f)
      BY DEF IInv, Waits, Fields, SomeCloses
    <3> QED BY <1>1, <2>1, <3>1, <3>2 DEF Waits
  <2>2. CASE ~f.manual
    BY <1>1, <2>2
  <2> QED BY <2>1, <2>2
<1>4. IInv' /\ Fields' = g
  BY <1>1, <1>2, <1>3, EndingKeeps, FieldsAre
<1>5. /\ Fields.sockets = f.sockets /\ Fields.attempts = f.attempts
      /\ Fields.manual = f.manual /\ Fields.retry = f.retry
  BY DEF Fields
<1> QED BY <1>1, <1>4, <1>5 DEF Kept, ClosedStep

\* The heartbeat's timeout keeps the invariant.
LEMMA StaleFiresKeeps == ASSUME IInv, StaleFires PROVE Kept
<1>1. PICK g \in Forced(Fields) : Becomes(g)
  BY DEF StaleFires
<1>2. Fields \in Copies
  BY FieldsTyped DEF IInv, TypeOK
<1>3. /\ Fields.status = status /\ Fields.ws = ws /\ Fields.sockets = sockets
      /\ Fields.attempts = attempts /\ Fields.manual = manuallyClosed
      /\ Fields.retry = retryTimer /\ Fields.connect = connectTimer
  BY DEF Fields
<1>4. UNCHANGED <<subs, nextId, outside>>
  BY DEF StaleFires
<1> QED BY <1>1, <1>2, <1>3, <1>4, ForcingKeeps

\* The timeout of a connection, the last one's or an older one's, keeps the invariant.
LEMMA ConnectTimeoutKeeps == ASSUME IInv, ConnectTimeout PROVE Kept
<1>1. Fields \in Copies
  BY FieldsTyped DEF IInv, TypeOK
<1>2. UNCHANGED <<subs, nextId, outside>>
  BY DEF ConnectTimeout
<1>3. PICK f : /\ \E g \in TimedOut(f) : Becomes(g)
               /\ \/ connectTimer /\ f = [Fields EXCEPT !.connect = FALSE]
                  \/ strayTimers > 0 /\ f = [Fields EXCEPT !.strays = @ - 1]
  BY DEF ConnectTimeout
<1>4. PICK g \in TimedOut(f) : Becomes(g)
  BY <1>3
<1>5. /\ f \in Copies /\ f.status = status /\ f.ws = ws /\ f.sockets = sockets
      /\ f.attempts = attempts /\ f.manual = manuallyClosed /\ f.retry = retryTimer
      /\ f.connect => connectTimer
  <2>1. strayTimers > 0 => strayTimers - 1 \in Nat
    BY <1>1 DEF Copies, Fields
  <2> QED BY <1>1, <1>3, <2>1 DEF Copies, Fields
<1>6. CASE status = "connecting"
  <2>1. g \in Forced(f)
    BY <1>4, <1>6 DEF TimedOut
  <2> QED BY <1>2, <1>4, <1>5, <1>6, <2>1, ForcingKeeps
<1>7. CASE status # "connecting"
  <2>1. g = f
    BY <1>4, <1>7 DEF TimedOut
  <2>2. Fields' = f
    BY <1>4, <1>5, <2>1, FieldsAre
  <2>3. StreamTyped' /\ Waits(Fields)'
    <3>1. StreamTyped' <=> Fields' \in Copies
      BY DEF StreamTyped, Fields, Copies
    <3>2. Fields.status # "connecting" /\ Fields.status = f.status /\ Fields.retry = f.retry
      BY <1>5, <1>7 DEF Fields
    <3>3. Waits(Fields)
      BY DEF IInv
    <3>4. Waits(f)
      BY <3>2, <3>3 DEF Waits
    <3> QED BY <1>5, <2>2, <3>1, <3>4 DEF Waits, SomeCloses
  <2>4. SubscriptionsTyped' /\ EventsTyped'
    BY <1>2, SubscriptionsStay, EventsStay DEF outside
  <2>5. UNCHANGED <<status, ws, sockets, attempts, manuallyClosed, retryTimer>>
    BY <1>4, <1>5, <2>1 DEF Becomes
  <2>6. RegisteredWhenOpen'
    BY <1>2, <2>5 DEF IInv, RegisteredWhenOpen, IsOpen, Usable, Wanted
  <2>7. ClosedStep(Fields, Fields')
    BY <2>5 DEF ClosedStep, Fields, NoneStarts
  <2> QED BY <2>3, <2>4, <2>6, <2>7 DEF Kept, IInv, TypeOK
<1> QED BY <1>6, <1>7

\* The timer of a new attempt keeps the invariant, and uses itself up.
LEMMA RetryFiresKeeps == ASSUME IInv, RetryFires PROVE Kept
<1> DEFINE f == [Fields EXCEPT !.retry = FALSE]
<1>1. retryTimer /\ UNCHANGED <<subs, nextId, outside>>
  BY DEF RetryFires
<1>2. PICK g \in Opened(f) : Becomes(g)
  BY DEF RetryFires
<1>3. Fields \in Copies
  BY FieldsTyped DEF IInv, TypeOK
<1>4. /\ f \in Copies /\ ~f.retry /\ f.manual = manuallyClosed /\ f.sockets = sockets
      /\ f.attempts = attempts
  BY <1>3 DEF Copies, Fields
<1> HIDE DEF f
<1>5. /\ g \in Copies /\ Waits(g) /\ g.status # "open" /\ g.attempts >= f.attempts
      /\ f.manual => g.manual /\ g.retry = f.retry
      /\ ~f.manual /\ g.manual => g.attempts > f.attempts /\ NoneStarts(f.sockets, g)
  BY <1>2, <1>4, OpenedLeaves
<1>6. SubscriptionsTyped' /\ EventsTyped'
  BY <1>1, SubscriptionsStay, EventsStay DEF outside
<1>7. IInv' /\ Fields' = g
  BY <1>2, <1>5, <1>6, EndingKeeps, FieldsAre
<1>8. /\ Fields.sockets = f.sockets /\ Fields.attempts = f.attempts /\ Fields.retry
  BY <1>1, <1>4 DEF Fields
<1> QED BY <1>4, <1>5, <1>7, <1>8 DEF Kept, ClosedStep

\* Every step of the stream, of its sockets and of its timers keeps the invariant, and a
\* closed stream opens nothing but what its listeners made it try.
LEMMA StepKeeps == ASSUME IInv, Next PROVE Kept
<1>1. CASE Connect
  BY <1>1, ConnectKeeps
<1>2. CASE Close
  BY <1>2, CloseKeeps
<1>3. CASE Ping
  BY <1>3, PingKeeps
<1>4. CASE RetryFires
  BY <1>4, RetryFiresKeeps
<1>5. CASE StaleFires
  BY <1>5, StaleFiresKeeps
<1>6. CASE ConnectTimeout
  BY <1>6, ConnectTimeoutKeeps
<1>7. ASSUME NEW type \in Type, NEW filter \in Token \cup {NoFilter}, Subscribe(type, filter)
      PROVE  Kept
  BY <1>7, SubscribeKeeps
<1>8. ASSUME NEW i \in DOMAIN subs, Unsubscribe(i) PROVE Kept
  BY <1>8, UnsubscribeKeeps
<1>9. ASSUME NEW s \in Socket, OnOpen(s) \/ OnClose(s) PROVE Kept
  BY <1>9, OnOpenKeeps, OnCloseKeeps
<1>10. ASSUME NEW s \in Socket, NEW m \in sockets[s].inbox, OnMessage(s, m) PROVE Kept
  BY <1>10, OnMessageKeeps
<1>11. ASSUME NEW type \in Type, NEW token \in Token,
              Publish([type |-> type, token |-> token])
       PROVE  Kept
  BY <1>11, PublishKeeps
<1> QED BY <1>1, <1>2, <1>3, <1>4, <1>5, <1>6, <1>7, <1>8, <1>9, <1>10, <1>11 DEF Next

\* The invariant is kept when nothing happens.
LEMMA StutterKeeps == ASSUME IInv, UNCHANGED vars PROVE IInv'
<1>1. UNCHANGED <<status, ws, sockets, subs, nextId, attempts, manuallyClosed, retryTimer,
                  connectTimer, strayTimers, beating, staleTimer, calls, events>>
  BY DEF vars, stream, outside
<1>2. TypeOK'
  BY <1>1, Zenon DEF IInv, TypeOK, StreamTyped, SubscriptionsTyped, EventsTyped
<1>3. Waits(Fields)'
  <2>1. Fields' = Fields
    BY <1>1 DEF Fields
  <2> QED BY <2>1 DEF IInv, Waits, SomeCloses, Fields
<1>4. RegisteredWhenOpen'
  BY <1>1, Zenon DEF IInv, RegisteredWhenOpen, IsOpen, Usable, Wanted
<1> QED BY <1>2, <1>3, <1>4 DEF IInv

\* The invariant holds always.
LEMMA Inductive == Spec => []IInv
<1>1. IInv /\ [Next]_vars => IInv'
  BY StepKeeps, StutterKeeps DEF Kept
<1> QED BY InitHolds, <1>1, PTL DEF Spec

-----------------------------------------------------------------------------
(* Theorems *)

\* The stream's fields keep their types, whatever handlers run late.
THEOREM StreamTypeCorrect == Spec => []TypeOK
<1>1. IInv => TypeOK
  BY DEF IInv
<1> QED BY Inductive, <1>1, PTL

\* A stream that reconnects has its retry armed; one that connects has its timeout, or
\* was closed and has a close event to come: even if listeners close or connect it in
\* the middle of a handler.
THEOREM StreamNeverStranded == Spec => []NeverStranded
<1>1. IInv => NeverStranded
  BY DEF IInv, Waits, Fields, SomeCloses, NeverStranded
<1> QED BY Inductive, <1>1, PTL

\* An open stream is registered for everything its subscriptions want.
THEOREM StreamAlwaysRegistered == Spec => []RegisteredWhenOpen
<1>1. IInv => RegisteredWhenOpen
  BY DEF IInv
<1> QED BY Inductive, <1>1, PTL

\* A manually closed stream makes no attempt to connect, except the one during whose
\* scheduling a listener closed it.
THEOREM ClosedStreamOpensNothingElse == Spec => ClosedOpensNothingElse
<1> DEFINE A == manuallyClosed' =>
                   /\ SomeSocketStarts => retryTimer /\ ~retryTimer'
                   /\ retryTimer' => \/ retryTimer /\ manuallyClosed
                                     \/ attempts' > attempts
<1>1. ASSUME IInv, Next PROVE A
  <2>1. ClosedStep(Fields, Fields')
    BY <1>1, StepKeeps DEF Kept
  <2> QED BY <2>1 DEF ClosedStep, NoneStarts, Fields, SomeSocketStarts
<1>2. IInv /\ [Next]_vars => [A]_vars
  BY <1>1
<1> QED BY Inductive, <1>2, PTL DEF Spec, ClosedOpensNothingElse
=============================================================================
