------------------------------- MODULE Stream -------------------------------
(***************************************************************************)
(* The live events of the mobile application: an operation publishes an    *)
(* event per recipient, through Redis when it is configured, and a process *)
(* hands what it receives to its open streams.  One stream of one user is  *)
(* followed.  Its consumer may be slow, its session revoked, its access    *)
(* token expired, the subscription of its process lost.                    *)
(***************************************************************************)
EXTENDS Integers, SequencesExt

CONSTANTS
    Users,                  \* the participants of a match, in the order of their ids
    Viewer,                 \* the user of the stream
    BROADCAST_CAPACITY,     \* events a receiver may lag behind
    REDIS_RELAY_CAPACITY,   \* events between the subscriber task and the relay
    MaxEvents               \* bound: events published

VARIABLES
    Redis,          \* Redis is configured
    relay,          \* events between the subscriber task and the relay
    subscribed,     \* the process still has its Redis subscription
    sent,           \* recipients of the events broadcast in the process, in order
    stream,         \* the stream: state, first event, next event, events handed over
    session,        \* the session is active
    expired,        \* the access token the stream was opened with has expired
    checking,       \* the interval of the session check has elapsed
    published       \* events published so far

vars == <<Redis, relay, subscribed, sent, stream, session, expired, checking, published>>

Init ==
    /\ Redis \in BOOLEAN
    /\ relay = <<>> /\ subscribed = Redis /\ sent = <<>>
    /\ stream = [state |-> "none", from |-> 0, at |-> 0, seen |-> <<>>]
    /\ session = TRUE /\ expired = FALSE /\ checking = FALSE /\ published = 0

-----------------------------------------------------------------------------
(* Publishing. *)

Minimum(a, b) == IF a < b THEN a ELSE b

\* What the subscriber task takes up: a full relay drops the rest.
subscribe(messages) ==
    IF subscribed
    THEN relay \o SubSeq(messages, 1, Minimum(Len(messages), REDIS_RELAY_CAPACITY - Len(relay)))
    ELSE relay

\* One event per distinct recipient; the first failure leaves the others without.
emit(recipients) ==
    /\ published < MaxEvents
    /\ published' = published + 1
    /\ \/ ~Redis /\ sent' = sent \o recipients /\ UNCHANGED relay
       \/ /\ Redis /\ UNCHANGED sent
          /\ \E n \in 0 .. Len(recipients) : relay' = subscribe(SubSeq(recipients, 1, n))
    /\ UNCHANGED <<Redis, subscribed, stream, session, expired, checking>>

\* What a match publishes goes to both participants, a failure is only logged.
match_event == emit(Users)

subscription_event(u) == emit(<<u>>)

relay_event ==
    /\ relay # <<>>
    /\ sent' = Append(sent, Head(relay)) /\ relay' = Tail(relay)
    /\ UNCHANGED <<Redis, subscribed, stream, session, expired, checking, published>>

\* The connection of the subscriber ends, and with it the relay; it is not renewed.
lose_subscription ==
    /\ subscribed
    /\ subscribed' = FALSE
    /\ UNCHANGED <<Redis, relay, sent, stream, session, expired, checking, published>>

-----------------------------------------------------------------------------
(* The stream: expiry goes before the session check, the check before events. *)

Close == stream' = [stream EXCEPT !.state = "closed"]

events ==
    /\ stream.state = "none" /\ session /\ ~expired
    /\ stream' = [state |-> "open", from |-> Len(sent), at |-> Len(sent), seen |-> <<>>]
    /\ checking' = TRUE
    /\ UNCHANGED <<Redis, relay, subscribed, sent, session, expired, published>>

expiry ==
    /\ stream.state = "open" /\ expired
    /\ Close
    /\ UNCHANGED <<Redis, relay, subscribed, sent, session, expired, checking, published>>

\* A check that cannot be answered counts as inactive.
Active(answer) == answer = "active"

session_check ==
    /\ stream.state = "open" /\ ~expired /\ checking
    /\ checking' = FALSE
    /\ \E answer \in {"error", IF session THEN "active" ELSE "inactive"} :
        IF Active(answer) THEN UNCHANGED stream ELSE Close
    /\ UNCHANGED <<Redis, relay, subscribed, sent, session, expired, published>>

\* The channel keeps the last events: a receiver further behind has lagged.
Lagging == Len(sent) - stream.at > BROADCAST_CAPACITY

\* Mutant: a slow consumer goes on with the oldest event still kept.
Lagged_Skips == stream' = [stream EXCEPT !.at = Len(sent) - BROADCAST_CAPACITY]

\* A slow consumer is disconnected; it reads its data again when it comes back.
Lagged == Close

received ==
    /\ stream.state = "open" /\ ~expired /\ ~checking /\ stream.at < Len(sent)
    /\ IF Lagging THEN Lagged
       ELSE stream' = [stream EXCEPT !.at = @ + 1,
                        !.seen = IF sent[stream.at + 1] = Viewer
                                 THEN Append(@, stream.at + 1) ELSE @]
    /\ UNCHANGED <<Redis, relay, subscribed, sent, session, expired, checking, published>>

\* The process stops: streams are closed before the server drains.
shutdown ==
    /\ stream.state = "open"
    /\ Close
    /\ UNCHANGED <<Redis, relay, subscribed, sent, session, expired, checking, published>>

event_stream == expiry \/ session_check \/ received \/ shutdown

-----------------------------------------------------------------------------
(* Time and the session. *)

revoke ==
    /\ session
    /\ session' = FALSE
    /\ UNCHANGED <<Redis, relay, subscribed, sent, stream, expired, checking, published>>

token_expires ==
    /\ ~expired
    /\ expired' = TRUE
    /\ UNCHANGED <<Redis, relay, subscribed, sent, stream, session, checking, published>>

heartbeat_interval ==
    /\ stream.state = "open" /\ ~checking
    /\ checking' = TRUE
    /\ UNCHANGED <<Redis, relay, subscribed, sent, stream, session, expired, published>>

Next ==
    \/ match_event \/ subscription_event(Viewer)
    \/ relay_event \/ lose_subscription \/ events \/ event_stream \/ revoke \/ token_expires \/ heartbeat_interval

\* The runtime polls a stream whose timers have elapsed.
Fairness == WF_vars(expiry) /\ WF_vars(session_check) /\ WF_vars(heartbeat_interval)

Spec == Init /\ [][Next]_vars /\ Fairness

-----------------------------------------------------------------------------
(* Whatever a stream has handed over, open or closed since, are the first  *)
(* events of its user that the process broadcast after it was opened, in   *)
(* order and without a gap; and an open stream with nothing left to        *)
(* receive has handed over all of them.  A consumer too slow for the       *)
(* channel's capacity is disconnected instead (sse.rs, event_stream).      *)
NoGap ==
    LET due == SelectSeq([i \in 1 .. Len(sent) - stream.from |-> stream.from + i],
                         LAMBDA i : sent[i] = Viewer)
    IN  stream.state # "none" =>
            /\ IsPrefix(stream.seen, due)
            /\ stream.state = "open" /\ stream.at = Len(sent) => stream.seen = due
=============================================================================
