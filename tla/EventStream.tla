---------------------------- MODULE EventStream ----------------------------
(***************************************************************************)
(* The event path of the gateway: the tokio broadcast channel of AppState  *)
(* (rust_gateway/src/state.rs) and the WebSocket sessions that forward it  *)
(* (rust_gateway/src/ws.rs).  An event is known by its position in log,    *)
(* the events sent so far; the channel still holds the last Capacity of    *)
(* them.  Each session runs two tasks, a sender with a heartbeat and a     *)
(* receiver; the end of one aborts the other, at whatever await it is.     *)
(*                                                                         *)
(* A link may be closed, which both ends are told, or cut: then messages   *)
(* vanish and the gateway learns of it from a ping that fails, if ever.    *)
(***************************************************************************)
EXTENDS Naturals, Sequences, FiniteSets

CONSTANTS
    Events,     \* what is sent on ws_sender
    Sessions,   \* the WebSocket connections that are ever made
    Capacity,   \* of the broadcast channel
    MaxEvents,  \* bound: events that are ever sent
    MaxWire     \* bound: messages that the sockets' buffers hold

ASSUME CapacityAssumption == Capacity \in Nat \ {0}

VARIABLES
    log,      \* the events sent, oldest first
    place,    \* where handle_socket of each session is
    tasks,    \* which of its two tasks are running
    next,     \* the position its receiver of the channel reads next
    hand,     \* the position its sender holds while it awaits the socket, or 0
    link,     \* the state of its connection
    wire,     \* the messages on their way to the browser; 0 is CONNECTED
    seen,     \* the messages that reached the browser
    since     \* how many events had been sent when it subscribed

streamVars == <<log, place, tasks, next, hand, link, wire, seen, since>>

Places == {"none", "greeting", "running", "over"}
Links == {"none", "up", "closed", "cut"}

StreamInit ==
    /\ log = <<>>
    /\ place = [s \in Sessions |-> "none"]
    /\ tasks = [s \in Sessions |-> {}]
    /\ next = [s \in Sessions |-> 1]
    /\ hand = [s \in Sessions |-> 0]
    /\ link = [s \in Sessions |-> "none"]
    /\ wire = [s \in Sessions |-> <<>>]
    /\ seen = [s \in Sessions |-> <<>>]
    /\ since = [s \in Sessions |-> 0]

\* The oldest position that the channel still holds.
Oldest == IF Len(log) > Capacity THEN Len(log) - Capacity + 1 ELSE 1

\* ws_sender.send: it never waits and forgets the oldest event.
Send(e) ==
    /\ Len(log) < MaxEvents
    /\ log' = Append(log, e)
    /\ UNCHANGED <<place, tasks, next, hand, link, wire, seen, since>>

\* Mutant: the session begins with the event that was sent last.
ConnectAtLast(s) ==
    /\ place[s] = "none"
    /\ place' = [place EXCEPT ![s] = "greeting"]
    /\ link' = [link EXCEPT ![s] = "up"]
    /\ next' = [next EXCEPT ![s] = Len(log)]
    /\ since' = [since EXCEPT ![s] = Len(log)]
    /\ UNCHANGED <<log, tasks, hand, wire, seen>>

\* Mutant: the session begins with the oldest event that the channel holds.
ConnectAtOldest(s) ==
    /\ place[s] = "none"
    /\ place' = [place EXCEPT ![s] = "greeting"]
    /\ link' = [link EXCEPT ![s] = "up"]
    /\ next' = [next EXCEPT ![s] = Oldest]
    /\ since' = [since EXCEPT ![s] = Len(log)]
    /\ UNCHANGED <<log, tasks, hand, wire, seen>>

\* The upgrade; handle_socket subscribes before it first awaits.
Connect(s) ==
    /\ place[s] = "none"
    /\ place' = [place EXCEPT ![s] = "greeting"]
    /\ link' = [link EXCEPT ![s] = "up"]
    /\ next' = [next EXCEPT ![s] = Len(log) + 1]
    /\ since' = [since EXCEPT ![s] = Len(log)]
    /\ UNCHANGED <<log, tasks, hand, wire, seen>>

\* Messages put into the socket arrive unless the link is cut.
Put(s, m) == wire' = [wire EXCEPT ![s] = IF link[s] = "up" THEN Append(@, m) ELSE @]
Writable(s) ==
    \/ link[s] = "cut"
    \/ link[s] = "up" /\ Len(wire[s]) < MaxWire

\* The handshake message CONNECTED, and the two tasks are spawned.
Greet(s) ==
    /\ place[s] = "greeting"
    /\ Writable(s)
    /\ Put(s, 0)
    /\ place' = [place EXCEPT ![s] = "running"]
    /\ tasks' = [tasks EXCEPT ![s] = {"send", "recv"}]
    /\ UNCHANGED <<log, next, hand, link, seen, since>>

\* The handshake fails: handle_socket returns.
GreetFails(s) ==
    /\ place[s] = "greeting"
    /\ link[s] \in {"closed", "cut"}
    /\ place' = [place EXCEPT ![s] = "over"]
    /\ UNCHANGED <<log, tasks, next, hand, link, wire, seen, since>>

---------------------------------------------------------------------------
(* The send task.                                                          *)

Selecting(s) == "send" \in tasks[s] /\ hand[s] = 0

\* rx.recv() gives the next event that the channel holds ...
Take(s) ==
    /\ Selecting(s)
    /\ next[s] \in Oldest .. Len(log)
    /\ hand' = [hand EXCEPT ![s] = next[s]]
    /\ next' = [next EXCEPT ![s] = @ + 1]
    /\ UNCHANGED <<log, place, tasks, link, wire, seen, since>>

\* Mutant: a lagging session starts over with the events yet to come.
LagToEnd(s) ==
    /\ Selecting(s)
    /\ next[s] < Oldest
    /\ next' = [next EXCEPT ![s] = Len(log) + 1]
    /\ UNCHANGED <<log, place, tasks, hand, link, wire, seen, since>>

\* Mutant: Lagged ends the loop, as Closed does.
LagBreaks(s) ==
    /\ Selecting(s)
    /\ next[s] < Oldest
    /\ tasks' = [tasks EXCEPT ![s] = @ \ {"send"}]
    /\ UNCHANGED <<log, place, next, hand, link, wire, seen, since>>

\* ... or Lagged, which only logs and goes on with the oldest one.
Lag(s) ==
    /\ Selecting(s)
    /\ next[s] < Oldest
    /\ next' = [next EXCEPT ![s] = Oldest]
    /\ UNCHANGED <<log, place, tasks, hand, link, wire, seen, since>>

\* Mutant: the event is sent again in the next turn of the loop.
ForwardAgain(s) ==
    /\ "send" \in tasks[s] /\ hand[s] # 0
    /\ Writable(s)
    /\ Put(s, hand[s])
    /\ \E h \in {0, hand[s]} : hand' = [hand EXCEPT ![s] = h]
    /\ UNCHANGED <<log, place, tasks, next, link, seen, since>>

\* sender.send of the event: it waits while the buffers are full.
Forward(s) ==
    /\ "send" \in tasks[s] /\ hand[s] # 0
    /\ Writable(s)
    /\ Put(s, hand[s])
    /\ hand' = [hand EXCEPT ![s] = 0]
    /\ UNCHANGED <<log, place, tasks, next, link, seen, since>>

\* Mutant: there is no heartbeat, only an event can find the link broken.
FailsOnEvent(s) ==
    /\ "send" \in tasks[s]
    /\ link[s] \in {"closed", "cut"}
    /\ hand[s] # 0
    /\ tasks' = [tasks EXCEPT ![s] = @ \ {"send"}]
    /\ hand' = [hand EXCEPT ![s] = 0]
    /\ UNCHANGED <<log, place, next, link, wire, seen, since>>

\* sender.send of an event or of the heartbeat's ping returns an error.
SendFails(s) ==
    /\ "send" \in tasks[s]
    /\ link[s] \in {"closed", "cut"}
    /\ tasks' = [tasks EXCEPT ![s] = @ \ {"send"}]
    /\ hand' = [hand EXCEPT ![s] = 0]
    /\ UNCHANGED <<log, place, next, link, wire, seen, since>>

---------------------------------------------------------------------------
(* The receive task, and the end of a session.                             *)

\* A Close frame, the end of the stream or an error ends the loop; a cut link
\* gives it none of these.
RecvEnds(s) ==
    /\ "recv" \in tasks[s]
    /\ link[s] = "closed"
    /\ tasks' = [tasks EXCEPT ![s] = @ \ {"recv"}]
    /\ UNCHANGED <<log, place, next, hand, link, wire, seen, since>>

\* The select: one task has ended, the other one is aborted with what it holds.
Abort(s) ==
    /\ place[s] = "running"
    /\ tasks[s] # {"send", "recv"}
    /\ place' = [place EXCEPT ![s] = "over"]
    /\ tasks' = [tasks EXCEPT ![s] = {}]
    /\ hand' = [hand EXCEPT ![s] = 0]
    /\ UNCHANGED <<log, next, link, wire, seen, since>>

---------------------------------------------------------------------------
(* The connection.                                                         *)

\* The oldest message on its way reaches the browser.
Deliver(s) ==
    /\ wire[s] # <<>>
    /\ seen' = [seen EXCEPT ![s] = Append(@, Head(wire[s]))]
    /\ wire' = [wire EXCEPT ![s] = Tail(@)]
    /\ UNCHANGED <<log, place, tasks, next, hand, link, since>>

\* Either end closes the connection (a session that is over has), or it is cut.
Close(s) ==
    /\ link[s] \in {"up", "cut"}
    /\ link' = [link EXCEPT ![s] = "closed"]
    /\ UNCHANGED <<log, place, tasks, next, hand, wire, seen, since>>

Cut(s) ==
    /\ link[s] = "up"
    /\ link' = [link EXCEPT ![s] = "cut"]
    /\ wire' = [wire EXCEPT ![s] = <<>>]
    /\ UNCHANGED <<log, place, tasks, next, hand, seen, since>>

\* What the gateway does for a session.
Serve(s) ==
    \/ Greet(s) \/ GreetFails(s)
    \/ Take(s) \/ Lag(s) \/ Forward(s) \/ SendFails(s)
    \/ RecvEnds(s) \/ Abort(s)

Next ==
    \/ \E e \in Events : Send(e)
    \/ \E s \in Sessions :
          Connect(s) \/ Serve(s) \/ Deliver(s) \/ Close(s) \/ Cut(s)

Spec == StreamInit /\ [][Next]_streamVars

\* The runtime polls both tasks of a session, its interval ticks every 30 s and a
\* ping on a cut link ends in an error; the network delivers what is on its way.
FairSpec ==
    /\ Spec
    /\ \A s \in Sessions :
          /\ WF_streamVars(Serve(s)) /\ WF_streamVars(Deliver(s))
          /\ WF_streamVars(SendFails(s)) /\ WF_streamVars(Abort(s))

---------------------------------------------------------------------------
(* Correctness.                                                            *)

Elements(q) == {q[i] : i \in DOMAIN q}

\* The type of every variable.
StreamTypeOK ==
    /\ log \in Seq(Events)
    /\ place \in [Sessions -> Places]
    /\ tasks \in [Sessions -> SUBSET {"send", "recv"}]
    /\ next \in [Sessions -> Nat \ {0}]
    /\ hand \in [Sessions -> Nat]
    /\ link \in [Sessions -> Links]
    /\ wire \in [Sessions -> Seq(Nat)]
    /\ seen \in [Sessions -> Seq(Nat)]
    /\ since \in [Sessions -> Nat]

\* All that a session has passed on or holds, in order.
Passed(s) == seen[s] \o wire[s] \o (IF hand[s] = 0 THEN <<>> ELSE <<hand[s]>>)

\* A browser gets CONNECTED first and then events in the order in which they were
\* sent, none of them twice, whatever the session skips on its way.
InOrder ==
    \A s \in Sessions : \A i, j \in DOMAIN Passed(s) : i < j => Passed(s)[i] < Passed(s)[j]

\* As long as the link holds, every event sent after it subscribed that the session
\* has read past is with the browser or on its way, unless a whole channel of
\* younger ones has been sent: only a client that is that slow misses any.
MissedOnlyWhenLagging ==
    \A s \in Sessions :
        place[s] = "running" /\ link[s] = "up" =>
            \A p \in since[s] + 1 .. next[s] - 1 :
                p \in Elements(Passed(s)) \/ p < Oldest

\* A session whose link is closed, or cut without a word, comes to its end: the
\* heartbeat finds the second, and no task of either outlives the other.
SessionsEnd ==
    \A s \in Sessions : link[s] \in {"closed", "cut"} ~> place[s] = "over"

\* Every event sent after a session subscribed reaches the browser, or the link breaks, or the
\* client is so slow that the channel has forgotten the event.
EventsArrive ==
    \A s \in Sessions : \A p \in 1 .. MaxEvents :
        place[s] = "running" /\ since[s] < p /\ p <= Len(log)
            ~> p \in Elements(seen[s]) \/ link[s] # "up" \/ p < Oldest

---------------------------------------------------------------------------
(* Refinement: only what comes out of the socket counts.                   *)

LastSeen(s) ==
    IF Len(seen[s]) < 2 THEN since[s] ELSE seen[s][Len(seen[s])]

Feed == INSTANCE EventFeed WITH
            conn <- [s \in Sessions |->
                        IF place[s] = "none" THEN "none"
                        ELSE IF seen[s] = <<>> THEN "made" ELSE "greeted"],
            got <- [s \in Sessions |-> LastSeen(s)]

\* The channel with its two tasks per session, lagging, cut links and aborts is the
\* ordered feed that the dashboard relies on (a repetition would be a stutter of
\* it: that there is none is InOrder).
IsFeed == Feed!FeedSpec
=============================================================================
