----------------------------- MODULE EventFeed -----------------------------
(***************************************************************************)
(* What the event path of the gateway promises a browser: a session gives  *)
(* it CONNECTED, and then events that were sent after it subscribed, in    *)
(* the order in which they were sent and none of them twice.  It may skip  *)
(* some, and it may go silent for ever.                                    *)
(***************************************************************************)
EXTENDS Naturals, Sequences

CONSTANTS
    Events,     \* what is sent
    Sessions,   \* the connections that are ever made
    MaxEvents   \* bound: events that are ever sent

VARIABLES
    log,        \* the events sent, oldest first
    conn,       \* conn[s]: "none", "made" or, after CONNECTED, "greeted"
    got         \* the position of the last event that came out of session s, or
                \* of the last one sent before it subscribed

feedVars == <<log, conn, got>>

FeedInit ==
    /\ log = <<>>
    /\ conn = [s \in Sessions |-> "none"]
    /\ got = [s \in Sessions |-> 0]

Send(e) ==
    /\ Len(log) < MaxEvents
    /\ log' = Append(log, e)
    /\ UNCHANGED <<conn, got>>

Connect(s) ==
    /\ conn[s] = "none"
    /\ conn' = [conn EXCEPT ![s] = "made"]
    /\ got' = [got EXCEPT ![s] = Len(log)]
    /\ UNCHANGED log

Greet(s) ==
    /\ conn[s] = "made"
    /\ conn' = [conn EXCEPT ![s] = "greeted"]
    /\ UNCHANGED <<log, got>>

\* The event at position p comes out.
Deliver(s, p) ==
    /\ conn[s] = "greeted"
    /\ p \in got[s] + 1 .. Len(log)
    /\ got' = [got EXCEPT ![s] = p]
    /\ UNCHANGED <<log, conn>>

FeedNext ==
    \/ \E e \in Events : Send(e)
    \/ \E s \in Sessions :
          Connect(s) \/ Greet(s) \/ \E p \in 1 .. Len(log) : Deliver(s, p)

FeedSpec == FeedInit /\ [][FeedNext]_feedVars
=============================================================================
