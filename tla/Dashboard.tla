----------------------------- MODULE Dashboard -----------------------------
(***************************************************************************)
(* One browser that shows the dashboard: the hook useWebSocket (frontend/  *)
(* src/hooks/useWebSocket.ts), the state of the page (src/app/page.tsx)    *)
(* and its forms (src/components/UnlearnForm.tsx), over the feed of       *)
(* events that EventFeed promises and EventStream implements.              *)
(*                                                                         *)
(*  - A document is known by its node id, entity_<entity_id>_<id>.         *)
(*  - onmessage keeps the newest message only, in lastEvent; the page      *)
(*    processes it in an effect, after React has rendered, and several     *)
(*    messages may come before that.                                       *)
(*  - The gateway is reduced to requests, of this page and of others, that *)
(*    send their events and then answer.                                   *)
(***************************************************************************)
EXTENDS EventFeed, PageState

CONSTANTS
    SameSecond,  \* may two unlearnings of a shard get the same audit_id?
    Slots,       \* the forms, and "others" for the requests of everybody else
    NoSocket     \* socketRef.current when there is none

ASSUME EventsAssumption == Events = Event
ASSUME NoSocketAssumption == NoSocket \notin Sessions
ASSUME SlotsAssumption == Slots \subseteq {"ingest", "batch", "unlearn", "others"}

VARIABLES
    todo,       \* todo[f]: the events that the gateway has yet to send for the request
    done,       \* done[f]: those it has sent, which is what the page's answer says
    socket,     \* socketRef.current
    opened,     \* its readyState is OPEN
    timer,      \* the effect has yet to connect, or the reconnect timer is armed
    retrying,   \* reconnectAttemptsRef.current > 0
    status,     \* the hook's status
    refused,    \* history: new WebSocket has thrown
    lastEvent,  \* the hook's lastEvent
    unread,     \* the effect on lastEvent has yet to run
    processed   \* history: the events that the page has processed

requestVars == <<todo, done>>
hookVars == <<socket, opened, timer, retrying, status, refused>>
vars == <<feedVars, requestVars, hookVars, lastEvent, unread, pageVars, processed>>

Init ==
    /\ FeedInit
    /\ todo = [f \in Slots |-> <<>>]
    /\ done = [f \in Slots |-> <<>>]
    /\ socket = NoSocket
    /\ opened = FALSE
    /\ timer = TRUE
    /\ retrying = FALSE
    /\ status = "DISCONNECTED"
    /\ refused = FALSE
    /\ lastEvent = 0
    /\ unread = FALSE
    /\ PageInit
    /\ processed = {}

---------------------------------------------------------------------------
(* Requests, and what the gateway does with them.                          *)

Elements(q) == {q[i] : i \in DOMAIN q}
Mentioned == UNION {Elements(q) : q \in {log} \cup {todo[f] : f \in Slots}}
UsedIds == {m.cert.id : m \in {n \in Mentioned : n.type = "AuditGenerated"}}

IngestWork == {<<Ingested(d)>> : d \in Docs}
BatchWork == {<<Ingested(d[1]), Ingested(d[2])>> : d \in {p \in Docs \X Docs : p[1] # p[2]}}
UnlearnWork == {<<Deleted(c.entity), Audited(c)>> :
                    c \in {k \in Certificate : SameSecond \/ k.id \notin UsedIds}}

Work(f) == CASE f = "ingest" -> IngestWork
             [] f = "batch" -> BatchWork
             [] f = "unlearn" -> UnlearnWork
             [] f = "others" -> IngestWork \cup UnlearnWork

Idle(f) == todo[f] = <<>> /\ done[f] = <<>>

\* A form is submitted (its button is disabled until it has its answer; UnlearnForm
\* models the forms themselves, and the second confirmation that gets past this).
Submit(f) ==
    /\ Idle(f)
    /\ \E w \in Work(f) : todo' = [todo EXCEPT ![f] = w]
    /\ UNCHANGED <<feedVars, done, hookVars, lastEvent, unread, pageVars, processed>>

\* The gateway sends the next event of a request.
SendNext(f) ==
    /\ todo[f] # <<>>
    /\ Send(Head(todo[f]))
    /\ todo' = [todo EXCEPT ![f] = Tail(@)]
    /\ done' = [done EXCEPT ![f] = IF f = "others" THEN @ ELSE Append(@, Head(todo[f]))]
    /\ UNCHANGED <<hookVars, lastEvent, unread, pageVars, processed>>

\* An item of a batch fails: the batch goes on without it.
ItemFails(f) ==
    /\ todo[f] # <<>> /\ Head(todo[f]).type = "NodeIngested"
    /\ todo' = [todo EXCEPT ![f] = Tail(@)]
    /\ UNCHANGED <<feedVars, done, hookVars, lastEvent, unread, pageVars, processed>>

\* An unlearning fails before its events, or an answer does not reach its client;
\* the form shows an error.
RequestFails(f) ==
    /\ \/ todo[f] # <<>> /\ Head(todo[f]).type = "NodeDeleted"
       \/ todo[f] = <<>> /\ done[f] # <<>>
    /\ todo' = [todo EXCEPT ![f] = <<>>]
    /\ done' = [done EXCEPT ![f] = <<>>]
    /\ UNCHANGED <<feedVars, hookVars, lastEvent, unread, pageVars, processed>>

---------------------------------------------------------------------------
(* The hook.                                                               *)

\* connect(), at the mount or when the reconnect timer fires.
OpenSocket(s) ==
    /\ timer
    /\ socket = NoSocket
    /\ Connect(s)
    /\ socket' = s
    /\ opened' = FALSE
    /\ timer' = FALSE
    /\ status' = IF retrying THEN "RECONNECTING" ELSE status
    /\ UNCHANGED <<requestVars, retrying, refused, lastEvent, unread, pageVars, processed>>

\* new WebSocket throws: connect() catches it and arms no timer.
ConnectThrows ==
    /\ timer
    /\ timer' = FALSE
    /\ status' = "DISCONNECTED"
    /\ refused' = TRUE
    /\ UNCHANGED <<feedVars, requestVars, socket, opened, retrying, lastEvent, unread,
                   pageVars, processed>>

OnOpen ==
    /\ socket # NoSocket /\ ~opened
    /\ opened' = TRUE
    /\ status' = "CONNECTED"
    /\ retrying' = FALSE
    /\ UNCHANGED <<feedVars, requestVars, socket, timer, refused, lastEvent, unread, pageVars,
                   processed>>

\* setLastEvent: a message that the page has not processed yet is overwritten.
OnMessage ==
    /\ socket # NoSocket /\ opened
    /\ \/ Greet(socket) /\ lastEvent' = 0
       \/ \E p \in DOMAIN log : Deliver(socket, p) /\ lastEvent' = p
    /\ unread' = TRUE
    /\ UNCHANGED <<requestVars, hookVars, pageVars, processed>>

\* Mutant: only a connection that was open is made again.
OnCloseIfOpened ==
    /\ socket # NoSocket
    /\ socket' = NoSocket
    /\ opened' = FALSE
    /\ status' = "DISCONNECTED"
    /\ timer' = opened
    /\ retrying' = TRUE
    /\ UNCHANGED <<feedVars, requestVars, refused, lastEvent, unread, pageVars, processed>>

\* onclose (onerror closes the socket too): the reconnect timer is armed.
OnClose ==
    /\ socket # NoSocket
    /\ socket' = NoSocket
    /\ opened' = FALSE
    /\ status' = "DISCONNECTED"
    /\ timer' = TRUE
    /\ retrying' = TRUE
    /\ UNCHANGED <<feedVars, requestVars, refused, lastEvent, unread, pageVars, processed>>

---------------------------------------------------------------------------
(* The page.                                                               *)

\* The effect on lastEvent.
Process ==
    /\ unread
    /\ unread' = FALSE
    /\ \/ lastEvent = 0 /\ UNCHANGED <<pageVars, processed>>
       \/ /\ lastEvent # 0
          /\ ShowEvent(log[lastEvent])
          /\ processed' = processed \cup {lastEvent}
    /\ UNCHANGED <<feedVars, requestVars, hookVars, lastEvent>>

DocsOf(q) == {q[i].doc : i \in {j \in DOMAIN q : q[j].type = "NodeIngested"}}

\* The answer of a form reaches its handler.
Answer(f) ==
    /\ todo[f] = <<>> /\ done[f] # <<>>
    /\ done' = [done EXCEPT ![f] = <<>>]
    /\ \/ f \in {"ingest", "batch"} /\ handleIngestSuccess(DocsOf(done[f]))
       \/ f = "unlearn" /\ handleUnlearnSuccess(done[f][1].entity, done[f][2].cert)
    /\ UNCHANGED <<feedVars, todo, hookVars, lastEvent, unread, processed>>

DashboardNext ==
    \/ \E f \in Slots :
          Submit(f) \/ SendNext(f) \/ ItemFails(f) \/ RequestFails(f) \/ Answer(f)
    \/ \E s \in Sessions : OpenSocket(s)
    \/ ConnectThrows \/ OnOpen \/ OnMessage \/ OnClose \/ Process

DashboardSpec == Init /\ [][DashboardNext]_vars

---------------------------------------------------------------------------
(* Correctness.                                                            *)

\* The type of every variable.
TypeOK ==
    /\ log \in Seq(Event)
    /\ conn \in [Sessions -> {"none", "made", "greeted"}]
    /\ got \in [Sessions -> Nat]
    /\ todo \in [Slots -> Seq(Event)]
    /\ done \in [Slots -> Seq(Event)]
    /\ socket \in Sessions \cup {NoSocket}
    /\ opened \in BOOLEAN /\ timer \in BOOLEAN /\ retrying \in BOOLEAN
    /\ refused \in BOOLEAN /\ unread \in BOOLEAN
    /\ status \in {"CONNECTED", "DISCONNECTED", "RECONNECTING"}
    /\ lastEvent \in Nat
    /\ PageTypeOK
    /\ processed \subseteq DOMAIN log

\* What the log says of a document, and its last word.
About(d) == {p \in DOMAIN log : log[p] \in {Ingested(d), Deleted(Owner[d])}}
LastWord(d) == log[CHOOSE p \in About(d) : \A q \in About(d) : q <= p]

\* A document whose entity was unlearned after it was ingested is not shown as
\* active by a page that has processed every event about it, in whatever order
\* the page's own answers came in between and however often it reconnected.
PurgedIsNotActive ==
    \A d \in Docs :
        nodes[d] = "active" /\ About(d) # {} /\ About(d) \subseteq processed
            => LastWord(d) = Ingested(d)

\* The hook gives up in one case only, when new WebSocket throws, and then it says
\* DISCONNECTED from there on.  Otherwise, however its sockets end, it has a socket or
\* will make one, never both; and it says CONNECTED exactly when its socket is open.
HookAlive ==
    /\ socket # NoSocket => ~timer
    /\ socket = NoSocket /\ ~timer <=> refused
    /\ refused => status = "DISCONNECTED"
    /\ status = "CONNECTED" <=> opened

\* A page that has processed every event, when no request is running, lists a
\* certificate of every entity that it shows as purged (provided no two
\* unlearnings got the same audit_id).
PurgedIsCertified ==
    (\A f \in Slots : Idle(f)) /\ processed = DOMAIN log =>
        \A d \in Docs : nodes[d] = "purged"
            => \E i \in DOMAIN ledger : ledger[i].entity = Owner[d]

---------------------------------------------------------------------------
(* What the documentation says and the code does not do.                   *)

\* page.tsx:55: incoming WebSocket events are processed to update the page.  None is
\* replaced in lastEvent before the effect has run on it.
EveryEventProcessed ==
    [][lastEvent' # lastEvent /\ unread /\ lastEvent # 0 => lastEvent \in processed]_vars
=============================================================================
