-------------------------- MODULE DashboardProofs --------------------------
(***************************************************************************)
(* Proofs about Dashboard for every set of documents, sessions and forms   *)
(* and every number of events.                                             *)
(*                                                                         *)
(* The argument for PurgedIsNotActive: the positions of the events that    *)
(* the page processes only grow, through reconnections too (Order), so     *)
(* that the page has processed what it has processed in the order of the   *)
(* log (Shown); and no answer adds a node whose event was not sent before  *)
(* (Reported).                                                             *)
(*                                                                         *)
(* The argument for PurgedIsCertified: a purged node has a reason, an      *)
(* event that was processed or an answer (PurgedForAReason); behind each   *)
(* of the two is a certificate that was sent or still will be              *)
(* (DeletionsPromised, LedgerLogged), and a processed certificate is       *)
(* listed, since audit_ids are not confused (OneIdEach).                   *)
(***************************************************************************)
EXTENDS Dashboard, PageProofs, SequenceTheorems, WellFoundedInduction

---------------------------------------------------------------------------
(* Type correctness.                                                       *)

\* The request of the unlearn form: what is still to be sent and what was sent
\* are together the two events of one certificate.
UnlearnShape ==
    "unlearn" \in Slots =>
        \/ todo["unlearn"] = <<>> /\ done["unlearn"] = <<>>
        \/ \E c \in Certificate :
              \/ /\ todo["unlearn"] = <<Deleted(c.entity), Audited(c)>>
                 /\ done["unlearn"] = <<>>
              \/ /\ todo["unlearn"] = <<Audited(c)>>
                 /\ done["unlearn"] = <<Deleted(c.entity)>>
              \/ /\ todo["unlearn"] = <<>>
                 /\ done["unlearn"] = <<Deleted(c.entity), Audited(c)>>

Typed == TypeOK /\ UnlearnShape /\ lastEvent \in 0 .. Len(log)

LEMMA TypedInit ==
    ASSUME Init
    PROVE  Typed
<1>1. PageTypeOK
  BY DEF Init, PageInit, PageTypeOK
<1>2. log \in Seq(Event) /\ processed \subseteq DOMAIN log
  BY DEF Init, FeedInit
<1>3. todo \in [Slots -> Seq(Event)] /\ done \in [Slots -> Seq(Event)]
  BY DEF Init
<1>4. TypeOK
  BY <1>1, <1>2, <1>3 DEF Init, FeedInit, TypeOK
<1>5. UnlearnShape
  BY DEF Init, UnlearnShape
<1>6. QED  BY <1>4, <1>5 DEF Init, FeedInit, Typed

\* What a queue of one or two elements becomes.
LEMMA ShortQueues ==
    ASSUME NEW a, NEW b
    PROVE  /\ Head(<<a, b>>) = a /\ Tail(<<a, b>>) = <<b>>
           /\ Head(<<a>>) = a /\ Tail(<<a>>) = <<>>
           /\ Append(<<>>, a) = <<a>> /\ Append(<<a>>, b) = <<a, b>>
<1>0. <<a, b>> \in Seq({a, b}) /\ <<b>> \in Seq({a, b}) /\ <<a>> \in Seq({a, b})
  OBVIOUS
<1>1. Head(<<a, b>>) = a /\ Head(<<a>>) = a
  OBVIOUS
<1>2. Tail(<<a>>) = <<>> /\ Append(<<>>, a) = <<a>>
  OBVIOUS
<1>3. Tail(<<a, b>>) = <<b>>
  <2> DEFINE t == Tail(<<a, b>>)
  <2>1. t \in Seq({a, b}) /\ Len(t) = 1 /\ t[1] = b
    BY <1>0
  <2>2. t = <<b>>
    <3> HIDE DEF t
    <3>1. QED  BY <1>0, <2>1, SeqEqual
  <2>3. QED  BY <2>2
<1>4. Append(<<a>>, b) = <<a, b>>
  <2> DEFINE t == Append(<<a>>, b)
  <2>1. t \in Seq({a, b}) /\ Len(t) = 2 /\ t[1] = a /\ t[2] = b
    BY <1>0
  <2>2. t = <<a, b>>
    <3> HIDE DEF t
    <3>1. QED  BY <1>0, <2>1, SeqEqual
  <2>3. QED  BY <2>2
<1>5. QED  BY <1>1, <1>2, <1>3, <1>4

\* The events of a request are events.
LEMMA WorkType ==
    ASSUME NEW f \in Slots, NEW w \in Work(f)
    PROVE  /\ w \in Seq(Event)
           /\ f = "unlearn" => \E c \in Certificate : w = <<Deleted(c.entity), Audited(c)>>
<1>1. ASSUME w \in IngestWork
      PROVE  w \in Seq(Event)
  BY <1>1 DEF IngestWork, Event
<1>2. ASSUME w \in BatchWork
      PROVE  w \in Seq(Event)
  <2>1. PICK a \in Docs, b \in Docs : w = <<Ingested(a), Ingested(b)>>
    BY <1>2 DEF BatchWork
  <2>2. Ingested(a) \in Event /\ Ingested(b) \in Event
    BY DEF Event
  <2>3. QED  BY <2>1, <2>2
<1>3. ASSUME w \in UnlearnWork
      PROVE  /\ w \in Seq(Event)
             /\ \E c \in Certificate : w = <<Deleted(c.entity), Audited(c)>>
  <2>1. PICK c \in Certificate : w = <<Deleted(c.entity), Audited(c)>>
    BY <1>3 DEF UnlearnWork
  <2>2. Deleted(c.entity) \in Event /\ Audited(c) \in Event
    BY DEF Event, Certificate
  <2>3. QED  BY <2>1, <2>2
<1>4. QED  BY <1>1, <1>2, <1>3, SlotsAssumption DEF Work

\* An answer of the unlearn form carries a certificate of the entity it names.
LEMMA AnswerCertified ==
    ASSUME Typed, "unlearn" \in Slots, todo["unlearn"] = <<>>, done["unlearn"] # <<>>
    PROVE  \E c \in Certificate :
              /\ done["unlearn"][1].entity = c.entity
              /\ done["unlearn"][2].cert = c
<1>1. PICK c \in Certificate : done["unlearn"] = <<Deleted(c.entity), Audited(c)>>
  BY DEF Typed, UnlearnShape
<1>2. QED  BY <1>1 DEF Deleted, Audited

LEMMA DocsOfType ==
    ASSUME NEW q \in Seq(Event)
    PROVE  /\ DocsOf(q) \in SUBSET Docs
           /\ \A d \in DocsOf(q) : \E i \in DOMAIN q : q[i] = Ingested(d)
BY EventKinds DEF DocsOf

\* Every step updates the page's state in one of the ways of PageState.
LEMMA NextPage ==
    ASSUME Typed, DashboardNext
    PROVE  PageStep
<1>1. ASSUME NEW f \in Slots, Answer(f)
      PROVE  PageStep
  <2>1. CASE f \in {"ingest", "batch"} /\ handleIngestSuccess(DocsOf(done[f]))
    BY <2>1, DocsOfType DEF Typed, TypeOK, PageStep
  <2>2. CASE f = "unlearn" /\ handleUnlearnSuccess(done[f][1].entity, done[f][2].cert)
    BY <1>1, <2>2, AnswerCertified DEF Answer, PageStep
  <2>3. QED  BY <1>1, <2>1, <2>2 DEF Answer
<1>2. CASE Process
  <2>1. CASE lastEvent = 0
    BY <1>2, <2>1 DEF Process, PageStep
  <2>2. CASE lastEvent # 0
    BY <1>2, <2>2 DEF Process, PageStep, Typed, TypeOK
  <2>3. QED  BY <2>1, <2>2
<1>3. CASE UNCHANGED pageVars
  BY <1>3 DEF PageStep
<1>4. QED
  BY <1>1, <1>2, <1>3 DEF DashboardNext, Submit, SendNext, ItemFails, RequestFails,
     OpenSocket, ConnectThrows, OnOpen, OnMessage, OnClose

\* The first event of a request is an event, and the others are a request.
LEMMA FirstOfTodo ==
    ASSUME Typed, NEW f \in Slots, todo[f] # <<>>
    PROVE  /\ Head(todo[f]) \in Event
           /\ Tail(todo[f]) \in Seq(Event)
BY DEF Typed, TypeOK

\* Every step of a request keeps the types.
LEMMA RequestTypes ==
    ASSUME Typed, DashboardNext
    PROVE  /\ log' \in Seq(Event)
           /\ todo' \in [Slots -> Seq(Event)]
           /\ done' \in [Slots -> Seq(Event)]
<1>0. /\ log \in Seq(Event)
      /\ todo \in [Slots -> Seq(Event)]
      /\ done \in [Slots -> Seq(Event)]
  BY DEF Typed, TypeOK
<1>1. ASSUME NEW f \in Slots, Submit(f)
      PROVE  todo' \in [Slots -> Seq(Event)]
  BY <1>0, <1>1, WorkType DEF Submit
<1>2. ASSUME NEW f \in Slots, SendNext(f)
      PROVE  /\ log' \in Seq(Event)
             /\ todo' \in [Slots -> Seq(Event)]
             /\ done' \in [Slots -> Seq(Event)]
  BY <1>0, <1>2, FirstOfTodo DEF SendNext, Send
<1>3. ASSUME NEW f \in Slots, ItemFails(f)
      PROVE  todo' \in [Slots -> Seq(Event)]
  BY <1>0, <1>3, FirstOfTodo DEF ItemFails
<1>4. ASSUME NEW f \in Slots, RequestFails(f)
      PROVE  /\ todo' \in [Slots -> Seq(Event)]
             /\ done' \in [Slots -> Seq(Event)]
  BY <1>0, <1>4 DEF RequestFails
<1>5. ASSUME NEW f \in Slots, Answer(f)
      PROVE  done' \in [Slots -> Seq(Event)]
  BY <1>0, <1>5 DEF Answer
<1>6. QED
  BY <1>0, <1>1, <1>2, <1>3, <1>4, <1>5 DEF DashboardNext, Submit, SendNext, ItemFails,
     RequestFails, Answer, OpenSocket, ConnectThrows, Connect, OnOpen, OnMessage, Greet,
     Deliver, OnClose, Process, feedVars, requestVars

\* The unlearn form's request stays two events of one certificate.
LEMMA ShapeStep ==
    ASSUME Typed, DashboardNext
    PROVE  UnlearnShape'
<1> SUFFICES ASSUME "unlearn" \in Slots
             PROVE  UnlearnShape'
  BY DEF UnlearnShape
<1>0. /\ todo \in [Slots -> Seq(Event)]
      /\ done \in [Slots -> Seq(Event)]
      /\ UnlearnShape
  BY DEF Typed, TypeOK
<1>1. CASE todo'["unlearn"] = todo["unlearn"] /\ done'["unlearn"] = done["unlearn"]
  BY <1>0, <1>1 DEF UnlearnShape
<1>2. CASE Submit("unlearn")
  <2>1. PICK w \in Work("unlearn") : todo' = [todo EXCEPT !["unlearn"] = w]
    BY <1>2 DEF Submit
  <2>2. done'["unlearn"] = <<>>
    BY <1>2 DEF Submit, Idle
  <2>3. QED  BY <1>0, <2>1, <2>2, WorkType DEF UnlearnShape
<1>3. CASE SendNext("unlearn")
  <2>1. todo'["unlearn"] = Tail(todo["unlearn"])
    BY <1>0, <1>3 DEF SendNext
  <2>2. done'["unlearn"] = Append(done["unlearn"], Head(todo["unlearn"]))
    BY <1>0, <1>3 DEF SendNext
  <2>3. todo["unlearn"] # <<>>
    BY <1>3 DEF SendNext
  <2>4. PICK c \in Certificate :
           \/ /\ todo["unlearn"] = <<Deleted(c.entity), Audited(c)>>
              /\ done["unlearn"] = <<>>
           \/ /\ todo["unlearn"] = <<Audited(c)>>
              /\ done["unlearn"] = <<Deleted(c.entity)>>
    BY <1>0, <2>3 DEF UnlearnShape
  <2>5. \/ /\ todo'["unlearn"] = <<Audited(c)>>
           /\ done'["unlearn"] = <<Deleted(c.entity)>>
        \/ /\ todo'["unlearn"] = <<>>
           /\ done'["unlearn"] = <<Deleted(c.entity), Audited(c)>>
    <3>1. CASE todo["unlearn"] = <<Deleted(c.entity), Audited(c)>> /\ done["unlearn"] = <<>>
      BY <2>1, <2>2, <3>1, ShortQueues
    <3>2. CASE todo["unlearn"] = <<Audited(c)>> /\ done["unlearn"] = <<Deleted(c.entity)>>
      BY <2>1, <2>2, <3>2, ShortQueues
    <3>3. QED  BY <2>4, <3>1, <3>2
  <2>6. QED  BY <2>5 DEF UnlearnShape
<1>4. CASE ItemFails("unlearn")
  <2>1. todo["unlearn"] # <<>> /\ Head(todo["unlearn"]).type = "NodeIngested"
    BY <1>4 DEF ItemFails
  <2>2. PICK c \in Certificate : \/ todo["unlearn"] = <<Deleted(c.entity), Audited(c)>>
                                 \/ todo["unlearn"] = <<Audited(c)>>
    BY <1>0, <2>1 DEF UnlearnShape
  <2>3. Head(todo["unlearn"]) \in {Deleted(c.entity), Audited(c)}
    BY <2>2, ShortQueues
  <2>4. QED  BY <2>1, <2>3 DEF Deleted, Audited
<1>5. CASE RequestFails("unlearn")
  BY <1>0, <1>5 DEF RequestFails, UnlearnShape
<1>6. CASE Answer("unlearn")
  BY <1>0, <1>6 DEF Answer, UnlearnShape
<1>7. QED
  BY <1>0, <1>1, <1>2, <1>3, <1>4, <1>5, <1>6 DEF DashboardNext, Submit, SendNext, ItemFails,
     RequestFails, Answer, OpenSocket, ConnectThrows, OnOpen, OnMessage, OnClose, Process,
     requestVars

\* The type of every variable is kept.
LEMMA TypedStep ==
    ASSUME Typed, [DashboardNext]_vars
    PROVE  Typed'
<1>0. TypeOK /\ lastEvent \in 0 .. Len(log)
  BY DEF Typed
<1>1. CASE UNCHANGED vars
  BY <1>1 DEF Typed, TypeOK, UnlearnShape, PageTypeOK, vars, feedVars, requestVars, hookVars,
     pageVars
<1>2. CASE DashboardNext
  <2>1. PageTypeOK'
    BY <1>0, <1>2, NextPage, PageTypeStep DEF TypeOK
  <2>2. /\ conn' \in [Sessions -> {"none", "made", "greeted"}]
        /\ got' \in [Sessions -> Nat]
    <3>1. ASSUME NEW s \in Sessions, Connect(s) \/ Greet(s) \/ \E p \in DOMAIN log : Deliver(s, p)
          PROVE  /\ conn' \in [Sessions -> {"none", "made", "greeted"}]
                 /\ got' \in [Sessions -> Nat]
      <4>1. CASE Connect(s)
        BY <1>0, <4>1 DEF TypeOK, Connect
      <4>2. CASE Greet(s)
        BY <1>0, <4>2 DEF TypeOK, Greet
      <4>3. ASSUME NEW p \in DOMAIN log, Deliver(s, p)
            PROVE  /\ conn' \in [Sessions -> {"none", "made", "greeted"}]
                   /\ got' \in [Sessions -> Nat]
        BY <1>0, <4>3 DEF TypeOK, Deliver
      <4>4. QED  BY <3>1, <4>1, <4>2, <4>3
    <3>2. CASE UNCHANGED <<conn, got>>
      BY <1>0, <3>2 DEF TypeOK
    <3>3. CASE OnMessage
      BY <1>0, <3>1, <3>3 DEF OnMessage, TypeOK
    <3>4. QED
      BY <1>2, <3>1, <3>2, <3>3 DEF DashboardNext, Submit, SendNext, Send, ItemFails,
         RequestFails, Answer, OpenSocket, ConnectThrows, OnOpen, OnClose, Process, feedVars
  <2>3. /\ socket' \in Sessions \cup {NoSocket}
        /\ opened' \in BOOLEAN /\ timer' \in BOOLEAN /\ retrying' \in BOOLEAN
        /\ status' \in {"CONNECTED", "DISCONNECTED", "RECONNECTING"}
        /\ refused' \in BOOLEAN
    BY <1>0, <1>2 DEF TypeOK, DashboardNext, Submit, SendNext, ItemFails, RequestFails,
       Answer, OpenSocket, ConnectThrows, OnOpen, OnMessage, OnClose, Process, hookVars
  <2>4. /\ unread' \in BOOLEAN
        /\ lastEvent' \in 0 .. Len(log')
        /\ processed' \subseteq DOMAIN log'
    <3>1. CASE UNCHANGED <<log, unread, lastEvent, processed>>
      BY <1>0, <3>1 DEF TypeOK
    <3>2. ASSUME NEW f \in Slots, SendNext(f)
          PROVE  /\ UNCHANGED <<unread, lastEvent, processed>>
                 /\ Len(log') = Len(log) + 1
                 /\ DOMAIN log \subseteq DOMAIN log'
      BY <1>0, <3>2, FirstOfTodo DEF TypeOK, SendNext, Send
    <3>3. CASE \E f \in Slots : SendNext(f)
      BY <1>0, <3>2, <3>3 DEF TypeOK
    <3>4. CASE OnMessage
      BY <1>0, <3>4 DEF TypeOK, OnMessage, Greet, Deliver
    <3>5. CASE Process
      <4>1. lastEvent # 0 => lastEvent \in DOMAIN log
        BY <1>0 DEF TypeOK
      <4>2. UNCHANGED <<log, lastEvent>> /\ unread' = FALSE
        BY <3>5 DEF Process, feedVars
      <4>3. processed' \subseteq DOMAIN log
        BY <1>0, <3>5, <4>1 DEF TypeOK, Process
      <4>4. QED  BY <1>0, <4>2, <4>3
    <3>6. QED
      BY <1>2, <3>1, <3>3, <3>4, <3>5 DEF DashboardNext, Submit, ItemFails, RequestFails,
         Answer, OpenSocket, ConnectThrows, Connect, OnOpen, OnClose, feedVars
  <2>5. TypeOK'
    BY <1>2, <2>1, <2>2, <2>3, <2>4, RequestTypes DEF TypeOK
  <2>6. QED  BY <1>2, <2>4, <2>5, ShapeStep DEF Typed
<1>3. QED  BY <1>1, <1>2

LEMMA TypedInvariant == DashboardSpec => []Typed
BY TypedInit, TypedStep, PTL DEF DashboardSpec

\* Every variable has its type throughout: in particular an answer of the unlearn form
\* always has a certificate to put into the ledger.
THEOREM TypeCorrect == DashboardSpec => []TypeOK
<1>1. Typed => TypeOK
  BY DEF Typed
<1>2. QED  BY <1>1, TypedInvariant, PTL

---------------------------------------------------------------------------
(* The hook.                                                               *)

HookInv == HookAlive /\ (opened => socket # NoSocket)

\* Through any number of reconnections the hook has a socket or will make one, unless
\* new WebSocket has thrown, and says CONNECTED exactly when its socket is open.
THEOREM HookStaysAlive == DashboardSpec => []HookAlive
<1>1. Init => HookInv
  BY DEF Init, HookInv, HookAlive
<1>2. Typed /\ HookInv /\ [DashboardNext]_vars => HookInv'
  <2> SUFFICES ASSUME Typed, HookInv, [DashboardNext]_vars
               PROVE  HookInv'
    OBVIOUS
  <2>1. CASE UNCHANGED hookVars
    BY <2>1 DEF hookVars, HookInv, HookAlive
  <2>2. ASSUME NEW s \in Sessions, OpenSocket(s)
        PROVE  HookInv'
    BY <2>2, NoSocketAssumption DEF OpenSocket, HookInv, HookAlive
  <2>3. CASE ConnectThrows
    BY <2>3 DEF ConnectThrows, HookInv, HookAlive
  <2>4. CASE OnOpen
    BY <2>4 DEF OnOpen, HookInv, HookAlive
  <2>5. CASE OnClose
    BY <2>5 DEF OnClose, HookInv, HookAlive
  <2>6. QED
    BY <2>1, <2>2, <2>3, <2>4, <2>5 DEF vars, DashboardNext, Submit, SendNext, ItemFails,
       RequestFails, Answer, OnMessage, Process
<1>3. HookInv => HookAlive
  BY DEF HookInv
<1>4. QED  BY <1>1, <1>2, <1>3, TypedInvariant, PTL DEF DashboardSpec

---------------------------------------------------------------------------
(* Nodes and links.                                                        *)

\* Every node that events or answers add has a link and every link its node.
THEOREM LinksAlwaysJoin == DashboardSpec => []LinksJoin
<1>1. Init => LinksJoin
  BY DEF Init, PageInit, LinksJoin
<1>2. Typed /\ LinksJoin /\ [DashboardNext]_vars => LinksJoin'
  <2>1. Typed /\ LinksJoin /\ DashboardNext => LinksJoin'
    BY NextPage, LinksJoinStep DEF Typed, TypeOK
  <2>2. LinksJoin /\ UNCHANGED vars => LinksJoin'
    BY DEF vars, pageVars, LinksJoin
  <2>3. QED  BY <2>1, <2>2
<1>3. QED  BY <1>1, <1>2, TypedInvariant, PTL DEF DashboardSpec

---------------------------------------------------------------------------
(* Purged documents.                                                       *)

\* The page processes events in the order in which they were sent, whatever socket they
\* came through.
Order ==
    /\ socket # NoSocket => \A p \in processed \cup {lastEvent} : p <= got[socket]
    /\ unread /\ lastEvent # 0 => \A p \in processed : p < lastEvent

Sent(d) == \E p \in DOMAIN log : log[p] = Ingested(d)

\* A node, and what an answer reports, has had its event sent.
Reported ==
    /\ \A d \in Docs : nodes[d] # "absent" => Sent(d)
    /\ \A f \in Slots : \A d \in DocsOf(done[f]) : Sent(d)

\* What the page has made of the events that it has processed.
Shown ==
    \A d \in Docs : \A p \in processed :
        log[p] = Ingested(d) =>
            /\ nodes[d] # "absent"
            /\ \A q \in processed :
                  p < q /\ log[q] = Deleted(Owner[d]) => nodes[d] = "purged"

PurgeInv == Order /\ Reported /\ Shown

LEMMA PurgeInvInit ==
    ASSUME Init
    PROVE  PurgeInv
BY DEF Init, PageInit, PurgeInv, Order, Reported, Shown, DocsOf

\* Positions only grow.
LEMMA OrderStep ==
    ASSUME Typed, Order, DashboardNext
    PROVE  Order'
<1>0. /\ got \in [Sessions -> Nat]
      /\ socket \in Sessions \cup {NoSocket}
      /\ processed \subseteq 1 .. Len(log)
      /\ lastEvent \in 0 .. Len(log)
      /\ log \in Seq(Event)
  BY DEF Typed, TypeOK
<1>1. CASE UNCHANGED <<socket, got, lastEvent, unread, processed>>
  BY <1>1 DEF Order
<1>2. ASSUME NEW s \in Sessions, OpenSocket(s)
      PROVE  Order'
  <2>1. got'[s] = Len(log) /\ socket' = s
    BY <1>0, <1>2 DEF OpenSocket, Connect
  <2>2. QED  BY <1>0, <1>2, <2>1 DEF OpenSocket, Order
<1>3. CASE OnMessage
  <2>1. socket \in Sessions
    BY <1>0, <1>3 DEF OnMessage
  <2>2. CASE Greet(socket) /\ lastEvent' = 0
    BY <1>0, <1>3, <2>1, <2>2 DEF OnMessage, Greet, hookVars, Order
  <2>3. ASSUME NEW p \in DOMAIN log, Deliver(socket, p), lastEvent' = p
        PROVE  Order'
    <3>1. got'[socket] = p /\ got[socket] < p
      BY <1>0, <2>1, <2>3 DEF Deliver
    <3>2. \A q \in processed : q < p
      BY <1>0, <2>1, <3>1, NoSocketAssumption DEF Order
    <3>3. QED  BY <1>0, <1>3, <2>1, <2>3, <3>1, <3>2 DEF OnMessage, hookVars, Order
  <2>4. QED  BY <1>3, <2>2, <2>3 DEF OnMessage
<1>4. CASE OnClose
  BY <1>4 DEF OnClose, feedVars, Order
<1>5. CASE Process
  BY <1>5 DEF Process, feedVars, hookVars, Order
<1>6. QED
  BY <1>1, <1>2, <1>3, <1>4, <1>5 DEF DashboardNext, Submit, SendNext, Send, ItemFails,
     RequestFails, Answer, ConnectThrows, OnOpen, feedVars, hookVars

\* The log keeps what it has.
LEMMA LogKeeps ==
    ASSUME Typed, DashboardNext
    PROVE  /\ \A p \in DOMAIN log : p \in DOMAIN log' /\ log'[p] = log[p]
           /\ \A d \in Docs : Sent(d) => Sent(d)'
<1>0. log \in Seq(Event)
  BY DEF Typed, TypeOK
<1>1. CASE UNCHANGED log
  BY <1>1 DEF Sent
<1>2. ASSUME NEW f \in Slots, SendNext(f)
      PROVE  log' = Append(log, Head(todo[f])) /\ Head(todo[f]) \in Event
  BY <1>2, FirstOfTodo DEF SendNext, Send
<1>3. \A p \in DOMAIN log : p \in DOMAIN log' /\ log'[p] = log[p]
  <2>1. CASE \E f \in Slots : SendNext(f)
    BY <1>0, <1>2, <2>1
  <2>2. QED
    BY <1>1, <2>1 DEF DashboardNext, Submit, ItemFails, RequestFails, Answer, OpenSocket,
       ConnectThrows, Connect, OnOpen, OnMessage, Greet, Deliver, OnClose, Process, feedVars
<1>4. QED  BY <1>3 DEF Sent

\* Answers report what was sent.
LEMMA ReportedStep ==
    ASSUME Typed, Reported, DashboardNext
    PROVE  Reported'
<1>0. /\ log \in Seq(Event)
      /\ todo \in [Slots -> Seq(Event)]
      /\ done \in [Slots -> Seq(Event)]
      /\ nodes \in [Docs -> {"absent", "active", "purged"}]
  BY DEF Typed, TypeOK, PageTypeOK
<1>1. \A d \in Docs : nodes'[d] # "absent" => Sent(d)'
  <2>1. CASE UNCHANGED nodes
    BY <2>1, LogKeeps DEF Reported
  <2>2. ASSUME NEW f \in Slots, Answer(f)
        PROVE  \A d \in Docs : nodes'[d] # "absent" => Sent(d)
    BY <1>0, <2>2 DEF Answer, handleIngestSuccess, AddNodes, handleUnlearnSuccess, MarkPurged,
       Reported
  <2>3. CASE Process /\ lastEvent # 0
    <3>1. lastEvent \in DOMAIN log /\ log[lastEvent] \in Event
      BY <1>0, <2>3 DEF Typed
    <3>2. CASE log[lastEvent].type = "NodeIngested"
      <4>1. log[lastEvent] = Ingested(log[lastEvent].doc)
        BY <3>1, <3>2, EventKinds
      <4>2. \A d \in Docs : nodes'[d] # "absent" => nodes[d] # "absent" \/ d = log[lastEvent].doc
        BY <1>0, <2>3, <3>2 DEF Process, ShowEvent, AddNodes
      <4>3. QED  BY <3>1, <4>1, <4>2, LogKeeps DEF Reported, Sent
    <3>3. CASE log[lastEvent].type # "NodeIngested"
      <4>1. \A d \in Docs : nodes'[d] # "absent" => nodes[d] # "absent"
        BY <1>0, <2>3, <3>3 DEF Process, ShowEvent, MarkPurged
      <4>2. QED  BY <4>1, LogKeeps DEF Reported
    <3>4. QED  BY <3>2, <3>3
  <2>4. QED
    BY <2>1, <2>2, <2>3, LogKeeps DEF DashboardNext, Submit, SendNext, ItemFails, RequestFails,
       OpenSocket, ConnectThrows, OnOpen, OnMessage, OnClose, Process, pageVars
<1>2. ASSUME NEW f \in Slots, NEW d \in DocsOf(done'[f])
      PROVE  Sent(d)'
  <2>1. CASE done'[f] = done[f]
    BY <2>1, DocsOfType, <1>0, LogKeeps DEF Reported
  <2>2. CASE done'[f] = <<>>
    BY <2>2 DEF DocsOf
  <2>3. CASE SendNext(f) /\ done'[f] = Append(done[f], Head(todo[f]))
    <3>1. Head(todo[f]) \in Event /\ log' = Append(log, Head(todo[f]))
      BY <2>3, FirstOfTodo DEF SendNext, Send
    <3>2. CASE d \in DocsOf(done[f])
      BY <3>2, DocsOfType, <1>0, LogKeeps DEF Reported
    <3>3. CASE d \notin DocsOf(done[f])
      <4>1. PICK i \in DOMAIN done'[f] : done'[f][i].type = "NodeIngested" /\ d = done'[f][i].doc
        BY DEF DocsOf
      <4>2. done'[f][i] = Head(todo[f])
        <5>1. CASE i \in DOMAIN done[f]
          <6>1. done'[f][i] = done[f][i]
            BY <1>0, <2>3, <3>1, <5>1
          <6>2. QED  BY <3>3, <4>1, <5>1, <6>1 DEF DocsOf
        <5>2. CASE i \notin DOMAIN done[f]
          BY <1>0, <2>3, <3>1, <4>1, <5>2
        <5>3. QED  BY <5>1, <5>2
      <4>3. Head(todo[f]) = Ingested(d)
        BY <3>1, <4>1, <4>2, EventKinds
      <4>4. Len(log) + 1 \in DOMAIN log' /\ log'[Len(log) + 1] = Head(todo[f])
        BY <1>0, <3>1
      <4>5. QED  BY <4>3, <4>4 DEF Sent
    <3>4. QED  BY <3>2, <3>3
  <2>4. QED
    BY <1>0, <2>1, <2>2, <2>3 DEF DashboardNext, Submit, SendNext, ItemFails, RequestFails,
       Answer, OpenSocket, ConnectThrows, OnOpen, OnMessage, OnClose, Process, requestVars
<1>3. QED  BY <1>1, <1>2 DEF Reported

\* The page shows what it has processed: an event that it processes now is younger than
\* all it has processed.
LEMMA ShownStep ==
    ASSUME Typed, Order, Shown, DashboardNext
    PROVE  Shown'
<1>0. /\ log \in Seq(Event)
      /\ processed \subseteq DOMAIN log
      /\ PageTypeOK /\ PageStep
  BY NextPage DEF Typed, TypeOK
<1>1. \A d \in Docs : /\ nodes[d] # "absent" => nodes'[d] # "absent"
                      /\ nodes[d] = "purged" => nodes'[d] = "purged"
  BY <1>0, NodesStay, PurgedStay
<1>2. CASE UNCHANGED processed
  <2>1. \A p \in processed : log'[p] = log[p]
    BY <1>0, LogKeeps
  <2>2. QED  BY <1>1, <1>2, <2>1 DEF Shown
<1>3. CASE Process /\ lastEvent # 0
  <2> SUFFICES ASSUME NEW d \in Docs, NEW p \in processed', log'[p] = Ingested(d)
               PROVE  /\ nodes'[d] # "absent"
                      /\ \A q \in processed' :
                            p < q /\ log'[q] = Deleted(Owner[d]) => nodes'[d] = "purged"
    BY DEF Shown
  <2>1. /\ processed' = processed \cup {lastEvent}
        /\ log' = log
        /\ \A q \in processed : q < lastEvent
        /\ lastEvent \in DOMAIN log
        /\ ShowEvent(log[lastEvent])
    BY <1>0, <1>3 DEF Process, feedVars, Order, Typed
  <2>2. nodes'[d] # "absent"
    <3>1. CASE p \in processed
      BY <1>1, <2>1, <3>1 DEF Shown
    <3>2. CASE p = lastEvent
      BY <1>0, <2>1, <3>2 DEF ShowEvent, AddNodes, Ingested
    <3>3. QED  BY <2>1, <3>1, <3>2
  <2>3. ASSUME NEW q \in processed', p < q, log'[q] = Deleted(Owner[d])
        PROVE  nodes'[d] = "purged"
    <3>1. p \in processed
      BY <1>0, <2>1, <2>3
    <3>2. CASE q \in processed
      BY <1>1, <2>1, <2>3, <3>1, <3>2 DEF Shown
    <3>3. CASE q = lastEvent
      <4>1. nodes[d] # "absent"
        BY <2>1, <3>1 DEF Shown
      <4>2. QED  BY <1>0, <2>1, <2>3, <3>3, <4>1 DEF ShowEvent, MarkPurged, Deleted
    <3>4. QED  BY <2>1, <3>2, <3>3
  <2>4. QED  BY <2>2, <2>3
<1>4. QED
  BY <1>2, <1>3 DEF DashboardNext, Submit, SendNext, ItemFails, RequestFails, Answer,
     OpenSocket, ConnectThrows, OnOpen, OnMessage, OnClose, Process

LEMMA PurgeInvStep ==
    ASSUME Typed, PurgeInv, [DashboardNext]_vars
    PROVE  PurgeInv'
<1>1. CASE DashboardNext
  BY <1>1, OrderStep, ReportedStep, ShownStep DEF PurgeInv
<1>2. CASE UNCHANGED vars
  BY <1>2 DEF vars, feedVars, requestVars, hookVars, pageVars, PurgeInv, Order, Reported, Shown,
     Sent, DocsOf
<1>3. QED  BY <1>1, <1>2

\* A nonempty set of positions has a last one.
LEMMA LastPosition ==
    ASSUME NEW n \in Nat, NEW S \in SUBSET (1 .. n), S # {}
    PROVE  \E p \in S : \A q \in S : q <= p
<1> DEFINE T == {x \in Nat : \E p \in S : x = n - p}
<1>1. T \subseteq Nat /\ T # {}
  <2>1. PICK p \in S : TRUE
    OBVIOUS
  <2>2. n - p \in T
    OBVIOUS
  <2>3. QED  BY <2>2
<1>2. \E x \in T : \A y \in T : ~(<<y, x>> \in OpToRel(<, Nat))
  <2> HIDE DEF T
  <2>1. QED  BY <1>1, NatLessThanWellFounded, WFMin
<1>3. PICK x \in T : \A y \in T : ~(<<y, x>> \in OpToRel(<, Nat))
  BY <1>2
<1>4. \A y \in T : ~(y < x)
  BY <1>3 DEF OpToRel
<1>5. PICK p \in S : x = n - p
  OBVIOUS
<1>6. ASSUME NEW q \in S
      PROVE  q <= p
  <2>1. n - q \in T
    OBVIOUS
  <2>2. ~(n - q < n - p)
    BY <1>4, <1>5, <2>1
  <2>3. QED  BY <2>2
<1>7. QED  BY <1>6

\* A page that has processed every event about a document shows it as active only if the
\* last of them is its ingestion: no answer of the page, late as it may be, brings a
\* purged document back.
THEOREM PurgedStaysPurged == DashboardSpec => []PurgedIsNotActive
<1>1. Typed /\ PurgeInv => PurgedIsNotActive
  <2> SUFFICES ASSUME Typed, PurgeInv, NEW d \in Docs, nodes[d] = "active",
                      About(d) # {}, About(d) \subseteq processed
               PROVE  LastWord(d) = Ingested(d)
    BY DEF PurgedIsNotActive
  <2>1. log \in Seq(Event) /\ About(d) \in SUBSET (1 .. Len(log))
    BY DEF Typed, TypeOK, About
  <2>2. \E p \in About(d) : \A q \in About(d) : q <= p
    <3>1. Len(log) \in Nat
      BY <2>1
    <3>2. QED  BY <2>1, <3>1, LastPosition
  <2>3. PICK p \in About(d) : LastWord(d) = log[p] /\ \A q \in About(d) : q <= p
    BY <2>2 DEF LastWord
  <2>4. CASE log[p] = Deleted(Owner[d])
    <3>1. PICK q \in DOMAIN log : log[q] = Ingested(d)
      BY DEF PurgeInv, Reported, Sent
    <3>2. q \in About(d) /\ q # p
      BY <2>4, <3>1 DEF About, Ingested, Deleted
    <3>3. q < p
      BY <2>1, <2>3, <3>2
    <3>4. nodes[d] = "purged"
      BY <2>4, <3>1, <3>2, <3>3 DEF PurgeInv, Shown
    <3>5. QED  BY <3>4
  <2>5. QED  BY <2>3, <2>4 DEF About
<1>2. QED  BY <1>1, PurgeInvInit, PurgeInvStep, TypedInvariant, PTL DEF DashboardSpec

---------------------------------------------------------------------------
(* Certificates.                                                           *)

Logged(m) == \E p \in DOMAIN log : log[p] = m
HasCertificate(e) == \E i \in DOMAIN ledger : ledger[i].entity = e

\* The requests that ingest have nothing else to send; an unlearning sends the two events
\* of one certificate, and nothing that it still has to send is lost between them.
TodoShape ==
    \A f \in Slots :
        \/ \A i \in DOMAIN todo[f] : todo[f][i].type = "NodeIngested"
        \/ \E c \in Certificate : \/ todo[f] = <<Deleted(c.entity), Audited(c)>>
                                  \/ todo[f] = <<Audited(c)>>

\* An audit_id belongs to one certificate, sent or to be sent.
OneIdEach ==
    \A a, b \in Certificate :
        Audited(a) \in Mentioned /\ Audited(b) \in Mentioned /\ a.id = b.id => a = b

\* A deletion that was sent is followed by its certificate, or will be.
Promised(e) ==
    \E c \in Certificate :
        c.entity = e /\ (Logged(Audited(c)) \/ \E f \in Slots : todo[f] = <<Audited(c)>>)
DeletionsPromised == \A e \in Entities : Logged(Deleted(e)) => Promised(e)

\* What an answer says was sent before, and so was every certificate of the page.
DoneLogged == \A f \in Slots : \A i \in DOMAIN done[f] : Logged(done[f][i])
LedgerLogged == \A i \in DOMAIN ledger : Logged(Audited(ledger[i]))

\* A node is purged by an event or by an answer, which brings the certificate with it.
PurgedForAReason ==
    \A d \in Docs : nodes[d] = "purged" => Logged(Deleted(Owner[d])) \/ HasCertificate(Owner[d])

\* Every certificate that the page has processed is listed, or another one with its id is.
ProcessedListed ==
    \A p \in processed : log[p].type = "AuditGenerated" => Listed(log[p].cert)

CertInv ==
    /\ TodoShape /\ OneIdEach /\ DeletionsPromised
    /\ DoneLogged /\ LedgerLogged /\ PurgedForAReason /\ ProcessedListed

LEMMA CertInvInit ==
    ASSUME Init
    PROVE  CertInv
<1>1. \A m : ~Logged(m)
  BY DEF Init, FeedInit, Logged
<1>2. Mentioned = {}
  BY DEF Init, FeedInit, Mentioned, Elements
<1>3. TodoShape /\ DoneLogged /\ LedgerLogged /\ PurgedForAReason /\ ProcessedListed
  BY DEF Init, PageInit, TodoShape, DoneLogged, LedgerLogged, PurgedForAReason, ProcessedListed
<1>4. QED  BY <1>1, <1>2, <1>3 DEF CertInv, OneIdEach, DeletionsPromised

\* What is logged stays logged; only SendNext logs more.
LEMMA LoggedStep ==
    ASSUME Typed, DashboardNext, NEW m
    PROVE  /\ Logged(m) => Logged(m)'
           /\ Logged(m)' => \/ Logged(m)
                            \/ \E f \in Slots : /\ SendNext(f)
                                                /\ m = Head(todo[f])
<1>0. log \in Seq(Event)
  BY DEF Typed, TypeOK
<1>1. Logged(m) => Logged(m)'
  BY LogKeeps DEF Logged
<1>2. CASE UNCHANGED log
  BY <1>2 DEF Logged
<1>3. ASSUME NEW f \in Slots, SendNext(f), Logged(m)'
      PROVE  Logged(m) \/ m = Head(todo[f])
  <2>1. log' = Append(log, Head(todo[f])) /\ Head(todo[f]) \in Event
    BY <1>3, FirstOfTodo DEF SendNext, Send
  <2>2. PICK p \in DOMAIN log' : log'[p] = m
    BY <1>3 DEF Logged
  <2>3. (p \in DOMAIN log /\ log'[p] = log[p]) \/ log'[p] = Head(todo[f])
    BY <1>0, <2>1, <2>2
  <2>4. QED  BY <2>2, <2>3 DEF Logged
<1>4. QED
  BY <1>1, <1>2, <1>3 DEF DashboardNext, Submit, ItemFails, RequestFails, Answer, OpenSocket,
     ConnectThrows, Connect, OnOpen, OnMessage, Greet, Deliver, OnClose, Process, feedVars

\* The event that is sent is in the log from then on.
LEMMA SentIsLogged ==
    ASSUME Typed, NEW f \in Slots, SendNext(f), NEW m, m = Head(todo[f])
    PROVE  Logged(m)'
<1>1. log \in Seq(Event) /\ log' = Append(log, Head(todo[f])) /\ Head(todo[f]) \in Event
  BY FirstOfTodo DEF Typed, TypeOK, SendNext, Send
<1>2. Len(log) + 1 \in DOMAIN log' /\ log'[Len(log) + 1] = m
  BY <1>1
<1>3. QED  BY <1>2 DEF Logged

\* What a step does to what a form still has to send.
LEMMA TodoStep ==
    ASSUME Typed, DashboardNext, NEW f \in Slots
    PROVE  \/ todo'[f] = todo[f]
           \/ Submit(f) /\ todo[f] = <<>> /\ todo'[f] \in Work(f)
           \/ todo[f] # <<>> /\ todo'[f] = Tail(todo[f]) /\ (SendNext(f) \/ ItemFails(f))
           \/ RequestFails(f) /\ todo'[f] = <<>>
<1>0. todo \in [Slots -> Seq(Event)]
  BY DEF Typed, TypeOK
<1>1. ASSUME NEW g \in Slots, Submit(g)
      PROVE  todo'[f] = todo[f] \/ (Submit(f) /\ todo[f] = <<>> /\ todo'[f] \in Work(f))
  BY <1>0, <1>1 DEF Submit, Idle
<1>2. ASSUME NEW g \in Slots, SendNext(g)
      PROVE  todo'[f] = todo[f] \/ (SendNext(f) /\ todo[f] # <<>> /\ todo'[f] = Tail(todo[f]))
  BY <1>0, <1>2 DEF SendNext
<1>3. ASSUME NEW g \in Slots, ItemFails(g)
      PROVE  todo'[f] = todo[f] \/ (ItemFails(f) /\ todo[f] # <<>> /\ todo'[f] = Tail(todo[f]))
  BY <1>0, <1>3 DEF ItemFails
<1>4. ASSUME NEW g \in Slots, RequestFails(g)
      PROVE  todo'[f] = todo[f] \/ (RequestFails(f) /\ todo'[f] = <<>>)
  BY <1>0, <1>4 DEF RequestFails
<1>5. CASE UNCHANGED todo
  BY <1>5
<1>6. QED
  BY <1>1, <1>2, <1>3, <1>4, <1>5 DEF DashboardNext, Answer, OpenSocket, ConnectThrows, OnOpen,
     OnMessage, OnClose, Process, requestVars

\* The three shapes of a request's events.
LEMMA WorkShape ==
    ASSUME NEW f \in Slots, NEW w \in Work(f)
    PROVE  \/ w \in Seq(Event) /\ \A i \in DOMAIN w : w[i].type = "NodeIngested"
           \/ \E c \in Certificate : /\ w = <<Deleted(c.entity), Audited(c)>>
                                     /\ SameSecond \/ c.id \notin UsedIds
<1>1. w \in IngestWork \cup BatchWork \cup UnlearnWork
  BY SlotsAssumption DEF Work
<1>2. CASE w \in IngestWork \cup BatchWork
  BY <1>2, WorkType DEF IngestWork, BatchWork, Ingested, Event
<1>3. CASE w \in UnlearnWork
  BY <1>3 DEF UnlearnWork
<1>4. QED  BY <1>1, <1>2, <1>3

LEMMA TodoShapeStep ==
    ASSUME Typed, TodoShape, DashboardNext
    PROVE  TodoShape'
<1> SUFFICES ASSUME NEW f \in Slots
             PROVE  \/ \A i \in DOMAIN todo'[f] : todo'[f][i].type = "NodeIngested"
                    \/ \E c \in Certificate : \/ todo'[f] = <<Deleted(c.entity), Audited(c)>>
                                              \/ todo'[f] = <<Audited(c)>>
  BY DEF TodoShape
<1>0. todo[f] \in Seq(Event)
  BY DEF Typed, TypeOK
<1>1. CASE todo'[f] = todo[f]
  BY <1>1 DEF TodoShape
<1>2. CASE todo'[f] \in Work(f)
  BY <1>2, WorkShape
<1>3. CASE todo[f] # <<>> /\ todo'[f] = Tail(todo[f])
  <2>1. CASE \A i \in DOMAIN todo[f] : todo[f][i].type = "NodeIngested"
    <3>1. \A i \in DOMAIN todo'[f] : i + 1 \in DOMAIN todo[f] /\ todo'[f][i] = todo[f][i + 1]
      BY <1>0, <1>3
    <3>2. QED  BY <2>1, <3>1
  <2>2. ASSUME NEW c \in Certificate, todo[f] = <<Deleted(c.entity), Audited(c)>>
        PROVE  todo'[f] = <<Audited(c)>>
    BY <1>3, <2>2, ShortQueues
  <2>3. ASSUME NEW c \in Certificate, todo[f] = <<Audited(c)>>
        PROVE  todo'[f] = <<>>
    BY <1>3, <2>3, ShortQueues
  <2>4. QED  BY <2>1, <2>2, <2>3 DEF TodoShape
<1>4. CASE todo'[f] = <<>>
  BY <1>4
<1>5. QED  BY <1>1, <1>2, <1>3, <1>4, TodoStep

LEMMA MentionedIff ==
    ASSUME NEW m
    PROVE  m \in Mentioned <=> Logged(m) \/ \E f \in Slots : m \in Elements(todo[f])
BY DEF Mentioned, Elements, Logged

\* Only a new request mentions something new.
LEMMA MentionedStep ==
    ASSUME Typed, DashboardNext, NEW m, m \in Mentioned'
    PROVE  \/ m \in Mentioned
           \/ \E f \in Slots : Submit(f) /\ todo'[f] \in Work(f) /\ m \in Elements(todo'[f])
<1>1. Logged(m)' \/ \E f \in Slots : m \in Elements(todo'[f])
  BY DEF Mentioned, Elements, Logged
<1>2. CASE Logged(m)'
  <2>1. ASSUME NEW f \in Slots, SendNext(f), m = Head(todo[f])
        PROVE  m \in Elements(todo[f])
    <3>1. todo[f] # <<>> /\ todo[f] \in Seq(Event)
      BY <2>1 DEF SendNext, Typed, TypeOK
    <3>2. 1 \in DOMAIN todo[f] /\ m = todo[f][1]
      BY <2>1, <3>1
    <3>3. QED  BY <3>2 DEF Elements
  <2>2. QED  BY <1>2, <2>1, LoggedStep, MentionedIff
<1>3. ASSUME NEW f \in Slots, m \in Elements(todo'[f]), ~(Submit(f) /\ todo'[f] \in Work(f))
      PROVE  m \in Elements(todo[f])
  <2>0. todo[f] \in Seq(Event)
    BY DEF Typed, TypeOK
  <2>1. CASE todo[f] # <<>> /\ todo'[f] = Tail(todo[f])
    <3>1. PICK i \in DOMAIN todo'[f] : m = todo'[f][i]
      BY <1>3 DEF Elements
    <3>2. i + 1 \in DOMAIN todo[f] /\ m = todo[f][i + 1]
      BY <2>0, <2>1, <3>1
    <3>3. QED  BY <3>2 DEF Elements
  <2>2. CASE todo'[f] = <<>>
    BY <1>3, <2>2 DEF Elements
  <2>3. QED  BY <1>3, <2>1, <2>2, TodoStep
<1>4. QED  BY <1>1, <1>2, <1>3, MentionedIff

\* A new certificate has an id of its own, and only one request begins in a step.
LEMMA OneIdStep ==
    ASSUME Typed, ~SameSecond, OneIdEach, DashboardNext
    PROVE  OneIdEach'
<1>1. ASSUME NEW c \in Certificate, Audited(c) \in Mentioned
      PROVE  c.id \in UsedIds
  BY <1>1 DEF UsedIds, Audited
<1>2. ASSUME NEW f \in Slots, Submit(f), NEW c \in Certificate, Audited(c) \in Elements(todo'[f]),
             todo'[f] \in Work(f)
      PROVE  /\ c.id \notin UsedIds
             /\ \A b \in Certificate : Audited(b) \in Elements(todo'[f]) => b = c
  <2>1. CASE \A i \in DOMAIN todo'[f] : todo'[f][i].type = "NodeIngested"
    BY <1>2, <2>1 DEF Elements, Audited
  <2>2. ASSUME NEW k \in Certificate, todo'[f] = <<Deleted(k.entity), Audited(k)>>,
               k.id \notin UsedIds
        PROVE  /\ c.id \notin UsedIds
               /\ \A b \in Certificate : Audited(b) \in Elements(todo'[f]) => b = c
    <3>1. Elements(todo'[f]) = {Deleted(k.entity), Audited(k)}
      BY <2>2 DEF Elements
    <3>2. \A b \in Certificate : Audited(b) # Deleted(k.entity)
      BY DEF Audited, Deleted
    <3>3. \A b \in Certificate : Audited(b) = Audited(k) => b = k
      BY DEF Audited
    <3>4. QED  BY <1>2, <2>2, <3>1, <3>2, <3>3
  <2>3. QED  BY <1>2, <2>1, <2>2, WorkShape
<1>3. ASSUME NEW f \in Slots, NEW g \in Slots, Submit(f), Submit(g),
             todo'[f] \in Work(f), todo'[g] \in Work(g),
             NEW a \in Certificate, Audited(a) \in Elements(todo'[f]), Audited(a) \notin Mentioned,
             NEW b \in Certificate, Audited(b) \in Elements(todo'[g]), Audited(b) \notin Mentioned
      PROVE  f = g
  <2>1. CASE f # g
    <3>1. todo'[g] = todo[g]
      BY <1>3, <2>1 DEF Submit, Typed, TypeOK
    <3>2. QED  BY <1>3, <3>1, MentionedIff
  <2>2. QED  BY <2>1
<1>4. SUFFICES ASSUME NEW a \in Certificate, NEW b \in Certificate, a.id = b.id,
                      Audited(a) \in Mentioned', Audited(b) \in Mentioned'
               PROVE  a = b
  BY DEF OneIdEach
<1>5. CASE Audited(a) \in Mentioned /\ Audited(b) \in Mentioned
  BY <1>4, <1>5 DEF OneIdEach
<1>6. CASE Audited(a) \notin Mentioned
  <2>1. PICK f \in Slots : Submit(f) /\ todo'[f] \in Work(f) /\ Audited(a) \in Elements(todo'[f])
    BY <1>4, <1>6, MentionedStep
  <2>2. a.id \notin UsedIds
    BY <1>2, <2>1
  <2>3. Audited(b) \notin Mentioned
    BY <1>1, <1>4, <2>2
  <2>4. PICK g \in Slots : Submit(g) /\ todo'[g] \in Work(g) /\ Audited(b) \in Elements(todo'[g])
    BY <1>4, <2>3, MentionedStep
  <2>5. QED  BY <1>2, <1>3, <1>6, <2>1, <2>3, <2>4
<1>7. CASE Audited(b) \notin Mentioned
  <2>1. PICK f \in Slots : Submit(f) /\ todo'[f] \in Work(f) /\ Audited(b) \in Elements(todo'[f])
    BY <1>4, <1>7, MentionedStep
  <2>2. b.id \notin UsedIds
    BY <1>2, <2>1
  <2>3. Audited(a) \notin Mentioned
    BY <1>1, <1>4, <2>2
  <2>4. QED  BY <1>6, <2>3
<1>8. QED  BY <1>5, <1>6, <1>7

\* Once its deletion was sent a request that still has its certificate to send cannot fail.
LEMMA PromisesKept ==
    ASSUME Typed, TodoShape, DeletionsPromised, DashboardNext
    PROVE  DeletionsPromised'
<1> SUFFICES ASSUME NEW e \in Entities, Logged(Deleted(e))'
             PROVE  Promised(e)'
  BY DEF DeletionsPromised
<1>1. CASE Logged(Deleted(e))
  <2>1. PICK c \in Certificate :
           c.entity = e /\ (Logged(Audited(c)) \/ \E f \in Slots : todo[f] = <<Audited(c)>>)
    BY <1>1 DEF DeletionsPromised, Promised
  <2>2. CASE Logged(Audited(c))
    BY <2>1, <2>2, LoggedStep DEF Promised
  <2>3. ASSUME NEW f \in Slots, todo[f] = <<Audited(c)>>
        PROVE  Logged(Audited(c))' \/ todo'[f] = <<Audited(c)>>
    <3>1. Head(todo[f]) = Audited(c) /\ todo[f] # <<>>
      BY <2>3, ShortQueues
    <3>2. ~ItemFails(f) /\ ~RequestFails(f)
      BY <3>1 DEF ItemFails, RequestFails, Audited
    <3>3. SendNext(f) => Logged(Audited(c))'
      BY <3>1, SentIsLogged
    <3>4. QED  BY <2>3, <3>1, <3>2, <3>3, TodoStep
  <2>4. QED  BY <2>1, <2>2, <2>3 DEF Promised
<1>2. CASE ~Logged(Deleted(e))
  <2>1. PICK f \in Slots : SendNext(f) /\ Deleted(e) = Head(todo[f])
    BY <1>2, LoggedStep
  <2>2. todo[f] \in Seq(Event) /\ todo[f] # <<>> /\ todo'[f] = Tail(todo[f])
    BY <2>1 DEF SendNext, Typed, TypeOK
  <2>3. 1 \in DOMAIN todo[f] /\ todo[f][1] = Deleted(e)
    BY <2>1, <2>2
  <2>4. ~\A i \in DOMAIN todo[f] : todo[f][i].type = "NodeIngested"
    BY <2>3 DEF Deleted
  <2>5. PICK c \in Certificate : \/ todo[f] = <<Deleted(c.entity), Audited(c)>>
                                 \/ todo[f] = <<Audited(c)>>
    BY <2>4 DEF TodoShape
  <2>6. todo[f] = <<Deleted(c.entity), Audited(c)>> /\ c.entity = e
    BY <2>3, <2>5 DEF Deleted, Audited
  <2>7. todo'[f] = <<Audited(c)>>
    BY <2>2, <2>6, ShortQueues
  <2>8. QED  BY <2>6, <2>7 DEF Promised
<1>3. QED  BY <1>1, <1>2

LEMMA DoneLoggedStep ==
    ASSUME Typed, DoneLogged, DashboardNext
    PROVE  DoneLogged'
<1>0. todo \in [Slots -> Seq(Event)] /\ done \in [Slots -> Seq(Event)]
  BY DEF Typed, TypeOK
<1> SUFFICES ASSUME NEW f \in Slots, NEW i \in DOMAIN done'[f]
             PROVE  \E p \in DOMAIN log' : log'[p] = done'[f][i]
  BY DEF DoneLogged, Logged
<1>1. CASE done'[f] = done[f]
  <2>1. Logged(done[f][i])
    BY <1>1 DEF DoneLogged
  <2>2. QED  BY <1>1, <2>1, LogKeeps DEF Logged
<1>2. CASE done'[f] = <<>>
  BY <1>2
<1>3. CASE SendNext(f) /\ done'[f] = Append(done[f], Head(todo[f]))
  <2>1. Head(todo[f]) \in Event
    BY <1>3, FirstOfTodo DEF SendNext
  <2>2. CASE i \in DOMAIN done[f]
    <3>1. done'[f][i] = done[f][i] /\ Logged(done[f][i])
      BY <1>0, <1>3, <2>1, <2>2 DEF DoneLogged
    <3>2. QED  BY <3>1, LogKeeps DEF Logged
  <2>3. CASE i \notin DOMAIN done[f]
    <3>1. done'[f][i] = Head(todo[f])
      BY <1>0, <1>3, <2>1, <2>3
    <3>2. QED  BY <1>3, <3>1, SentIsLogged DEF Logged
  <2>4. QED  BY <2>2, <2>3
<1>4. QED
  BY <1>0, <1>1, <1>2, <1>3 DEF DashboardNext, Submit, SendNext, ItemFails, RequestFails,
     Answer, OpenSocket, ConnectThrows, OnOpen, OnMessage, OnClose, Process, requestVars

\* What the other two kinds of events are made of.
LEMMA AuditOfCert ==
    ASSUME NEW m \in Event, m.type = "AuditGenerated"
    PROVE  m.cert \in Certificate /\ m = Audited(m.cert)
BY DEF Event, Ingested, Deleted, Audited

LEMMA DeletedOfEntity ==
    ASSUME NEW m \in Event, m.type = "NodeDeleted"
    PROVE  m = Deleted(m.entity)
BY DEF Event, Ingested, Deleted, Audited

\* What a step puts into the ledger was sent.
LEMMA LedgerStep ==
    ASSUME Typed, DoneLogged, LedgerLogged, DashboardNext
    PROVE  /\ LedgerLogged'
           /\ \A i \in DOMAIN ledger : \E j \in DOMAIN ledger' : ledger'[j] = ledger[i]
<1>0. ledger \in Seq(Certificate)
  BY DEF Typed, TypeOK, PageTypeOK
<1>1. \A i \in DOMAIN ledger : \E p \in DOMAIN log' : log'[p] = Audited(ledger[i])
  BY LogKeeps DEF LedgerLogged, Logged
<1>2. CASE UNCHANGED ledger
  BY <1>1, <1>2 DEF LedgerLogged, Logged, Audited
<1>3. ASSUME NEW c \in Certificate, ledger' = <<c>> \o ledger, Logged(Audited(c))
      PROVE  /\ LedgerLogged'
             /\ \A i \in DOMAIN ledger : \E j \in DOMAIN ledger' : ledger'[j] = ledger[i]
  <2>1. Logged(Audited(c))'
    BY <1>3, LoggedStep
  <2>2. \A j \in DOMAIN ledger' : ledger'[j] = c \/ \E i \in DOMAIN ledger : ledger'[j] = ledger[i]
    BY <1>0, <1>3
  <2>3. \A i \in DOMAIN ledger : i + 1 \in DOMAIN ledger' /\ ledger'[i + 1] = ledger[i]
    BY <1>0, <1>3
  <2>4. \A j \in DOMAIN ledger' : \E p \in DOMAIN log' : log'[p] = Audited(ledger'[j])
    BY <1>1, <2>1, <2>2 DEF Logged
  <2>5. LedgerLogged'
    BY <2>4 DEF LedgerLogged, Logged, Audited
  <2>6. QED  BY <2>3, <2>5
<1>4. ASSUME NEW f \in Slots, Answer(f), ~UNCHANGED ledger
      PROVE  \E c \in Certificate : ledger' = <<c>> \o ledger /\ Logged(Audited(c))
  <2>1. f = "unlearn" /\ todo[f] = <<>> /\ done[f] # <<>>
        /\ ledger' = <<done[f][2].cert>> \o ledger
    BY <1>4 DEF Answer, handleIngestSuccess, handleUnlearnSuccess
  <2>2. PICK c \in Certificate : done[f] = <<Deleted(c.entity), Audited(c)>>
    BY <2>1 DEF Typed, UnlearnShape
  <2>3. 2 \in DOMAIN done[f] /\ done[f][2] = Audited(c)
    BY <2>2
  <2>4. QED  BY <2>1, <2>3 DEF DoneLogged, Audited
<1>5. ASSUME Process, ~UNCHANGED ledger
      PROVE  \E c \in Certificate : ledger' = <<c>> \o ledger /\ Logged(Audited(c))
  <2>1. lastEvent \in DOMAIN log /\ log[lastEvent] \in Event /\ ShowEvent(log[lastEvent])
    BY <1>5 DEF Process, pageVars, Typed, TypeOK
  <2>2. log[lastEvent].type = "AuditGenerated"
        /\ ledger' = <<log[lastEvent].cert>> \o ledger
    BY <1>5, <2>1 DEF ShowEvent
  <2>3. log[lastEvent].cert \in Certificate /\ log[lastEvent] = Audited(log[lastEvent].cert)
    BY <2>1, <2>2, AuditOfCert
  <2>4. QED  BY <2>1, <2>2, <2>3 DEF Logged
<1>6. QED
  BY <1>2, <1>3, <1>4, <1>5 DEF DashboardNext, Submit, SendNext, ItemFails, RequestFails,
     OpenSocket, ConnectThrows, OnOpen, OnMessage, OnClose, pageVars

LEMMA ReasonStep ==
    ASSUME Typed, DoneLogged, LedgerLogged, PurgedForAReason, DashboardNext
    PROVE  PurgedForAReason'
<1> SUFFICES ASSUME NEW d \in Docs, nodes'[d] = "purged"
             PROVE  Logged(Deleted(Owner[d]))' \/ HasCertificate(Owner[d])'
  BY DEF PurgedForAReason
<1>0. nodes \in [Docs -> {"absent", "active", "purged"}] /\ ledger \in Seq(Certificate)
  BY DEF Typed, TypeOK, PageTypeOK
<1>1. CASE nodes[d] = "purged"
  <2>1. Logged(Deleted(Owner[d])) => Logged(Deleted(Owner[d]))'
    BY LoggedStep
  <2>2. HasCertificate(Owner[d]) => HasCertificate(Owner[d])'
    BY LedgerStep DEF HasCertificate
  <2>3. QED  BY <1>1, <2>1, <2>2 DEF PurgedForAReason
<1>2. CASE nodes[d] # "purged"
  <2>1. ASSUME NEW f \in Slots, Answer(f)
        PROVE  HasCertificate(Owner[d])'
    <3>1. f = "unlearn" /\ todo[f] = <<>> /\ done[f] # <<>>
          /\ handleUnlearnSuccess(done[f][1].entity, done[f][2].cert)
      BY <1>0, <1>2, <2>1 DEF Answer, handleIngestSuccess, AddNodes
    <3>2. PICK c \in Certificate : done[f][1].entity = c.entity /\ done[f][2].cert = c
      BY <3>1, AnswerCertified
    <3>3. Owner[d] = c.entity /\ ledger' = <<c>> \o ledger
      BY <1>2, <3>1, <3>2 DEF handleUnlearnSuccess, MarkPurged
    <3>4. 1 \in DOMAIN ledger' /\ ledger'[1] = c
      BY <1>0, <3>3
    <3>5. QED  BY <3>3, <3>4 DEF HasCertificate
  <2>2. CASE Process
    <3>1. lastEvent \in DOMAIN log /\ log[lastEvent] \in Event /\ ShowEvent(log[lastEvent])
      BY <1>2, <2>2 DEF Process, pageVars, Typed, TypeOK
    <3>2. log[lastEvent].type = "NodeDeleted" /\ log[lastEvent].entity = Owner[d]
      BY <1>0, <1>2, <3>1 DEF ShowEvent, AddNodes, MarkPurged
    <3>3. log[lastEvent] = Deleted(Owner[d])
      BY <3>1, <3>2, DeletedOfEntity
    <3>4. QED  BY <3>1, <3>3, LoggedStep DEF Logged
  <2>3. QED
    BY <1>2, <2>1, <2>2 DEF DashboardNext, Submit, SendNext, ItemFails, RequestFails,
       OpenSocket, ConnectThrows, OnOpen, OnMessage, OnClose, pageVars
<1>3. QED  BY <1>1, <1>2

LEMMA ListedStep ==
    ASSUME Typed, DoneLogged, LedgerLogged, ProcessedListed, DashboardNext
    PROVE  ProcessedListed'
<1>0. log \in Seq(Event) /\ processed \subseteq DOMAIN log /\ ledger \in Seq(Certificate)
  BY DEF Typed, TypeOK, PageTypeOK
<1> SUFFICES ASSUME NEW p \in processed', log'[p].type = "AuditGenerated"
             PROVE  \E i \in DOMAIN ledger' : ledger'[i].id = log'[p].cert.id
  BY DEF ProcessedListed, Listed
<1>1. CASE p \in processed
  <2>1. log'[p] = log[p]
    BY <1>0, <1>1, LogKeeps
  <2>2. PICK i \in DOMAIN ledger : ledger[i].id = log[p].cert.id
    BY <1>1, <2>1 DEF ProcessedListed, Listed
  <2>3. QED  BY <2>1, <2>2, LedgerStep
<1>2. CASE p \notin processed
  <2>1. Process /\ p = lastEvent /\ lastEvent # 0 /\ log' = log
    BY <1>2 DEF DashboardNext, Submit, SendNext, ItemFails, RequestFails, Answer,
       OpenSocket, ConnectThrows, OnOpen, OnMessage, OnClose, Process, feedVars
  <2>2. ShowEvent(log[p]) /\ log[p].type = "AuditGenerated"
    BY <2>1 DEF Process
  <2>3. CASE Listed(log[p].cert)
    BY <2>1, <2>2, <2>3 DEF ShowEvent, Listed
  <2>4. CASE ~Listed(log[p].cert)
    <3>1. ledger' = <<log[p].cert>> \o ledger
      BY <2>2, <2>4 DEF ShowEvent
    <3>2. p \in DOMAIN log /\ log[p] \in Event
      BY <1>0, <2>1 DEF Typed
    <3>3. log[p].cert \in Certificate
      BY <2>2, <3>2, EventKinds
    <3>4. 1 \in DOMAIN ledger' /\ ledger'[1] = log[p].cert
      BY <1>0, <3>1, <3>3
    <3>5. QED  BY <2>1, <3>4
  <2>5. QED  BY <2>3, <2>4
<1>3. QED  BY <1>1, <1>2

LEMMA CertInvStep ==
    ASSUME Typed, ~SameSecond, CertInv, [DashboardNext]_vars
    PROVE  CertInv'
<1>1. CASE DashboardNext
  BY <1>1, TodoShapeStep, OneIdStep, PromisesKept, DoneLoggedStep, LedgerStep, ReasonStep,
     ListedStep DEF CertInv
<1>2. CASE UNCHANGED vars
  <2>1. UNCHANGED <<log, todo, done, nodes, ledger, processed>>
    BY <1>2 DEF vars, feedVars, requestVars, pageVars
  <2>2. TodoShape'
    BY <2>1 DEF CertInv, TodoShape, Audited, Deleted
  <2>3. ProcessedListed'
    BY <2>1 DEF CertInv, ProcessedListed, Listed
  <2>4. OneIdEach'
    BY <2>1 DEF CertInv, OneIdEach, Mentioned, Elements, Audited
  <2>5. ASSUME NEW e \in Entities, Logged(Deleted(e))'
        PROVE  Promised(e)'
    <3>1. Promised(e)
      BY <2>1, <2>5 DEF CertInv, DeletionsPromised, Logged, Deleted
    <3>2. QED  BY <2>1, <3>1 DEF Promised, Logged, Audited
  <2>6. DoneLogged'
    BY <2>1 DEF CertInv, DoneLogged, Logged
  <2>7. LedgerLogged'
    BY <2>1 DEF CertInv, LedgerLogged, Logged, Audited
  <2>8. PurgedForAReason'
    BY <2>1 DEF CertInv, PurgedForAReason, HasCertificate, Logged, Deleted
  <2>9. QED
    BY <2>2, <2>3, <2>4, <2>5, <2>6, <2>7, <2>8 DEF CertInv, DeletionsPromised
<1>3. QED  BY <1>1, <1>2

\* Unless two unlearnings get the same audit_id, a page that has processed every event
\* while no request is running lists a certificate of every entity that it shows as
\* purged, whether it learned of the unlearning from an event or from its own answer and
\* whichever of the two came first.
THEOREM PurgedAlwaysCertified ==
    ASSUME ~SameSecond
    PROVE  DashboardSpec => []PurgedIsCertified
<1>1. Typed /\ CertInv => PurgedIsCertified
  <2> SUFFICES ASSUME Typed, CertInv, \A f \in Slots : Idle(f), processed = DOMAIN log,
                      NEW d \in Docs, nodes[d] = "purged"
               PROVE  HasCertificate(Owner[d])
    BY DEF PurgedIsCertified, HasCertificate
  <2>1. CASE Logged(Deleted(Owner[d]))
    <3>1. Owner[d] \in Entities
      BY DEF Entities
    <3>2. PICK c \in Certificate :
             c.entity = Owner[d] /\ (Logged(Audited(c)) \/ \E f \in Slots : todo[f] = <<Audited(c)>>)
      BY <2>1, <3>1 DEF CertInv, DeletionsPromised, Promised
    <3>3. ASSUME NEW f \in Slots
          PROVE  todo[f] # <<Audited(c)>>
      <4>1. todo[f] = <<>>
        BY DEF Idle
      <4>2. <<Audited(c)>> # <<>>
        OBVIOUS
      <4>3. QED  BY <4>1, <4>2
    <3>4. PICK p \in processed : log[p] = Audited(c)
      BY <3>2, <3>3 DEF Logged
    <3>5. PICK i \in DOMAIN ledger : ledger[i].id = c.id
      BY <3>4 DEF CertInv, ProcessedListed, Listed, Audited
    <3>6. ledger[i] \in Certificate
      BY <3>5 DEF Typed, TypeOK, PageTypeOK
    <3>7. Audited(ledger[i]) \in Mentioned /\ Audited(c) \in Mentioned
      BY <3>4, <3>5, MentionedIff DEF CertInv, LedgerLogged, Logged
    <3>8. ledger[i] = c
      BY <3>5, <3>6, <3>7 DEF CertInv, OneIdEach
    <3>9. QED  BY <3>2, <3>5, <3>8 DEF HasCertificate
  <2>2. QED  BY <2>1 DEF CertInv, PurgedForAReason
<1>2. QED  BY <1>1, CertInvInit, CertInvStep, TypedInvariant, PTL DEF DashboardSpec
=============================================================================
