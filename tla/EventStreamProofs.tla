------------------------- MODULE EventStreamProofs -------------------------
(***************************************************************************)
(* Proofs about EventStream for every set of sessions and events, every    *)
(* capacity of the channel and every size of the sockets' buffers.         *)
(*                                                                         *)
(* The argument: what a session has passed on is increasing and lies below *)
(* the position that it reads next (Ordered); that position never goes     *)
(* back, by Lagged either, so an event is read once at most.  CONNECTED is *)
(* put into the socket before the tasks exist, so it is the first message  *)
(* (Started).  While the link is up nothing that was read is lost (Kept).  *)
(* From the same invariant every step is one of the feed that EventFeed    *)
(* specifies, or one that the browser does not see.                        *)
(***************************************************************************)
EXTENDS EventStream, SequenceTheorems, TLAPS

\* One session's part of the state.
Part(s) == <<place[s], tasks[s], next[s], hand[s], link[s], wire[s], seen[s], since[s]>>

\* What a session does, and what happens to its connection.
Acts(s) == Connect(s) \/ Serve(s) \/ Deliver(s) \/ Close(s) \/ Cut(s)

\* What is with the browser, on its way, in the sender's hand and yet to be read is
\* increasing.
Ordered(s) ==
    /\ \A i, j \in DOMAIN seen[s] : i < j => seen[s][i] < seen[s][j]
    /\ \A i, j \in DOMAIN wire[s] : i < j => wire[s][i] < wire[s][j]
    /\ \A i \in DOMAIN seen[s], j \in DOMAIN wire[s] : seen[s][i] < wire[s][j]
    /\ \A i \in DOMAIN seen[s] : seen[s][i] < next[s] /\ (hand[s] # 0 => seen[s][i] < hand[s])
    /\ \A i \in DOMAIN wire[s] : wire[s][i] < next[s] /\ (hand[s] # 0 => wire[s][i] < hand[s])
    /\ hand[s] < next[s]

\* A session begins with nothing, and its first message is CONNECTED.
Started(s) ==
    /\ place[s] \in {"none", "greeting"} => tasks[s] = {} /\ wire[s] = <<>> /\ seen[s] = <<>>
    /\ place[s] = "greeting" => next[s] = since[s] + 1
    /\ hand[s] # 0 => "send" \in tasks[s]
    /\ tasks[s] # {} => place[s] = "running"
    /\ seen[s] # <<>> => seen[s][1] = 0
    /\ seen[s] = <<>> /\ wire[s] # <<>> => wire[s][1] = 0
    /\ seen[s] = <<>> /\ wire[s] = <<>> /\ place[s] = "running" => link[s] # "up"

\* It reads events that were sent, after it subscribed.
Sound(s) ==
    /\ since[s] < next[s]
    /\ next[s] <= Len(log) + 1
    /\ hand[s] # 0 => since[s] < hand[s]
    /\ \A i \in DOMAIN seen[s] : seen[s][i] # 0 => since[s] < seen[s][i]
    /\ \A i \in DOMAIN wire[s] : wire[s][i] # 0 => since[s] < wire[s][i]

\* What it has read is not lost while the link is up.
Kept(s) ==
    place[s] = "running" /\ link[s] = "up" =>
        \A p \in since[s] + 1 .. next[s] - 1 :
            \/ \E i \in DOMAIN seen[s] : seen[s][i] = p
            \/ \E i \in DOMAIN wire[s] : wire[s][i] = p
            \/ p = hand[s]
            \/ p < Oldest

Good(s) == Ordered(s) /\ Started(s) /\ Sound(s) /\ Kept(s)
IInv == StreamTypeOK /\ \A s \in Sessions : Good(s)

LEMMA TypedInit ==
    ASSUME StreamInit
    PROVE  IInv
<1>1. StreamTypeOK
  BY DEF StreamInit, StreamTypeOK, Places, Links
<1>2. ASSUME NEW s \in Sessions
      PROVE  Good(s)
  BY DEF StreamInit, Good, Ordered, Started, Sound, Kept
<1>3. QED  BY <1>1, <1>2 DEF IInv

\* The types of one session's part.
LEMMA PartTypes ==
    ASSUME StreamTypeOK, NEW s \in Sessions
    PROVE  /\ log \in Seq(Events) /\ Len(log) \in Nat
           /\ next[s] \in Nat /\ next[s] > 0
           /\ hand[s] \in Nat /\ since[s] \in Nat
           /\ wire[s] \in Seq(Nat) /\ seen[s] \in Seq(Nat)
           /\ Oldest \in Nat /\ Oldest > 0
BY CapacityAssumption DEF StreamTypeOK, Oldest

\* Putting a message keeps the type of the buffers.
LEMMA PutTypes ==
    ASSUME StreamTypeOK, NEW s \in Sessions, NEW m \in Nat, Put(s, m)
    PROVE  wire' \in [Sessions -> Seq(Nat)]
BY DEF Put, StreamTypeOK

\* Every step keeps the type of every variable.
LEMMA TypeStep ==
    ASSUME StreamTypeOK, Next
    PROVE  StreamTypeOK'
<1> USE DEF StreamTypeOK
<1>1. ASSUME NEW e \in Events, Send(e)
      PROVE  StreamTypeOK'
  BY <1>1 DEF Send
<1>2. ASSUME NEW s \in Sessions, Connect(s)
      PROVE  StreamTypeOK'
  BY <1>2 DEF Connect, Places, Links
<1>3. ASSUME NEW s \in Sessions, Greet(s)
      PROVE  StreamTypeOK'
  <2>1. wire' \in [Sessions -> Seq(Nat)]
    BY <1>3, PutTypes DEF Greet
  <2>2. QED  BY <1>3, <2>1 DEF Greet, Places
<1>4. ASSUME NEW s \in Sessions, GreetFails(s)
      PROVE  StreamTypeOK'
  BY <1>4 DEF GreetFails, Places
<1>5. ASSUME NEW s \in Sessions, Take(s)
      PROVE  StreamTypeOK'
  <2>1. next[s] \in Nat \ {0}
    OBVIOUS
  <2>2. QED  BY <1>5, <2>1 DEF Take
<1>6. ASSUME NEW s \in Sessions, Lag(s)
      PROVE  StreamTypeOK'
  <2>1. Oldest \in Nat \ {0}
    BY PartTypes
  <2>2. QED  BY <1>6, <2>1 DEF Lag
<1>7. ASSUME NEW s \in Sessions, Forward(s)
      PROVE  StreamTypeOK'
  <2>1. wire' \in [Sessions -> Seq(Nat)]
    BY <1>7, PutTypes DEF Forward
  <2>2. QED  BY <1>7, <2>1 DEF Forward
<1>8. ASSUME NEW s \in Sessions, SendFails(s)
      PROVE  StreamTypeOK'
  <2>1. tasks[s] \ {"send"} \in SUBSET {"send", "recv"}
    OBVIOUS
  <2>2. QED  BY <1>8, <2>1 DEF SendFails
<1>9. ASSUME NEW s \in Sessions, RecvEnds(s)
      PROVE  StreamTypeOK'
  <2>1. tasks[s] \ {"recv"} \in SUBSET {"send", "recv"}
    OBVIOUS
  <2>2. QED  BY <1>9, <2>1 DEF RecvEnds
<1>10. ASSUME NEW s \in Sessions, Abort(s)
      PROVE  StreamTypeOK'
  BY <1>10 DEF Abort, Places
<1>11. ASSUME NEW s \in Sessions, Deliver(s)
      PROVE  StreamTypeOK'
  <2>1. wire[s] \in Seq(Nat) /\ seen[s] \in Seq(Nat) /\ wire[s] # <<>>
    BY <1>11 DEF Deliver
  <2>2. Tail(wire[s]) \in Seq(Nat) /\ Append(seen[s], Head(wire[s])) \in Seq(Nat)
    BY <2>1
  <2>3. QED  BY <1>11, <2>2 DEF Deliver
<1>12. ASSUME NEW s \in Sessions, Close(s)
      PROVE  StreamTypeOK'
  BY <1>12 DEF Close, Links
<1>13. ASSUME NEW s \in Sessions, Cut(s)
      PROVE  StreamTypeOK'
  <2>1. <<>> \in Seq(Nat)
    OBVIOUS
  <2>2. QED  BY <1>13, <2>1 DEF Cut, Links
<1>14. QED
  BY <1>1, <1>2, <1>3, <1>4, <1>5, <1>6, <1>7, <1>8, <1>9, <1>10, <1>11, <1>12, <1>13
  DEF Next, Serve

\* A session's step leaves the log and the parts of the others.
LEMMA OthersStay ==
    ASSUME StreamTypeOK, NEW s \in Sessions, NEW t \in Sessions, s # t, Acts(s)
    PROVE  UNCHANGED Part(t) /\ log' = log
BY DEF StreamTypeOK, Part, Acts, Connect, Serve, Greet, GreetFails, Put, Take, Lag, Forward,
   SendFails, RecvEnds, Abort, Deliver, Close, Cut

\* A part that does not change stays good when the log grows.
LEMMA PartStays ==
    ASSUME StreamTypeOK, StreamTypeOK', NEW t \in Sessions, Good(t), UNCHANGED Part(t),
           Len(log) <= Len(log')
    PROVE  Good(t)'
<1>1. Oldest <= Oldest'
  BY CapacityAssumption DEF StreamTypeOK, Oldest
<1>2. Ordered(t)' /\ Started(t)'
  BY DEF Good, Part, Ordered, Started
<1>3. Sound(t)'
  BY PartTypes DEF Good, Part, Sound, StreamTypeOK
<1>4. Kept(t)'
  <2>1. /\ Oldest \in Nat /\ Oldest' \in Nat
        /\ since[t] \in Nat /\ next[t] \in Nat
    BY CapacityAssumption DEF StreamTypeOK, Oldest
  <2>2. \A p \in Nat : p < Oldest => p < Oldest'
    BY <1>1, <2>1
  <2>3. Kept(t)
    BY DEF Good
  <2>4. SUFFICES ASSUME place'[t] = "running", link'[t] = "up",
                        NEW p \in since'[t] + 1 .. next'[t] - 1
                 PROVE  \/ \E i \in DOMAIN seen'[t] : seen'[t][i] = p
                        \/ \E i \in DOMAIN wire'[t] : wire'[t][i] = p
                        \/ p = hand'[t]
                        \/ p < Oldest'
    BY DEF Kept
  <2>5. /\ place[t] = "running" /\ link[t] = "up"
        /\ p \in since[t] + 1 .. next[t] - 1
        /\ seen'[t] = seen[t] /\ wire'[t] = wire[t] /\ hand'[t] = hand[t]
    BY <2>4 DEF Part
  <2>6. QED  BY <2>1, <2>2, <2>3, <2>5 DEF Kept
<1>5. QED  BY <1>2, <1>3, <1>4 DEF Good

---------------------------------------------------------------------------
(* A session's own steps.                                                  *)

\* The positions of a sequence that one element is added to, and what they hold.
LEMMA Appended ==
    ASSUME NEW q \in Seq(Nat), NEW x \in Nat
    PROVE  /\ Append(q, x) \in Seq(Nat) /\ Len(q) + 1 \in DOMAIN Append(q, x)
           /\ Append(q, x)[Len(q) + 1] = x
           /\ \A i \in DOMAIN q :
                 /\ i \in Nat /\ i < Len(q) + 1
                 /\ i \in DOMAIN Append(q, x) /\ Append(q, x)[i] = q[i]
           /\ \A i \in DOMAIN Append(q, x) : i \in DOMAIN q \/ i = Len(q) + 1
<1>1. /\ Append(q, x) \in Seq(Nat) /\ Len(Append(q, x)) = Len(q) + 1
      /\ \A i \in 1 .. Len(q) : Append(q, x)[i] = q[i]
      /\ Append(q, x)[Len(q) + 1] = x
  BY AppendProperties
<1>2. /\ DOMAIN q = 1 .. Len(q) /\ Len(q) \in Nat
      /\ DOMAIN Append(q, x) = 1 .. Len(q) + 1
  BY <1>1
<1>3. QED  BY <1>1, <1>2

\* The positions of a sequence that its first element is taken from.
LEMMA Tailed ==
    ASSUME NEW q \in Seq(Nat), q # <<>>
    PROVE  /\ 1 \in DOMAIN q /\ Head(q) = q[1] /\ Tail(q) \in Seq(Nat)
           /\ \A i \in DOMAIN Tail(q) :
                 i \in Nat /\ i > 0 /\ i + 1 \in DOMAIN q /\ Tail(q)[i] = q[i + 1]
           /\ \A i \in DOMAIN q : i = 1 \/ (i - 1 \in DOMAIN Tail(q) /\ Tail(q)[i - 1] = q[i])
<1>1. /\ Len(q) \in Nat /\ Len(q) > 0 /\ DOMAIN q = 1 .. Len(q)
      /\ Head(q) = q[1] /\ Tail(q) \in Seq(Nat) /\ Len(Tail(q)) = Len(q) - 1
  OBVIOUS
<1>2. DOMAIN Tail(q) = 1 .. Len(q) - 1
  BY <1>1
<1>3. \A i \in 1 .. Len(q) - 1 : Tail(q)[i] = q[i + 1]
  BY <1>1
<1>4. QED  BY <1>1, <1>2, <1>3

LEMMA ConnectGood ==
    ASSUME StreamTypeOK, NEW s \in Sessions, Good(s), Connect(s)
    PROVE  Good(s)'
<1>1. /\ place'[s] = "greeting" /\ tasks'[s] = {} /\ wire'[s] = <<>> /\ seen'[s] = <<>>
      /\ next'[s] = Len(log) + 1 /\ since'[s] = Len(log) /\ hand'[s] = 0 /\ log' = log
  BY DEF Connect, StreamTypeOK, Good, Started
<1>2. QED  BY <1>1, PartTypes DEF Good, Ordered, Started, Sound, Kept

LEMMA GreetGood ==
    ASSUME StreamTypeOK, NEW s \in Sessions, Good(s), Greet(s)
    PROVE  Good(s)'
<1>1. /\ wire[s] = <<>> /\ seen[s] = <<>> /\ hand[s] = 0 /\ next[s] = since[s] + 1
  BY DEF Greet, Good, Started
<1>2. /\ place'[s] = "running" /\ tasks'[s] = {"send", "recv"}
      /\ wire'[s] = IF link[s] = "up" THEN <<0>> ELSE <<>>
      /\ seen'[s] = <<>> /\ hand'[s] = 0 /\ log' = log
      /\ next'[s] = next[s] /\ since'[s] = since[s] /\ link'[s] = link[s]
  BY <1>1 DEF Greet, Put, StreamTypeOK
<1>3. Ordered(s)'
  BY <1>2, PartTypes DEF Ordered
<1>4. Started(s)' /\ Sound(s)'
  BY <1>2, PartTypes DEF Started, Sound, Good
<1>5. Kept(s)'
  BY <1>1, <1>2, PartTypes DEF Kept
<1>6. QED  BY <1>3, <1>4, <1>5 DEF Good

LEMMA TakeGood ==
    ASSUME StreamTypeOK, NEW s \in Sessions, Good(s), Take(s)
    PROVE  Good(s)'
<1>1. /\ hand[s] = 0 /\ "send" \in tasks[s] /\ next[s] <= Len(log)
      /\ hand'[s] = next[s] /\ next'[s] = next[s] + 1 /\ log' = log
      /\ UNCHANGED <<place[s], tasks[s], wire[s], seen[s], since[s], link[s]>>
  BY PartTypes DEF Take, Selecting, StreamTypeOK
<1>2. /\ seen[s] \in Seq(Nat) /\ wire[s] \in Seq(Nat)
      /\ next[s] \in Nat /\ since[s] \in Nat /\ next[s] > 0
  BY PartTypes
<1>3. Ordered(s)'
  BY <1>1, <1>2 DEF Good, Ordered
<1>4. Started(s)' /\ Sound(s)'
  BY <1>1, <1>2, PartTypes DEF Good, Started, Sound
<1>5. Kept(s)'
  <2>1. \A p \in since[s] + 1 .. next[s] : p \in since[s] + 1 .. next[s] - 1 \/ p = next[s]
    BY <1>2
  <2>2. Oldest' = Oldest
    BY <1>1 DEF Oldest
  <2>3. QED  BY <1>1, <1>2, <2>1, <2>2 DEF Good, Kept
<1>6. QED  BY <1>3, <1>4, <1>5 DEF Good

LEMMA LagGood ==
    ASSUME StreamTypeOK, NEW s \in Sessions, Good(s), Lag(s)
    PROVE  Good(s)'
<1>1. /\ next[s] < Oldest /\ next'[s] = Oldest /\ log' = log
      /\ UNCHANGED <<place[s], tasks[s], wire[s], seen[s], since[s], link[s], hand[s]>>
  BY DEF Lag, StreamTypeOK
<1>2. /\ seen[s] \in Seq(Nat) /\ wire[s] \in Seq(Nat) /\ hand[s] \in Nat
      /\ next[s] \in Nat /\ since[s] \in Nat /\ Oldest \in Nat /\ Oldest <= Len(log) + 1
      /\ Oldest' = Oldest
  BY <1>1, PartTypes, CapacityAssumption DEF Oldest
<1>3. Ordered(s)'
  BY <1>1, <1>2 DEF Good, Ordered
<1>4. Started(s)'
  <2>1. place[s] = "running"
    BY DEF Good, Started, Lag, Selecting
  <2>2. QED  BY <1>1, <2>1 DEF Good, Started
<1>5. Sound(s)'
  BY <1>1, <1>2 DEF Good, Sound
<1>6. Kept(s)'
  BY <1>1, <1>2 DEF Kept
<1>7. QED  BY <1>3, <1>4, <1>5, <1>6 DEF Good

\* What the sender puts into the socket comes after all that is in it.
LEMMA ForwardGood ==
    ASSUME StreamTypeOK, NEW s \in Sessions, Good(s), Forward(s)
    PROVE  Good(s)'
<1>1. /\ hand[s] # 0 /\ "send" \in tasks[s] /\ place[s] = "running"
      /\ wire'[s] = IF link[s] = "up" THEN Append(wire[s], hand[s]) ELSE wire[s]
      /\ hand'[s] = 0 /\ log' = log
      /\ UNCHANGED <<place[s], tasks[s], seen[s], since[s], link[s], next[s]>>
  BY DEF Forward, Put, StreamTypeOK, Good, Started
<1>2. /\ seen[s] \in Seq(Nat) /\ wire[s] \in Seq(Nat) /\ hand[s] \in Nat
      /\ next[s] \in Nat /\ since[s] \in Nat /\ Len(log) \in Nat
  BY PartTypes
<1>3. Oldest' = Oldest
  BY <1>1 DEF Oldest
<1>4. CASE link[s] = "up"
  <2>1. /\ \A i \in DOMAIN wire[s] : /\ i \in Nat /\ i < Len(wire[s]) + 1
                                     /\ i \in DOMAIN wire'[s] /\ wire'[s][i] = wire[s][i]
        /\ Len(wire[s]) + 1 \in DOMAIN wire'[s] /\ wire'[s][Len(wire[s]) + 1] = hand[s]
        /\ \A i \in DOMAIN wire'[s] : i \in DOMAIN wire[s] \/ i = Len(wire[s]) + 1
    BY <1>1, <1>2, <1>4, Appended
  <2>2. Ordered(s)'
    <3>1. \A i, j \in DOMAIN wire'[s] : i < j => wire'[s][i] < wire'[s][j]
      <4> SUFFICES ASSUME NEW i \in DOMAIN wire'[s], NEW j \in DOMAIN wire'[s], i < j
                   PROVE  wire'[s][i] < wire'[s][j]
        OBVIOUS
      <4>1. i \in DOMAIN wire[s] /\ Len(wire[s]) \in Nat
        BY <1>2, <2>1
      <4>2. CASE j \in DOMAIN wire[s]
        BY <2>1, <4>1, <4>2 DEF Good, Ordered
      <4>3. CASE j = Len(wire[s]) + 1
        BY <1>1, <2>1, <4>1, <4>3 DEF Good, Ordered
      <4>4. QED  BY <2>1, <4>2, <4>3
    <3>2. \A i \in DOMAIN seen[s], j \in DOMAIN wire'[s] : seen[s][i] < wire'[s][j]
      BY <1>1, <2>1 DEF Good, Ordered
    <3>3. \A i \in DOMAIN wire'[s] : wire'[s][i] < next[s]
      BY <1>1, <2>1 DEF Good, Ordered
    <3>4. 0 < next[s]
      BY PartTypes
    <3>5. QED  BY <1>1, <3>1, <3>2, <3>3, <3>4 DEF Good, Ordered
  <2>3. Started(s)'
    BY <1>1, <1>2, <1>4, <2>1 DEF Good, Started
  <2>4. Sound(s)'
    BY <1>1, <1>2, <2>1 DEF Good, Sound
  <2>5. Kept(s)'
    BY <1>1, <1>2, <1>3, <1>4, <2>1 DEF Good, Kept
  <2>6. QED  BY <2>2, <2>3, <2>4, <2>5 DEF Good
<1>5. CASE link[s] # "up"
  <2>1. wire'[s] = wire[s]
    BY <1>1, <1>5
  <2>2. QED  BY <1>1, <1>2, <1>5, <2>1 DEF Good, Ordered, Started, Sound, Kept
<1>6. QED  BY <1>4, <1>5

\* A step that ends a task, closes or cuts the link loses only what a broken link may.
LEMMA EndGood ==
    ASSUME StreamTypeOK, NEW s \in Sessions, Good(s),
           GreetFails(s) \/ SendFails(s) \/ RecvEnds(s) \/ Abort(s) \/ Close(s) \/ Cut(s)
    PROVE  Good(s)'
<1>0. /\ seen[s] \in Seq(Nat) /\ wire[s] \in Seq(Nat) /\ hand[s] \in Nat
      /\ next[s] \in Nat /\ since[s] \in Nat /\ Len(log) \in Nat
  BY PartTypes
<1>1. CASE GreetFails(s)
  <2>1. /\ place'[s] = "over" /\ log' = log
        /\ UNCHANGED <<tasks[s], wire[s], seen[s], since[s], link[s], next[s], hand[s]>>
    BY <1>1 DEF GreetFails, StreamTypeOK
  <2>2. wire[s] = <<>> /\ seen[s] = <<>> /\ tasks[s] = {}
    BY <1>1 DEF GreetFails, Good, Started
  <2>3. QED  BY <1>0, <2>1, <2>2 DEF Good, Ordered, Started, Sound, Kept
<1>2. CASE SendFails(s)
  <2>1. /\ hand'[s] = 0 /\ log' = log /\ link[s] # "up" /\ tasks'[s] = tasks[s] \ {"send"}
        /\ "send" \in tasks[s]
        /\ UNCHANGED <<place[s], wire[s], seen[s], since[s], link[s], next[s]>>
    BY <1>2 DEF SendFails, StreamTypeOK
  <2>2. place[s] = "running" /\ 0 < next[s]
    BY <2>1, PartTypes DEF Good, Started
  <2>3. QED  BY <1>0, <2>1, <2>2 DEF Good, Ordered, Started, Sound, Kept
<1>3. CASE RecvEnds(s)
  <2>1. /\ log' = log /\ link[s] # "up" /\ tasks'[s] = tasks[s] \ {"recv"} /\ "recv" \in tasks[s]
        /\ UNCHANGED <<place[s], wire[s], seen[s], since[s], link[s], next[s], hand[s]>>
    BY <1>3 DEF RecvEnds, StreamTypeOK
  <2>2. place[s] = "running"
    BY <2>1 DEF Good, Started
  <2>3. QED  BY <1>0, <2>1, <2>2 DEF Good, Ordered, Started, Sound, Kept
<1>4. CASE Abort(s)
  <2>1. /\ hand'[s] = 0 /\ log' = log /\ tasks'[s] = {} /\ place'[s] = "over"
        /\ UNCHANGED <<wire[s], seen[s], since[s], link[s], next[s]>>
    BY <1>4 DEF Abort, StreamTypeOK
  <2>2. 0 < next[s]
    BY PartTypes
  <2>3. QED  BY <1>0, <2>1, <2>2 DEF Good, Ordered, Started, Sound, Kept
<1>5. CASE Close(s)
  <2>1. /\ log' = log /\ link'[s] = "closed"
        /\ UNCHANGED <<place[s], tasks[s], wire[s], seen[s], since[s], next[s], hand[s]>>
    BY <1>5 DEF Close, StreamTypeOK
  <2>2. QED  BY <1>0, <2>1 DEF Good, Ordered, Started, Sound, Kept
<1>6. CASE Cut(s)
  <2>1. /\ log' = log /\ link'[s] = "cut" /\ wire'[s] = <<>>
        /\ UNCHANGED <<place[s], tasks[s], seen[s], since[s], next[s], hand[s]>>
    BY <1>6 DEF Cut, StreamTypeOK
  <2>2. QED  BY <1>0, <2>1 DEF Good, Ordered, Started, Sound, Kept
<1>7. QED  BY <1>1, <1>2, <1>3, <1>4, <1>5, <1>6

\* The oldest message on its way becomes the last that the browser has seen.
LEMMA Delivered ==
    ASSUME StreamTypeOK, NEW s \in Sessions, Deliver(s)
    PROVE  /\ 1 \in DOMAIN wire[s] /\ Len(seen[s]) + 1 \in DOMAIN seen'[s]
           /\ \A i \in DOMAIN seen[s] : i \in DOMAIN seen'[s] /\ seen'[s][i] = seen[s][i]
           /\ \A i \in DOMAIN seen'[s] :
                 /\ i \in Nat
                 /\ \/ i \in DOMAIN seen[s] /\ i < Len(seen[s]) + 1 /\ seen'[s][i] = seen[s][i]
                    \/ i = Len(seen[s]) + 1 /\ seen'[s][i] = wire[s][1]
           /\ \A i \in DOMAIN wire'[s] :
                 i \in Nat /\ i > 0 /\ i + 1 \in DOMAIN wire[s] /\ wire'[s][i] = wire[s][i + 1]
           /\ \A i \in DOMAIN wire[s] :
                 i = 1 \/ (i - 1 \in DOMAIN wire'[s] /\ wire'[s][i - 1] = wire[s][i])
<1>1. wire[s] \in Seq(Nat) /\ wire[s] # <<>> /\ seen[s] \in Seq(Nat)
  BY DEF Deliver, StreamTypeOK
<1>2. seen'[s] = Append(seen[s], Head(wire[s])) /\ wire'[s] = Tail(wire[s])
  BY DEF Deliver, StreamTypeOK
<1>3. Head(wire[s]) = wire[s][1] /\ wire[s][1] \in Nat
  BY <1>1
<1>4. 1 \in DOMAIN wire[s]
  BY <1>1
<1>5. /\ \A i \in DOMAIN seen[s] : i \in Nat /\ i < Len(seen[s]) + 1
                                   /\ i \in DOMAIN seen'[s] /\ seen'[s][i] = seen[s][i]
      /\ Len(seen[s]) + 1 \in DOMAIN seen'[s] /\ seen'[s][Len(seen[s]) + 1] = wire[s][1]
      /\ \A i \in DOMAIN seen'[s] : i \in DOMAIN seen[s] \/ i = Len(seen[s]) + 1
  BY <1>1, <1>2, <1>3, Appended
<1>6. /\ \A i \in DOMAIN wire'[s] :
            i \in Nat /\ i > 0 /\ i + 1 \in DOMAIN wire[s] /\ wire'[s][i] = wire[s][i + 1]
      /\ \A i \in DOMAIN wire[s] :
            i = 1 \/ (i - 1 \in DOMAIN wire'[s] /\ wire'[s][i - 1] = wire[s][i])
  BY <1>1, <1>2, Tailed
<1>7. Len(seen[s]) + 1 \in Nat
  BY <1>1
<1>8. QED  BY <1>4, <1>5, <1>6, <1>7

LEMMA DeliverGood ==
    ASSUME StreamTypeOK, NEW s \in Sessions, Good(s), Deliver(s)
    PROVE  Good(s)'
<1>1. /\ log' = log /\ wire[s] # <<>>
      /\ UNCHANGED <<place[s], tasks[s], since[s], next[s], hand[s], link[s]>>
  BY DEF Deliver
<1>2. /\ hand[s] \in Nat /\ next[s] \in Nat /\ since[s] \in Nat /\ Len(log) \in Nat
      /\ seen[s] \in Seq(Nat) /\ wire[s] \in Seq(Nat)
  BY PartTypes
<1>3. Ordered(s)'
  <2>1. \A i, j \in DOMAIN seen'[s] : i < j => seen'[s][i] < seen'[s][j]
    <3> SUFFICES ASSUME NEW i \in DOMAIN seen'[s], NEW j \in DOMAIN seen'[s], i < j
                 PROVE  seen'[s][i] < seen'[s][j]
      OBVIOUS
    <3>1. i \in DOMAIN seen[s] /\ seen'[s][i] = seen[s][i]
      <4>0. i \in Nat /\ j \in Nat /\ Len(seen[s]) \in Nat
        BY <1>2, Delivered
      <4>1. i # Len(seen[s]) + 1
        BY <4>0, Delivered
      <4>2. QED  BY <4>1, Delivered
    <3>2. CASE j \in DOMAIN seen[s] /\ seen'[s][j] = seen[s][j]
      BY <3>1, <3>2 DEF Good, Ordered
    <3>3. CASE seen'[s][j] = wire[s][1]
      BY <3>1, <3>3, Delivered DEF Good, Ordered
    <3>4. QED  BY <3>2, <3>3, Delivered
  <2>2. \A i, j \in DOMAIN wire'[s] : i < j => wire'[s][i] < wire'[s][j]
    <3> SUFFICES ASSUME NEW i \in DOMAIN wire'[s], NEW j \in DOMAIN wire'[s], i < j
                 PROVE  wire'[s][i] < wire'[s][j]
      OBVIOUS
    <3>1. /\ i + 1 \in DOMAIN wire[s] /\ wire'[s][i] = wire[s][i + 1]
          /\ j + 1 \in DOMAIN wire[s] /\ wire'[s][j] = wire[s][j + 1]
          /\ i + 1 < j + 1
      BY Delivered
    <3>2. QED  BY <3>1 DEF Good, Ordered
  <2>3. \A i \in DOMAIN seen'[s], j \in DOMAIN wire'[s] : seen'[s][i] < wire'[s][j]
    <3> SUFFICES ASSUME NEW i \in DOMAIN seen'[s], NEW j \in DOMAIN wire'[s]
                 PROVE  seen'[s][i] < wire'[s][j]
      OBVIOUS
    <3>1. /\ j + 1 \in DOMAIN wire[s] /\ wire'[s][j] = wire[s][j + 1]
          /\ 1 \in DOMAIN wire[s] /\ 1 < j + 1
      BY Delivered
    <3>2. CASE i \in DOMAIN seen[s] /\ seen'[s][i] = seen[s][i]
      BY <3>1, <3>2 DEF Good, Ordered
    <3>3. CASE seen'[s][i] = wire[s][1]
      BY <3>1, <3>3 DEF Good, Ordered
    <3>4. QED  BY <3>2, <3>3, Delivered
  <2>4. \A i \in DOMAIN seen'[s] : \/ i \in DOMAIN seen[s] /\ seen'[s][i] = seen[s][i]
                                   \/ seen'[s][i] = wire[s][1] /\ 1 \in DOMAIN wire[s]
    BY <1>2, Delivered
  <2>5. \A i \in DOMAIN seen'[s] :
            seen'[s][i] < next[s] /\ (hand[s] # 0 => seen'[s][i] < hand[s])
    BY <2>4 DEF Good, Ordered
  <2>6. \A i \in DOMAIN wire'[s] :
            wire'[s][i] < next[s] /\ (hand[s] # 0 => wire'[s][i] < hand[s])
    BY Delivered DEF Good, Ordered
  <2>7. QED  BY <1>1, <2>1, <2>2, <2>3, <2>5, <2>6 DEF Good, Ordered
<1>4. Started(s)'
  <2>1. seen'[s] # <<>> /\ place[s] \notin {"none", "greeting"}
    BY <1>1, Delivered DEF Good, Started
  <2>2. seen'[s][1] = 0
    <3>1. CASE seen[s] = <<>>
      <4>1. Len(seen[s]) + 1 = 1 /\ 1 \notin DOMAIN seen[s]
        BY <3>1
      <4>2. seen'[s][1] = wire[s][1]
        BY <4>1, Delivered
      <4>3. QED  BY <1>1, <3>1, <4>2 DEF Good, Started
    <3>2. CASE seen[s] # <<>>
      <4>1. 1 \in DOMAIN seen[s]
        BY <1>2, <3>2
      <4>2. QED  BY <3>2, <4>1, Delivered DEF Good, Started
    <3>3. QED  BY <3>1, <3>2
  <2>3. QED  BY <1>1, <2>1, <2>2 DEF Good, Started
<1>5. Sound(s)'
  <2>1. \A i \in DOMAIN seen'[s] : \/ i \in DOMAIN seen[s] /\ seen'[s][i] = seen[s][i]
                                   \/ seen'[s][i] = wire[s][1] /\ 1 \in DOMAIN wire[s]
    BY <1>2, Delivered
  <2>2. \A i \in DOMAIN seen'[s] : seen'[s][i] # 0 => since[s] < seen'[s][i]
    BY <2>1 DEF Good, Sound
  <2>3. \A i \in DOMAIN wire'[s] : wire'[s][i] # 0 => since[s] < wire'[s][i]
    BY Delivered DEF Good, Sound
  <2>4. QED  BY <1>1, <2>2, <2>3 DEF Good, Sound
<1>6. Kept(s)'
  <2>1. \A i \in DOMAIN wire[s] :
            \/ \E k \in DOMAIN seen'[s] : seen'[s][k] = wire[s][i]
            \/ \E k \in DOMAIN wire'[s] : wire'[s][k] = wire[s][i]
    <3> SUFFICES ASSUME NEW i \in DOMAIN wire[s]
                 PROVE  \/ \E k \in DOMAIN seen'[s] : seen'[s][k] = wire[s][i]
                        \/ \E k \in DOMAIN wire'[s] : wire'[s][k] = wire[s][i]
      OBVIOUS
    <3>1. CASE i = 1
      <4>1. Len(seen[s]) + 1 \notin DOMAIN seen[s]
        BY <1>2
      <4>2. QED  BY <3>1, <4>1, Delivered
    <3>2. CASE i # 1
      BY <3>2, Delivered
    <3>3. QED  BY <3>1, <3>2
  <2>2. \A i \in DOMAIN seen[s] : \E k \in DOMAIN seen'[s] : seen'[s][k] = seen[s][i]
    BY Delivered
  <2>3. Oldest' = Oldest
    BY <1>1 DEF Oldest
  <2>4. QED  BY <1>1, <2>1, <2>2, <2>3 DEF Good, Kept
<1>7. QED  BY <1>3, <1>4, <1>5, <1>6 DEF Good

---------------------------------------------------------------------------
(* The invariant.                                                          *)

LEMMA Invariance ==
    ASSUME IInv, [Next]_streamVars
    PROVE  IInv'
<1>0. StreamTypeOK
  BY DEF IInv
<1>1. CASE UNCHANGED streamVars
  <2>1. StreamTypeOK' /\ log' = log /\ \A t \in Sessions : UNCHANGED Part(t)
    BY <1>0, <1>1 DEF streamVars, StreamTypeOK, Part
  <2>2. \A t \in Sessions : Good(t)'
    BY <1>0, <2>1, PartTypes, PartStays DEF IInv
  <2>3. QED  BY <2>1, <2>2 DEF IInv
<1>2. CASE Next
  <2>0. StreamTypeOK'
    BY <1>0, <1>2, TypeStep
  <2>1. ASSUME NEW e \in Events, Send(e)
        PROVE  \A t \in Sessions : Good(t)'
    <3>1. Len(log) <= Len(log') /\ \A t \in Sessions : UNCHANGED Part(t)
      BY <1>0, <2>1 DEF Send, Part, StreamTypeOK
    <3>2. QED  BY <1>0, <2>0, <3>1, PartStays DEF IInv
  <2>2. ASSUME NEW s \in Sessions, Acts(s)
        PROVE  \A t \in Sessions : Good(t)'
    <3>1. Good(s)'
      BY <1>0, <2>2, ConnectGood, GreetGood, TakeGood, LagGood, ForwardGood, EndGood, DeliverGood
      DEF IInv, Acts, Serve
    <3>2. ASSUME NEW t \in Sessions, t # s
          PROVE  Good(t)'
      <4>1. UNCHANGED Part(t) /\ log' = log
        BY <1>0, <2>2, <3>2, OthersStay
      <4>2. QED  BY <1>0, <2>0, <4>1, PartTypes, PartStays DEF IInv
    <3>3. QED  BY <3>1, <3>2
  <2>3. QED  BY <1>2, <2>0, <2>1, <2>2 DEF Next, Acts, IInv
<1>3. QED  BY <1>1, <1>2

LEMMA InvariantHolds == Spec => []IInv
BY TypedInit, Invariance, PTL DEF Spec

\* Every variable has its type throughout, the positions that a lagging session
\* jumps to included.
THEOREM StreamTypeCorrect == Spec => []StreamTypeOK
<1>1. IInv => StreamTypeOK
  BY DEF IInv
<1>2. QED  BY <1>1, InvariantHolds, PTL

---------------------------------------------------------------------------
(* Order and loss.                                                         *)

Increasing(q) == \A i, j \in DOMAIN q : i < j => q[i] < q[j]

\* Where an element of a concatenation comes from, and where one goes.
LEMMA Concatenated ==
    ASSUME NEW p \in Seq(Nat), NEW q \in Seq(Nat)
    PROVE  /\ p \o q \in Seq(Nat) /\ Len(p) \in Nat
           /\ \A i \in DOMAIN (p \o q) :
                 /\ i \in Nat
                 /\ \/ i \in DOMAIN p /\ i <= Len(p) /\ (p \o q)[i] = p[i]
                    \/ /\ i > Len(p) /\ i - Len(p) \in DOMAIN q
                       /\ (p \o q)[i] = q[i - Len(p)]
           /\ \A i \in DOMAIN p : i \in DOMAIN (p \o q) /\ (p \o q)[i] = p[i]
           /\ \A i \in DOMAIN q :
                 i + Len(p) \in DOMAIN (p \o q) /\ (p \o q)[i + Len(p)] = q[i]
<1>1. /\ p \o q \in Seq(Nat) /\ Len(p \o q) = Len(p) + Len(q)
      /\ \A i \in 1 .. Len(p) + Len(q) :
            (p \o q)[i] = IF i <= Len(p) THEN p[i] ELSE q[i - Len(p)]
  BY ConcatProperties
<1>2. /\ Len(p) \in Nat /\ Len(q) \in Nat
      /\ DOMAIN p = 1 .. Len(p) /\ DOMAIN q = 1 .. Len(q)
      /\ DOMAIN (p \o q) = 1 .. Len(p) + Len(q)
  BY <1>1
<1>3. QED  BY <1>1, <1>2

\* Two increasing sequences, one below the other, make an increasing one.
LEMMA ConcatIncreases ==
    ASSUME NEW p \in Seq(Nat), NEW q \in Seq(Nat), Increasing(p), Increasing(q),
           \A i \in DOMAIN p, j \in DOMAIN q : p[i] < q[j]
    PROVE  Increasing(p \o q)
<1> SUFFICES ASSUME NEW i \in DOMAIN (p \o q), NEW j \in DOMAIN (p \o q), i < j
             PROVE  (p \o q)[i] < (p \o q)[j]
  BY DEF Increasing
<1>1. CASE i \in DOMAIN p /\ (p \o q)[i] = p[i]
  <2>1. CASE j \in DOMAIN p /\ (p \o q)[j] = p[j]
    BY <1>1, <2>1 DEF Increasing
  <2>2. CASE j - Len(p) \in DOMAIN q /\ (p \o q)[j] = q[j - Len(p)]
    BY <1>1, <2>2
  <2>3. QED  BY <2>1, <2>2, Concatenated
<1>2. CASE /\ i > Len(p) /\ i - Len(p) \in DOMAIN q
           /\ (p \o q)[i] = q[i - Len(p)]
  <2>1. /\ j - Len(p) \in DOMAIN q /\ (p \o q)[j] = q[j - Len(p)]
        /\ i - Len(p) < j - Len(p)
    BY <1>2, Concatenated
  <2>2. QED  BY <1>2, <2>1 DEF Increasing
<1>3. QED  BY <1>1, <1>2, Concatenated

\* What a session holds, as a sequence.
Holding(s) == IF hand[s] = 0 THEN <<>> ELSE <<hand[s]>>

LEMMA HoldingIs ==
    ASSUME NEW s \in Sessions, hand[s] \in Nat
    PROVE  /\ Holding(s) \in Seq(Nat) /\ Increasing(Holding(s))
           /\ \A i \in DOMAIN Holding(s) : Holding(s)[i] = hand[s] /\ hand[s] # 0
           /\ hand[s] # 0 => 1 \in DOMAIN Holding(s)
BY DEF Holding, Increasing

LEMMA OrderedMeans ==
    ASSUME IInv, NEW s \in Sessions
    PROVE  Increasing(Passed(s))
<1>1. seen[s] \in Seq(Nat) /\ wire[s] \in Seq(Nat) /\ hand[s] \in Nat
  BY PartTypes DEF IInv
<1>2. Ordered(s)
  BY DEF IInv, Good
<1>3. seen[s] \o wire[s] \in Seq(Nat) /\ Increasing(seen[s] \o wire[s])
  <2>1. Increasing(seen[s]) /\ Increasing(wire[s])
    BY <1>2 DEF Ordered, Increasing
  <2>2. \A i \in DOMAIN seen[s], j \in DOMAIN wire[s] : seen[s][i] < wire[s][j]
    BY <1>2 DEF Ordered
  <2>3. QED  BY <1>1, <2>1, <2>2, ConcatIncreases, Concatenated
<1>4. ASSUME NEW i \in DOMAIN (seen[s] \o wire[s]), NEW j \in DOMAIN Holding(s)
      PROVE  (seen[s] \o wire[s])[i] < Holding(s)[j]
  <2>1. Holding(s)[j] = hand[s] /\ hand[s] # 0
    BY <1>1, HoldingIs
  <2>2. \/ i \in DOMAIN seen[s] /\ (seen[s] \o wire[s])[i] = seen[s][i]
        \/ /\ i - Len(seen[s]) \in DOMAIN wire[s]
           /\ (seen[s] \o wire[s])[i] = wire[s][i - Len(seen[s])]
    BY <1>1, Concatenated
  <2>3. QED  BY <1>2, <2>1, <2>2 DEF Ordered
<1>5. Increasing((seen[s] \o wire[s]) \o Holding(s))
  <2>1. Holding(s) \in Seq(Nat) /\ Increasing(Holding(s))
    BY <1>1, HoldingIs
  <2>2. QED  BY <1>3, <1>4, <2>1, ConcatIncreases
<1>6. QED  BY <1>5 DEF Passed, Holding

\* A browser gets CONNECTED and the events in the order in which they were sent,
\* none of them twice, however far a session lags and whichever task ends first.
THEOREM PassedInOrder == Spec => []InOrder
<1>1. IInv => InOrder
  BY OrderedMeans DEF InOrder, Increasing
<1>2. QED  BY <1>1, InvariantHolds, PTL

\* Whatever is in one of the parts is in the whole.
LEMMA PassedHolds ==
    ASSUME StreamTypeOK, NEW s \in Sessions
    PROVE  /\ \A i \in DOMAIN seen[s] : seen[s][i] \in Elements(Passed(s))
           /\ \A i \in DOMAIN wire[s] : wire[s][i] \in Elements(Passed(s))
           /\ hand[s] # 0 => hand[s] \in Elements(Passed(s))
<1> DEFINE sent == seen[s] \o wire[s]
<1>1. seen[s] \in Seq(Nat) /\ wire[s] \in Seq(Nat) /\ hand[s] \in Nat /\ sent \in Seq(Nat)
  BY PartTypes, Concatenated
<1>2. Holding(s) \in Seq(Nat) /\ Passed(s) = sent \o Holding(s)
  BY <1>1, HoldingIs DEF Passed, Holding
<1>3. \A i \in DOMAIN sent : i \in DOMAIN Passed(s) /\ Passed(s)[i] = sent[i]
  <2> HIDE DEF sent
  <2> QED  BY <1>1, <1>2, Concatenated
<1>4. \A i \in DOMAIN seen[s] : i \in DOMAIN sent /\ sent[i] = seen[s][i]
  BY <1>1, Concatenated
<1>5. \A i \in DOMAIN wire[s] :
          i + Len(seen[s]) \in DOMAIN sent /\ sent[i + Len(seen[s])] = wire[s][i]
  BY <1>1, Concatenated
<1>6. ASSUME hand[s] # 0
      PROVE  hand[s] \in Elements(Passed(s))
  <2>1. 1 \in DOMAIN Holding(s) /\ Holding(s)[1] = hand[s]
    BY <1>1, <1>6, HoldingIs
  <2>2. 1 + Len(sent) \in DOMAIN Passed(s) /\ Passed(s)[1 + Len(sent)] = hand[s]
    <3> HIDE DEF sent
    <3> QED  BY <1>1, <1>2, <2>1, Concatenated
  <2>3. QED  BY <2>2 DEF Elements
<1>7. \A i \in DOMAIN seen[s] : seen[s][i] \in Elements(Passed(s))
  BY <1>3, <1>4 DEF Elements
<1>8. \A i \in DOMAIN wire[s] : wire[s][i] \in Elements(Passed(s))
  BY <1>3, <1>5 DEF Elements
<1>9. QED  BY <1>6, <1>7, <1>8

LEMMA KeptMeans ==
    ASSUME IInv, NEW s \in Sessions, place[s] = "running", link[s] = "up",
           NEW p \in since[s] + 1 .. next[s] - 1
    PROVE  p \in Elements(Passed(s)) \/ p < Oldest
<1>1. StreamTypeOK /\ Kept(s)
  BY DEF IInv, Good
<1>2. p # 0
  BY <1>1, PartTypes
<1>3. \/ \E i \in DOMAIN seen[s] : seen[s][i] = p
      \/ \E i \in DOMAIN wire[s] : wire[s][i] = p
      \/ p = hand[s]
      \/ p < Oldest
  BY <1>1 DEF Kept
<1>4. QED  BY <1>1, <1>2, <1>3, PassedHolds

\* While its link is up a session loses only what a whole channel of younger
\* events has pushed out.
THEOREM OnlyLaggingMisses == Spec => []MissedOnlyWhenLagging
<1>1. IInv => MissedOnlyWhenLagging
  BY KeptMeans DEF MissedOnlyWhenLagging
<1>2. QED  BY <1>1, InvariantHolds, PTL

---------------------------------------------------------------------------
(* Refinement: the channel with its sessions is the feed of EventFeed.     *)

\* What the feed sees of a session.
Shown(s) ==
    IF place[s] = "none" THEN "none" ELSE IF seen[s] = <<>> THEN "made" ELSE "greeted"

LEMMA FeedStarts ==
    ASSUME StreamInit
    PROVE  Feed!FeedInit
BY DEF StreamInit, Feed!FeedInit, LastSeen

\* A step that shows the browser nothing is a stutter of the feed.
LEMMA Stutters ==
    ASSUME log' = log, seen' = seen, since' = since,
           \A t \in Sessions : place'[t] = "none" <=> place[t] = "none"
    PROVE  UNCHANGED Feed!feedVars
BY DEF Feed!feedVars, LastSeen

LEMMA ConnectRefines ==
    ASSUME IInv, NEW s \in Sessions, Connect(s)
    PROVE  Feed!Connect(s)
<1>1. StreamTypeOK /\ seen[s] = <<>> /\ place[s] = "none" /\ log' = log /\ seen' = seen
  BY DEF IInv, Good, Started, Connect
<1>2. /\ place'[s] = "greeting" /\ since'[s] = Len(log)
      /\ \A t \in Sessions : t # s => place'[t] = place[t] /\ since'[t] = since[t]
  BY <1>1 DEF StreamTypeOK, Connect
<1>3. /\ Shown(s) = "none" /\ Shown(s)' = "made" /\ LastSeen(s)' = Len(log)
      /\ \A t \in Sessions : t # s => Shown(t)' = Shown(t) /\ LastSeen(t)' = LastSeen(t)
  BY <1>1, <1>2 DEF Shown, LastSeen
<1>4. QED  BY <1>1, <1>3 DEF Feed!Connect, Shown

\* The first message that arrives is CONNECTED, any other one an event younger
\* than all that arrived before.
LEMMA DeliverRefines ==
    ASSUME IInv, NEW s \in Sessions, Deliver(s)
    PROVE  Feed!Greet(s) \/ \E p \in 1 .. Len(log) : Feed!Deliver(s, p)
<1>1. /\ StreamTypeOK /\ Good(s) /\ seen[s] \in Seq(Nat) /\ wire[s] \in Seq(Nat)
      /\ wire[s] # <<>> /\ 1 \in DOMAIN wire[s] /\ wire[s][1] \in Nat
      /\ since[s] \in Nat /\ next[s] \in Nat /\ Len(log) \in Nat /\ Len(seen[s]) \in Nat
  BY PartTypes, Delivered DEF IInv, Deliver
<1>2. /\ seen'[s] = Append(seen[s], wire[s][1]) /\ log' = log
      /\ place' = place /\ since' = since
      /\ \A t \in Sessions : t # s => seen'[t] = seen[t]
  BY <1>1 DEF StreamTypeOK, Deliver
<1>3. /\ place[s] # "none" /\ Shown(s)' = "greeted"
      /\ \A t \in Sessions : t # s => Shown(t)' = Shown(t) /\ LastSeen(t)' = LastSeen(t)
  <2>1. place[s] # "none"
    BY <1>1 DEF Good, Started
  <2>2. seen'[s] # <<>>
    <3>1. Len(Append(seen[s], wire[s][1])) = Len(seen[s]) + 1
      BY <1>1, AppendProperties
    <3>2. Len(seen'[s]) # 0
      BY <1>1, <1>2, <3>1
    <3>3. QED  BY <3>2
  <2>3. QED  BY <1>2, <2>1, <2>2 DEF Shown, LastSeen
<1>4. CASE seen[s] = <<>>
  <2>1. Len(seen'[s]) = 1 /\ Len(seen[s]) = 0
    BY <1>1, <1>2, <1>4
  <2>2. Shown(s) = "made" /\ LastSeen(s)' = LastSeen(s)
    BY <1>2, <1>3, <1>4, <2>1 DEF Shown, LastSeen
  <2>3. QED  BY <1>2, <1>3, <2>2 DEF Feed!Greet, Shown
<1>5. CASE seen[s] # <<>>
  <2>1. /\ 1 \in DOMAIN seen[s] /\ Len(seen[s]) \in DOMAIN seen[s]
        /\ Len(seen'[s]) = Len(seen[s]) + 1 /\ Len(seen[s]) > 0
        /\ seen'[s][Len(seen[s]) + 1] = wire[s][1]
    BY <1>1, <1>2, <1>5
  <2>2. wire[s][1] \in 1 .. Len(log) /\ since[s] < wire[s][1]
    <3>1. seen[s][1] = 0 /\ seen[s][1] < wire[s][1] /\ wire[s][1] < next[s]
      BY <1>1, <1>5, <2>1 DEF Good, Started, Ordered
    <3>2. wire[s][1] # 0 /\ Sound(s)
      BY <1>1, <3>1 DEF Good
    <3>3. next[s] <= Len(log) + 1 /\ since[s] < wire[s][1]
      BY <1>1, <3>2 DEF Sound
    <3>4. QED  BY <1>1, <3>1, <3>2, <3>3
  <2>3. seen[s][Len(seen[s])] < wire[s][1] /\ seen[s][Len(seen[s])] \in Nat
    BY <1>1, <2>1 DEF Good, Ordered
  <2>4. Shown(s) = "greeted" /\ LastSeen(s)' = wire[s][1]
    BY <1>1, <1>2, <1>3, <1>5, <2>1 DEF Shown, LastSeen
  <2>5. wire[s][1] \in LastSeen(s) + 1 .. Len(log)
    <3>1. LastSeen(s) \in Nat /\ LastSeen(s) < wire[s][1]
      <4>1. since[s] \in Nat
        BY <1>1
      <4>2. QED  BY <2>2, <2>3, <4>1 DEF LastSeen
    <3>2. Len(log) \in Nat
      BY <1>1
    <3>3. QED  BY <2>2, <3>1, <3>2
  <2>6. Feed!Deliver(s, wire[s][1])
    BY <1>2, <1>3, <2>4, <2>5 DEF Feed!Deliver, Shown
  <2>7. QED  BY <2>2, <2>6
<1>6. QED  BY <1>4, <1>5

LEMMA FeedSteps ==
    ASSUME IInv, [Next]_streamVars
    PROVE  [Feed!FeedNext]_(Feed!feedVars)
<1>0. StreamTypeOK /\ \A s \in Sessions : Good(s)
  BY DEF IInv
<1>1. CASE UNCHANGED streamVars
  BY <1>1, Stutters DEF streamVars
<1>2. ASSUME NEW e \in Events, Send(e)
      PROVE  Feed!Send(e)
  BY <1>2 DEF Send, Feed!Send, LastSeen
<1>3. ASSUME NEW s \in Sessions, Serve(s) \/ Close(s) \/ Cut(s)
      PROVE  UNCHANGED Feed!feedVars
  <2>1. log' = log /\ seen' = seen /\ since' = since
    BY <1>3 DEF Serve, Greet, GreetFails, Take, Lag, Forward, SendFails, RecvEnds, Abort,
                Close, Cut
  <2>2. ASSUME NEW t \in Sessions
        PROVE  place'[t] = "none" <=> place[t] = "none"
    BY <1>0, <1>3 DEF StreamTypeOK, Serve, Greet, GreetFails, Take, Lag, Forward, SendFails,
                      RecvEnds, Abort, Close, Cut
  <2>3. QED  BY <2>1, <2>2, Stutters
<1>4. QED
  BY <1>1, <1>2, <1>3, ConnectRefines, DeliverRefines DEF Next, Feed!FeedNext

\* The channel of the gateway with its lagging receivers, its two tasks for each
\* session, its aborts and its cut links gives a browser the ordered feed that the
\* dashboard's proofs assume.
THEOREM GivesTheFeed == Spec => IsFeed
<1>1. StreamInit => Feed!FeedInit
  BY FeedStarts
<1>2. IInv /\ [Next]_streamVars => [Feed!FeedNext]_(Feed!feedVars)
  BY FeedSteps
<1>3. QED  BY <1>1, <1>2, InvariantHolds, PTL DEF Spec, IsFeed, Feed!FeedSpec
=============================================================================
