-------------------------- MODULE PeerLink_proofs --------------------------
(***************************************************************************)
(* Proofs about the windows of one installation: which of them runs the    *)
(* Burrow, for any number of windows, all of which may be closed or crash  *)
(* (PeerElection), and what a broker that watches a terminal of another    *)
(* window may rely on, for any number of viewers, subscribes and           *)
(* generations (PeerStreams).                                              *)
(*                                                                         *)
(* The invariant of the election ties the three ways a window can have a   *)
(* role to the await its loop stands at: a server that is not believed yet *)
(* is being checked, and a loop that runs has no connection.  That of the  *)
(* stream follows the newest subscribe on its way to the owner and back.   *)
(***************************************************************************)
EXTENDS MCPeerLink, SequenceTheorems, TLAPS

-----------------------------------------------------------------------------
(* One terminal of another window, watched over the link (PeerStreams).     *)

\* The bounds are numbers, and "none" is no request's.
StreamBounds == MaxSubs \in Nat /\ MaxSpawns \in Nat /\ MaxSpawns >= 1 /\ None \notin Nat

StreamTyped ==
  /\ Streams!TypeOK /\ spawns >= 1
  /\ forwarding => alive /\ "owner" \in linked
  /\ "owner" \in linked => "broker" \in linked

\* One subscribe at a time is unanswered, the newest, and everyone who watches
\* waits for it.
OneUnanswered ==
  /\ pending = {byRoute} \ {None}
  /\ byRoute # None => byRoute = nextId /\ sinks # {}
  /\ \A s \in Sinks : waits[s] \in {None, byRoute}
  /\ byRoute # None => \A s \in sinks : waits[s] = byRoute
  /\ sinks # {} => routed

Asks(i) == toOwner[i].kind = "subscribe"
Answers(i) == toBroker[i].kind = "subscribed"

\* No frame is numbered ahead of the count.
InOrder ==
  /\ \A i \in DOMAIN toOwner : Asks(i) => toOwner[i].id <= nextId
  /\ \A i \in DOMAIN toBroker : Answers(i) => toBroker[i].id <= nextId

\* The newest subscribe is the last frame to the owner, still unanswered.
Underway ==
  /\ byRoute # None /\ toOwner # <<>> /\ toOwner[Len(toOwner)].kind = "subscribe"
  /\ \A i \in DOMAIN toBroker : Answers(i) => toBroker[i].id < nextId
  /\ \A i \in 1 .. Len(toOwner) - 1 : Asks(i) => toOwner[i].id < nextId

\* Whoever watches is being asked for, has the stream, or will hear its end.
Served ==
  "owner" \in linked /\ sinks # {} =>
    Underway \/ (toOwner = <<>> /\ (forwarding \/ Streams!Told("exit", toBroker)))

\* While the first generation runs nobody hears of an exit, and an owner that
\* forwards to nobody is about to be told to stop.
Stopped ==
  spawns = 1 /\ alive =>
    /\ ~Streams!Told("exit", toBroker)
    /\ "owner" \in linked /\ sinks = {} =>
         \/ toOwner = <<>> /\ ~forwarding
         \/ toOwner # <<>> /\ toOwner[Len(toOwner)].kind = "unsubscribe"

StreamInv == StreamTyped /\ OneUnanswered /\ InOrder /\ Served /\ Stopped

-----------------------------------------------------------------------------
\* A frame added at the end.
LEMMA AddedFrame ==
  ASSUME NEW S, NEW q \in Seq(S), NEW f \in S
  PROVE  /\ Append(q, f) \in Seq(S) /\ Append(q, f) # <<>> /\ Len(q) \in Nat
         /\ Len(Append(q, f)) = Len(q) + 1 /\ Append(q, f)[Len(Append(q, f))] = f
         /\ DOMAIN Append(q, f) = DOMAIN q \cup {Len(q) + 1} /\ DOMAIN q = 1 .. Len(q)
         /\ \A i \in DOMAIN q : Append(q, f)[i] = q[i]
<1>1. /\ Append(q, f) \in Seq(S) /\ Append(q, f) # <<>> /\ Len(Append(q, f)) = Len(q) + 1
      /\ \A i \in 1 .. Len(q) : Append(q, f)[i] = q[i]
      /\ Append(q, f)[Len(q) + 1] = f
  BY AppendProperties
<1>2. Len(q) \in Nat /\ DOMAIN q = 1 .. Len(q)
  OBVIOUS
<1>3. DOMAIN Append(q, f) = 1 .. Len(q) + 1
  BY <1>1
<1>4. 1 .. Len(q) + 1 = (1 .. Len(q)) \cup {Len(q) + 1}
  BY <1>2
<1> QED BY <1>1, <1>2, <1>3, <1>4

\* A frame taken from the front.
LEMMA TakenFrame ==
  ASSUME NEW S, NEW q \in Seq(S), q # <<>>
  PROVE  /\ Tail(q) \in Seq(S) /\ Head(q) = q[1] /\ 1 \in DOMAIN q /\ Len(q) \in Nat \ {0}
         /\ Len(Tail(q)) = Len(q) - 1 /\ DOMAIN Tail(q) = 1 .. Len(q) - 1
         /\ \A i \in 1 .. Len(q) - 1 : i + 1 \in DOMAIN q /\ Tail(q)[i] = q[i + 1]
         /\ \A i \in DOMAIN q : i = 1 \/ (i - 1 \in DOMAIN Tail(q) /\ Tail(q)[i - 1] = q[i])
         /\ Len(q) = 1 => Tail(q) = <<>>
         /\ Len(q) # 1 => Tail(q) # <<>> /\ Tail(q)[Len(Tail(q))] = q[Len(q)]
<1>1. Len(q) \in Nat \ {0} /\ DOMAIN q = 1 .. Len(q)
  BY EmptySeq
<1>2. /\ Tail(q) \in Seq(S) /\ Len(Tail(q)) = Len(q) - 1
      /\ \A i \in 1 .. Len(Tail(q)) : Tail(q)[i] = q[i + 1]
  BY HeadTailProperties
<1>3. DOMAIN Tail(q) = 1 .. Len(q) - 1 /\ Head(q) = q[1]
  BY <1>1, <1>2
<1>4. \A i \in 1 .. Len(q) - 1 : i + 1 \in 1 .. Len(q) /\ Tail(q)[i] = q[i + 1]
  BY <1>1, <1>2
<1>5. ASSUME NEW i \in 1 .. Len(q), i # 1 PROVE i - 1 \in 1 .. Len(q) - 1 /\ Tail(q)[i - 1] = q[i]
  <2>1. i - 1 \in 1 .. Len(q) - 1 /\ (i - 1) + 1 = i
    BY <1>1, <1>5
  <2> QED BY <2>1, <1>4
<1>6. Len(q) = 1 => Tail(q) = <<>>
  <2> SUFFICES ASSUME Len(q) = 1 PROVE Tail(q) = <<>>
    OBVIOUS
  <2>1. Tail(q) \in Seq(S) /\ Len(Tail(q)) = 0
    BY <1>2
  <2>2. \A seq \in Seq(S) : seq # <<>> => Len(seq) \in Nat \ {0}
    BY EmptySeq
  <2> QED BY <2>1, <2>2
<1>7. Len(q) # 1 => Tail(q) # <<>> /\ Tail(q)[Len(Tail(q))] = q[Len(q)]
  <2> SUFFICES ASSUME Len(q) # 1 PROVE Tail(q) # <<>> /\ Tail(q)[Len(Tail(q))] = q[Len(q)]
    OBVIOUS
  <2>1. Len(q) \in 1 .. Len(q) /\ Len(Tail(q)) = Len(q) - 1 /\ Len(q) - 1 # 0
    BY <1>1, <1>2
  <2>2. Tail(q) # <<>>
    BY <2>1
  <2> QED BY <2>1, <2>2, <1>5
<1>8. \A i \in DOMAIN q : i = 1 \/ (i - 1 \in DOMAIN Tail(q) /\ Tail(q)[i - 1] = q[i])
  BY <1>1, <1>3, <1>5
<1>9. Head(q) = q[1] /\ 1 \in DOMAIN q
  BY <1>1, <1>3
<1> QED BY <1>1, <1>2, <1>3, <1>4, <1>6, <1>7, <1>8, <1>9

\* Nobody watches yet.
LEMMA StreamInitInv == StreamBounds /\ Streams!Init => StreamInv
<1> SUFFICES ASSUME StreamBounds, Streams!Init PROVE StreamInv
  OBVIOUS
<1>1. /\ toOwner = <<>> /\ toBroker = <<>> /\ DOMAIN toOwner = {} /\ DOMAIN toBroker = {}
      /\ toOwner \in Seq(Streams!OwnerFrames) /\ toBroker \in Seq(Streams!BrokerFrames)
  BY EmptySeq DEF Streams!Init
<1>2. StreamTyped
  <2>1. spawns \in 0 .. MaxSpawns /\ spawns >= 1 /\ nextId \in 0 .. MaxSubs
    BY DEF StreamBounds, Streams!Init
  <2>2. /\ routed \in BOOLEAN /\ sinks \subseteq Sinks /\ pending \subseteq Streams!Ids /\ byRoute \in Streams!Ids \cup {None}
        /\ waits \in [Sinks -> Streams!Ids \cup {None}] /\ linked \subseteq {"broker", "owner"}
        /\ alive \in BOOLEAN /\ forwarding \in BOOLEAN /\ "broker" \in linked /\ ~forwarding
    BY DEF Streams!Init
  <2> QED BY <1>1, <2>1, <2>2 DEF StreamTyped, Streams!TypeOK
<1>3. OneUnanswered
  BY DEF Streams!Init, OneUnanswered
<1>4. InOrder /\ Served /\ Stopped
  BY <1>1 DEF Streams!Init, InOrder, Served, Stopped, Streams!Told
<1> QED BY <1>2, <1>3, <1>4 DEF StreamInv

\* What the broker does with its frames.
LEMMA ToOwnerTyped ==
  ASSUME StreamTyped, NEW f \in Streams!OwnerFrames, Streams!ToOwner(f)
  PROVE  toOwner' \in Seq(Streams!OwnerFrames)
<1>1. toOwner \in Seq(Streams!OwnerFrames)
  BY DEF StreamTyped, Streams!TypeOK
<1> QED BY <1>1, AddedFrame DEF Streams!ToOwner

\* And the owner with its own.
LEMMA ToBrokerTyped ==
  ASSUME StreamTyped, NEW fs \in Seq(Streams!BrokerFrames), Streams!ToBroker(fs)
  PROVE  toBroker' \in Seq(Streams!BrokerFrames)
<1>1. toBroker \in Seq(Streams!BrokerFrames)
  BY DEF StreamTyped, Streams!TypeOK
<1> QED BY <1>1, ConcatProperties DEF Streams!ToBroker

\* The broker's own steps change no more than its state and what it sends.
BrokerFields == <<toBroker, linked, alive, spawns, forwarding>>

\* A sink joins.
LEMMA SubscribeKeeps ==
  ASSUME StreamBounds, StreamInv, NEW s \in Sinks, Streams!Subscribe(s)
  PROVE  StreamInv'
<1> USE DEF StreamBounds
<1>1. /\ Streams!TypeOK /\ s \notin sinks /\ waits[s] = None /\ routed /\ routed' = TRUE /\ sinks' = sinks \cup {s}
      /\ UNCHANGED BrokerFields
  BY DEF Streams!Subscribe, StreamInv, StreamTyped, BrokerFields, Streams!owner
<1>2. CASE sinks = {}
  <2> PICK n \in Nat : n = nextId + 1
    BY <1>1 DEF Streams!TypeOK
  <2> PICK f : f = [kind |-> "subscribe", id |-> n]
    OBVIOUS
  <2>1. /\ nextId < MaxSubs /\ nextId' = n /\ pending' = pending \cup {n} /\ byRoute' = n
        /\ waits' = [waits EXCEPT ![s] = n] /\ Streams!ToOwner(f)
    BY <1>2 DEF Streams!Subscribe, Streams!FreshId
  <2>2. nextId \in Nat /\ n \in Streams!Ids /\ f \in Streams!OwnerFrames /\ f.kind = "subscribe" /\ f.id = n /\ n = nextId + 1
    BY <1>1, <2>1 DEF Streams!TypeOK, Streams!Ids, Streams!OwnerFrames
  <2>3. byRoute = None /\ pending = {} /\ \A v \in Sinks : waits[v] = None
    BY <1>2 DEF StreamInv, OneUnanswered
  <2>4. StreamTyped'
    <3>1. toOwner' \in Seq(Streams!OwnerFrames)
      BY <2>1, <2>2, ToOwnerTyped DEF StreamInv
    <3> QED BY <1>1, <2>1, <2>2, <2>3, <3>1 DEF StreamInv, StreamTyped, Streams!TypeOK, BrokerFields
  <2>5. OneUnanswered'
    BY <1>1, <1>2, <2>1, <2>2, <2>3 DEF OneUnanswered, Streams!TypeOK
  <2>6. toOwner \in Seq(Streams!OwnerFrames)
    BY <1>1 DEF Streams!TypeOK
  <2>7. toOwner' = toOwner \/ (toOwner' = Append(toOwner, f) /\ "broker" \in linked)
    BY <2>1 DEF Streams!ToOwner
  <2>8. "broker" \in linked => toOwner' = Append(toOwner, f)
    BY <2>1 DEF Streams!ToOwner
  <2>9. /\ \A i \in DOMAIN toOwner : Asks(i) => toOwner[i].id \in Nat /\ toOwner[i].id <= nextId
        /\ \A i \in DOMAIN toBroker : Answers(i) => toBroker[i].id \in Nat /\ toBroker[i].id <= nextId
    <3>1. \A i \in DOMAIN toOwner : Asks(i) => toOwner[i].id \in Nat
      BY <2>6 DEF Streams!OwnerFrames, Streams!Ids, Asks
    <3>2. \A i \in DOMAIN toBroker : Answers(i) => toBroker[i].id \in Nat
      BY <1>1 DEF Streams!TypeOK, Streams!BrokerFrames, Streams!Ids, Answers
    <3> QED BY <3>1, <3>2 DEF StreamInv, InOrder
  <2>10. /\ \A i \in DOMAIN toOwner : Asks(i) => toOwner[i].id < n /\ toOwner[i].id <= n
         /\ \A i \in DOMAIN toBroker : Answers(i) => toBroker[i].id < n /\ toBroker[i].id <= n
    BY <2>2, <2>9
  <2>11. InOrder'
    <3>1. CASE toOwner' = toOwner
      BY <3>1, <1>1, <2>1, <2>10 DEF InOrder, Asks, Answers, BrokerFields
    <3>2. CASE toOwner' = Append(toOwner, f)
      BY <3>2, <1>1, <2>1, <2>2, <2>6, <2>10, AddedFrame DEF InOrder, Asks, Answers, BrokerFields
    <3> QED BY <3>1, <3>2, <2>7
  <2>12. Served'
    <3>1. ASSUME "owner" \in linked PROVE Underway'
      <4>1. toOwner' = Append(toOwner, f)
        BY <3>1, <2>8 DEF StreamInv, StreamTyped
      <4>2. /\ toOwner' # <<>> /\ toOwner'[Len(toOwner')] = f /\ Len(toOwner') = Len(toOwner) + 1
            /\ Len(toOwner) \in Nat /\ DOMAIN toOwner = 1 .. Len(toOwner)
            /\ \A i \in DOMAIN toOwner : toOwner'[i] = toOwner[i]
        BY <4>1, <2>2, <2>6, AddedFrame
      <4>3. Len(toOwner') - 1 = Len(toOwner)
        BY <4>2
      <4>4. \A i \in 1 .. Len(toOwner') - 1 : Asks(i)' => toOwner'[i].id < nextId'
        BY <4>2, <4>3, <2>1, <2>10 DEF Asks
      <4>5. \A i \in DOMAIN toBroker' : Answers(i)' => toBroker'[i].id < nextId'
        BY <1>1, <2>1, <2>10 DEF Answers, BrokerFields
      <4> QED BY <4>2, <4>4, <4>5, <2>1, <2>2 DEF Underway
    <3> QED BY <3>1, <1>1 DEF Served, BrokerFields
  <2>13. Stopped'
    BY <1>1 DEF StreamInv, Stopped, BrokerFields
  <2> QED BY <2>4, <2>5, <2>11, <2>12, <2>13 DEF StreamInv
<1>3. CASE sinks # {}
  <2>1. waits' = [waits EXCEPT ![s] = byRoute] /\ UNCHANGED <<nextId, pending, byRoute, toOwner>>
    BY <1>3 DEF Streams!Subscribe
  <2>2. StreamTyped'
    BY <1>1, <2>1 DEF StreamInv, StreamTyped, Streams!TypeOK, BrokerFields
  <2>3. OneUnanswered'
    BY <1>1, <1>3, <2>1 DEF StreamInv, OneUnanswered, Streams!TypeOK
  <2>4. InOrder' /\ Stopped'
    BY <1>1, <2>1 DEF StreamInv, InOrder, Asks, Answers, Stopped, BrokerFields
  <2>5. Served'
    BY <1>1, <1>3, <2>1 DEF StreamInv, Served, Underway, Asks, Answers, BrokerFields
  <2> QED BY <2>2, <2>3, <2>4, <2>5 DEF StreamInv
<1> QED BY <1>2, <1>3

\* Nobody is left who watches: the newest subscribe is settled and the owner is
\* told to stop, unless the terminal ended.
SinksGone ==
  /\ sinks' = {} /\ routed' \in BOOLEAN
  /\ byRoute' = None /\ pending' = {} /\ \A s \in Sinks : waits'[s] = None
  /\ waits' \in [Sinks -> Streams!Ids \cup {None}]
  /\ UNCHANGED <<nextId, alive, spawns, forwarding>>

\* Settling the route settles what there is.
LEMMA Settled ==
  ASSUME StreamInv, Streams!SettleRoute
  PROVE  /\ byRoute' = None /\ pending' = {} /\ \A s \in Sinks : waits'[s] = None
         /\ waits' \in [Sinks -> Streams!Ids \cup {None}]
<1>1. CASE byRoute \in pending
  BY <1>1 DEF StreamInv, StreamTyped, Streams!TypeOK, OneUnanswered, Streams!SettleRoute, Streams!SettledBy
<1>2. CASE byRoute \notin pending
  BY <1>2 DEF StreamInv, StreamTyped, Streams!TypeOK, OneUnanswered, Streams!SettleRoute
<1> QED BY <1>1, <1>2

\* So does the timeout of the one unanswered.
LEMMA TimedOut ==
  ASSUME StreamInv, NEW id \in pending, pending' = pending \ {id},
         byRoute' = IF byRoute = id THEN None ELSE byRoute, waits' = Streams!SettledBy(id)
  PROVE  /\ byRoute' = None /\ pending' = {} /\ \A s \in Sinks : waits'[s] = None
         /\ waits' \in [Sinks -> Streams!Ids \cup {None}]
BY DEF StreamInv, StreamTyped, Streams!TypeOK, OneUnanswered, Streams!SettledBy

\* The last sink leaves, or nobody answered: the owner is told to stop.
LEMMA StopKeeps ==
  ASSUME StreamBounds, StreamInv, SinksGone, Streams!ToOwner([kind |-> "unsubscribe"]), UNCHANGED <<toBroker, linked>>
  PROVE  StreamInv'
<1> PICK f : f = [kind |-> "unsubscribe"]
  OBVIOUS
<1>1. f \in Streams!OwnerFrames /\ f.kind = "unsubscribe" /\ Streams!ToOwner(f) /\ toOwner \in Seq(Streams!OwnerFrames)
  BY DEF Streams!OwnerFrames, StreamInv, StreamTyped, Streams!TypeOK
<1>2. StreamTyped'
  <2>1. toOwner' \in Seq(Streams!OwnerFrames)
    BY <1>1, ToOwnerTyped DEF StreamInv
  <2> QED BY <2>1 DEF StreamInv, StreamTyped, Streams!TypeOK, SinksGone
<1>3. OneUnanswered' /\ Served'
  BY DEF OneUnanswered, Served, SinksGone
<1>4. toOwner' = toOwner \/ toOwner' = Append(toOwner, f)
  BY <1>1 DEF Streams!ToOwner
<1>5. /\ Append(toOwner, f) # <<>> /\ Append(toOwner, f)[Len(Append(toOwner, f))] = f
      /\ DOMAIN Append(toOwner, f) = DOMAIN toOwner \cup {Len(toOwner) + 1}
      /\ \A i \in DOMAIN toOwner : Append(toOwner, f)[i] = toOwner[i]
      /\ Append(toOwner, f)[Len(toOwner) + 1] = f
  BY <1>1, AddedFrame, AppendProperties
<1>6. InOrder'
  <2>1. CASE toOwner' = toOwner
    BY <2>1 DEF StreamInv, InOrder, Asks, Answers, SinksGone
  <2>2. CASE toOwner' = Append(toOwner, f)
    BY <2>2, <1>1, <1>5 DEF StreamInv, InOrder, Asks, Answers, SinksGone
  <2> QED BY <2>1, <2>2, <1>4
<1>7. Stopped'
  <2>1. "owner" \in linked => toOwner' = Append(toOwner, f)
    BY <1>1 DEF Streams!ToOwner, StreamInv, StreamTyped
  <2> QED BY <2>1, <1>1, <1>5 DEF StreamInv, Stopped, SinksGone, Streams!Told
<1> QED BY <1>2, <1>3, <1>6, <1>7 DEF StreamInv

\* A sink leaves.
LEMMA UnsubscribeKeeps ==
  ASSUME StreamBounds, StreamInv, NEW s \in Sinks, Streams!Unsubscribe(s)
  PROVE  StreamInv'
<1>1. /\ s \in sinks /\ sinks' = sinks \ {s} /\ routed
      /\ UNCHANGED <<routed, nextId, toBroker, linked, alive, spawns, forwarding>>
  BY DEF Streams!Unsubscribe, Streams!owner, StreamInv, OneUnanswered
<1>2. CASE sinks = {s}
  <2>1. Streams!SettleRoute /\ Streams!ToOwner([kind |-> "unsubscribe"])
    BY <1>1, <1>2 DEF Streams!Unsubscribe
  <2>2. SinksGone
    BY <1>1, <1>2, <2>1, Settled DEF SinksGone, StreamInv, StreamTyped, Streams!TypeOK
  <2> QED BY <1>1, <2>1, <2>2, StopKeeps
<1>3. CASE sinks # {s}
  <2>1. UNCHANGED <<pending, byRoute, waits, toOwner>> /\ sinks' # {} /\ sinks # {}
    BY <1>1, <1>3 DEF Streams!Unsubscribe
  <2>2. StreamTyped' /\ OneUnanswered'
    BY <1>1, <2>1 DEF StreamInv, StreamTyped, Streams!TypeOK, OneUnanswered
  <2>3. InOrder' /\ Served' /\ Stopped'
    BY <1>1, <2>1 DEF StreamInv, InOrder, Asks, Answers, Served, Underway, Stopped, Streams!Told
  <2> QED BY <2>2, <2>3 DEF StreamInv
<1> QED BY <1>2, <1>3

\* Nobody answered in time.
LEMMA TimeoutKeeps ==
  ASSUME StreamBounds, StreamInv, NEW id \in Streams!Ids, Streams!Timeout(id)
  PROVE  StreamInv'
<1>1. SinksGone
  BY TimedOut DEF Streams!Timeout, Streams!owner, SinksGone
<1> QED BY <1>1, StopKeeps DEF Streams!Timeout, Streams!owner

\* The connection closed.
LEMMA DropKeeps ==
  ASSUME StreamBounds, StreamInv, Streams!DropClient \/ Streams!OwnerDrops \/ Streams!Resolve
  PROVE  StreamInv'
<1> USE DEF StreamInv, StreamTyped, Streams!TypeOK, InOrder, Asks, Answers, Served, Stopped, Streams!Told
<1>1. CASE Streams!Resolve
  BY <1>1 DEF Streams!Resolve, Streams!owner, OneUnanswered, Underway
<1>2. CASE Streams!OwnerDrops
  BY <1>2 DEF Streams!OwnerDrops, Streams!broker, OneUnanswered
<1>3. CASE Streams!DropClient /\ routed
  <2>1. /\ linked = {"broker"} /\ linked' = {} /\ routed' = FALSE /\ sinks' = {} /\ Streams!SettleRoute
        /\ UNCHANGED <<nextId, toOwner, toBroker, alive, spawns, forwarding>>
    BY <1>3 DEF Streams!DropClient, Streams!owner
  <2>2. byRoute' = None /\ pending' = {} /\ (\A s \in Sinks : waits'[s] = None)
        /\ waits' \in [Sinks -> Streams!Ids \cup {None}]
    BY <2>1, Settled
  <2> QED BY <2>1, <2>2 DEF OneUnanswered
<1>4. CASE Streams!DropClient /\ ~routed
  BY <1>4 DEF Streams!DropClient, Streams!owner, OneUnanswered
<1> QED BY <1>1, <1>2, <1>3, <1>4

\* What a frame taken by the broker leaves.
LEMMA ReceivesTyped ==
  ASSUME StreamInv, toBroker # <<>>, toBroker' = Tail(toBroker)
  PROVE  /\ toBroker' \in Seq(Streams!BrokerFrames) /\ Head(toBroker) \in Streams!BrokerFrames
         /\ Head(toBroker) = toBroker[1] /\ 1 \in DOMAIN toBroker
         /\ \A i \in DOMAIN toBroker' : i + 1 \in DOMAIN toBroker /\ toBroker'[i] = toBroker[i + 1]
         /\ Head(toBroker).kind # "exit" /\ Streams!Told("exit", toBroker) => Streams!Told("exit", toBroker')
         /\ Streams!Told("exit", toBroker') => Streams!Told("exit", toBroker)
<1>1. toBroker \in Seq(Streams!BrokerFrames)
  BY DEF StreamInv, StreamTyped, Streams!TypeOK
<1>2. /\ toBroker' \in Seq(Streams!BrokerFrames) /\ Head(toBroker) = toBroker[1] /\ 1 \in DOMAIN toBroker
      /\ DOMAIN toBroker' = 1 .. Len(toBroker) - 1
      /\ \A i \in 1 .. Len(toBroker) - 1 : i + 1 \in DOMAIN toBroker /\ toBroker'[i] = toBroker[i + 1]
      /\ \A i \in DOMAIN toBroker : i = 1 \/ (i - 1 \in DOMAIN toBroker' /\ toBroker'[i - 1] = toBroker[i])
  BY <1>1, TakenFrame
<1>3. Head(toBroker) \in Streams!BrokerFrames
  BY <1>1, HeadTailProperties
<1>4. Head(toBroker).kind # "exit" /\ Streams!Told("exit", toBroker) => Streams!Told("exit", toBroker')
  BY <1>2 DEF Streams!Told
<1>5. Streams!Told("exit", toBroker') => Streams!Told("exit", toBroker)
  BY <1>2 DEF Streams!Told
<1> QED BY <1>2, <1>3, <1>4, <1>5

\* The broker hears of its terminal.
LEMMA BrokerReceivesKeeps ==
  ASSUME StreamBounds, StreamInv, Streams!BrokerReceives
  PROVE  StreamInv'
<1>1. /\ "broker" \in linked /\ toBroker # <<>> /\ toBroker' = Tail(toBroker)
      /\ UNCHANGED <<nextId, toOwner, linked, alive, spawns, forwarding>>
  BY DEF Streams!BrokerReceives, Streams!owner
<1>2. /\ toBroker' \in Seq(Streams!BrokerFrames) /\ Head(toBroker) \in Streams!BrokerFrames
      /\ Head(toBroker) = toBroker[1] /\ 1 \in DOMAIN toBroker
      /\ \A i \in DOMAIN toBroker' : i + 1 \in DOMAIN toBroker /\ toBroker'[i] = toBroker[i + 1]
      /\ Head(toBroker).kind # "exit" /\ Streams!Told("exit", toBroker) => Streams!Told("exit", toBroker')
      /\ Streams!Told("exit", toBroker') => Streams!Told("exit", toBroker)
  BY <1>1, ReceivesTyped
<1> PICK frame : frame = Head(toBroker)
  OBVIOUS
<1>3. InOrder'
  BY <1>1, <1>2 DEF StreamInv, InOrder, Asks, Answers
<1>4. CASE frame.kind = "exit" /\ routed
  <2>1. routed' = FALSE /\ sinks' = {} /\ Streams!SettleRoute
    BY <1>4 DEF Streams!BrokerReceives
  <2>2. byRoute' = None /\ pending' = {} /\ (\A s \in Sinks : waits'[s] = None)
        /\ waits' \in [Sinks -> Streams!Ids \cup {None}]
    BY <2>1, Settled
  <2>3. StreamTyped' /\ OneUnanswered' /\ Served'
    BY <1>1, <1>2, <2>1, <2>2 DEF StreamInv, StreamTyped, Streams!TypeOK, OneUnanswered, Served
  <2>4. Streams!Told("exit", toBroker)
    BY <1>2, <1>4 DEF Streams!Told
  <2>5. Stopped'
    BY <1>1, <2>4 DEF StreamInv, Stopped
  <2> QED BY <1>3, <2>3, <2>5 DEF StreamInv
<1>5. CASE frame.kind = "exit" /\ ~routed
  <2>1. UNCHANGED <<routed, sinks, pending, byRoute, waits>>
    BY <1>5 DEF Streams!BrokerReceives
  <2>2. StreamTyped' /\ OneUnanswered' /\ Served'
    BY <1>1, <1>2, <1>5, <2>1 DEF StreamInv, StreamTyped, Streams!TypeOK, OneUnanswered, Served
  <2>3. Streams!Told("exit", toBroker)
    BY <1>2, <1>5 DEF Streams!Told
  <2>4. Stopped'
    BY <1>1, <2>3 DEF StreamInv, Stopped
  <2> QED BY <1>3, <2>2, <2>4 DEF StreamInv
<1>6. CASE frame.kind = "subscribed"
  <2>1. /\ UNCHANGED <<routed, sinks>> /\ pending' = pending \ {frame.id}
        /\ byRoute' = IF frame.id \in pending /\ byRoute = frame.id THEN None ELSE byRoute
        /\ waits' = IF frame.id \in pending THEN Streams!SettledBy(frame.id) ELSE waits
    BY <1>6 DEF Streams!BrokerReceives
  <2>2. CASE frame.id \in pending
    <3>1. byRoute' = None /\ pending' = {} /\ (\A s \in Sinks : waits'[s] = None)
          /\ waits' \in [Sinks -> Streams!Ids \cup {None}]
      BY <2>1, <2>2, TimedOut DEF StreamInv, OneUnanswered
    <3>2. StreamTyped' /\ OneUnanswered'
      BY <1>1, <1>2, <2>1, <3>1 DEF StreamInv, StreamTyped, Streams!TypeOK, OneUnanswered
    <3>3. ~Underway
      <4>1. frame.id = nextId /\ nextId \in Nat
        BY <2>2 DEF StreamInv, StreamTyped, Streams!TypeOK, OneUnanswered
      <4>2. Answers(1) /\ toBroker[1].id = nextId
        BY <1>2, <1>6, <4>1 DEF Answers
      <4> QED BY <1>2, <4>1, <4>2 DEF Underway
    <3>4. Served'
      BY <1>1, <1>2, <1>6, <2>1, <3>3 DEF StreamInv, Served
    <3>5. Stopped'
      BY <1>1, <1>2, <2>1 DEF StreamInv, Stopped
    <3> QED BY <1>3, <3>2, <3>4, <3>5 DEF StreamInv
  <2>3. CASE frame.id \notin pending
    <3>1. UNCHANGED <<pending, byRoute, waits>>
      BY <2>1, <2>3
    <3>2. StreamTyped' /\ OneUnanswered'
      BY <1>1, <1>2, <2>1, <3>1 DEF StreamInv, StreamTyped, Streams!TypeOK, OneUnanswered
    <3>3. Underway => Underway'
      BY <1>1, <1>2, <3>1 DEF Underway, Asks, Answers
    <3>4. Served'
      BY <1>1, <1>2, <1>6, <2>1, <3>3 DEF StreamInv, Served
    <3>5. Stopped'
      BY <1>1, <1>2, <2>1 DEF StreamInv, Stopped
    <3> QED BY <1>3, <3>2, <3>4, <3>5 DEF StreamInv
  <2> QED BY <2>2, <2>3
<1> QED BY <1>4, <1>5, <1>6 DEF Streams!BrokerReceives

\* What the owner sends comes after what it sent.
LEMMA SentFrames ==
  ASSUME StreamInv, "owner" \in linked, NEW fs \in Seq(Streams!BrokerFrames), Streams!ToBroker(fs)
  PROVE  /\ toBroker' \in Seq(Streams!BrokerFrames)
         /\ Streams!Told("exit", toBroker') <=> Streams!Told("exit", toBroker) \/ Streams!Told("exit", fs)
         /\ \A i \in DOMAIN toBroker' : (i \in DOMAIN toBroker /\ toBroker'[i] = toBroker[i])
                                        \/ \E j \in DOMAIN fs : toBroker'[i] = fs[j]
<1>1. toBroker \in Seq(Streams!BrokerFrames) /\ toBroker' = toBroker \o fs
  BY DEF StreamInv, StreamTyped, Streams!TypeOK, Streams!ToBroker
<1>2. /\ toBroker' \in Seq(Streams!BrokerFrames) /\ Len(toBroker') = Len(toBroker) + Len(fs)
      /\ \A i \in 1 .. Len(toBroker) + Len(fs) :
           toBroker'[i] = IF i <= Len(toBroker) THEN toBroker[i] ELSE fs[i - Len(toBroker)]
  BY <1>1, ConcatProperties
<1>3. /\ Len(toBroker) \in Nat /\ Len(fs) \in Nat /\ DOMAIN toBroker = 1 .. Len(toBroker) /\ DOMAIN fs = 1 .. Len(fs)
      /\ DOMAIN toBroker' = 1 .. Len(toBroker) + Len(fs)
  BY <1>1, <1>2
<1>4. ASSUME NEW i \in DOMAIN toBroker'
      PROVE  (i \in DOMAIN toBroker /\ toBroker'[i] = toBroker[i]) \/ \E j \in DOMAIN fs : toBroker'[i] = fs[j]
  <2>1. CASE i <= Len(toBroker)
    BY <1>2, <1>3, <2>1
  <2>2. CASE ~(i <= Len(toBroker))
    <3>1. i - Len(toBroker) \in DOMAIN fs
      BY <1>3, <2>2
    <3> QED BY <1>2, <1>3, <2>2, <3>1
  <2> QED BY <2>1, <2>2
<1>5. \A i \in DOMAIN toBroker : i \in DOMAIN toBroker' /\ toBroker'[i] = toBroker[i]
  BY <1>2, <1>3
<1>6. \A j \in DOMAIN fs : Len(toBroker) + j \in DOMAIN toBroker' /\ toBroker'[Len(toBroker) + j] = fs[j]
  BY <1>2, <1>3
<1>7. ASSUME Streams!Told("exit", toBroker') PROVE Streams!Told("exit", toBroker) \/ Streams!Told("exit", fs)
  <2>1. PICK i \in DOMAIN toBroker' : toBroker'[i].kind = "exit"
    BY <1>7 DEF Streams!Told
  <2> QED BY <2>1, <1>4 DEF Streams!Told
<1>8. ASSUME Streams!Told("exit", toBroker) PROVE Streams!Told("exit", toBroker')
  <2>1. PICK i \in DOMAIN toBroker : toBroker[i].kind = "exit"
    BY <1>8 DEF Streams!Told
  <2>2. i \in DOMAIN toBroker' /\ toBroker'[i].kind = "exit"
    BY <2>1, <1>5
  <2> QED BY <2>2 DEF Streams!Told
<1>9. ASSUME Streams!Told("exit", fs) PROVE Streams!Told("exit", toBroker')
  <2>1. PICK j \in DOMAIN fs : fs[j].kind = "exit"
    BY <1>9 DEF Streams!Told
  <2>2. Len(toBroker) + j \in DOMAIN toBroker' /\ toBroker'[Len(toBroker) + j].kind = "exit"
    BY <2>1, <1>6
  <2> QED BY <2>2 DEF Streams!Told
<1> QED BY <1>2, <1>4, <1>7, <1>8, <1>9

\* What an answer to a subscribe is made of: the end of a dead terminal comes
\* before the acknowledgement.
LEMMA AnswerFrames ==
  ASSUME NEW up \in BOOLEAN, NEW id \in Streams!Ids, NEW fs,
         fs = (IF up THEN <<>> ELSE <<[kind |-> "exit"]>>) \o <<[kind |-> "subscribed", id |-> id]>>
  PROVE  /\ fs \in Seq(Streams!BrokerFrames)
         /\ Streams!Told("exit", fs) <=> ~up
         /\ \A j \in DOMAIN fs : fs[j].kind = "subscribed" => fs[j].id = id
<1> PICK e : e = [kind |-> "exit"]
  OBVIOUS
<1> PICK a : a = [kind |-> "subscribed", id |-> id]
  OBVIOUS
<1>1. e \in Streams!BrokerFrames /\ a \in Streams!BrokerFrames /\ e.kind = "exit" /\ a.kind = "subscribed" /\ a.id = id
  BY DEF Streams!BrokerFrames
<1>2. CASE up
  <2>1. fs = <<a>>
    BY <1>2
  <2>2. fs \in Seq(Streams!BrokerFrames) /\ DOMAIN fs = {1} /\ fs[1] = a
    BY <1>1, <2>1
  <2> QED BY <1>1, <1>2, <2>2 DEF Streams!Told
<1>3. CASE ~up
  <2>1. fs = <<e>> \o <<a>>
    BY <1>3
  <2>2. fs \in Seq(Streams!BrokerFrames) /\ DOMAIN fs = {1, 2} /\ fs[1] = e /\ fs[2] = a
    <3>1. <<e>> \in Seq(Streams!BrokerFrames) /\ Len(<<e>>) = 1 /\ <<e>>[1] = e
      BY <1>1
    <3>2. fs = Append(<<e>>, a)
      BY <1>1, <2>1, <3>1, AppendIsConcat
    <3>3. Len(fs) = 2 /\ fs[1] = e /\ fs[2] = a /\ fs \in Seq(Streams!BrokerFrames)
      BY <1>1, <3>1, <3>2, AppendProperties
    <3> QED BY <3>3
  <2> QED BY <1>1, <1>3, <2>2 DEF Streams!Told
<1> QED BY <1>2, <1>3

\* The owner takes a frame.
LEMMA OwnerReceivesKeeps ==
  ASSUME StreamBounds, StreamInv, Streams!OwnerReceives
  PROVE  StreamInv'
<1>1. /\ "owner" \in linked /\ toOwner # <<>> /\ toOwner' = Tail(toOwner)
      /\ UNCHANGED <<routed, sinks, pending, byRoute, waits, nextId, linked, alive, spawns>>
  BY DEF Streams!OwnerReceives, Streams!broker
<1>2. toOwner \in Seq(Streams!OwnerFrames) /\ toBroker \in Seq(Streams!BrokerFrames) /\ forwarding \in BOOLEAN /\ alive \in BOOLEAN
  BY DEF StreamInv, StreamTyped, Streams!TypeOK
<1>3. /\ toOwner' \in Seq(Streams!OwnerFrames) /\ Head(toOwner) = toOwner[1] /\ 1 \in DOMAIN toOwner
      /\ Len(toOwner) \in Nat \ {0} /\ Len(toOwner') = Len(toOwner) - 1 /\ DOMAIN toOwner' = 1 .. Len(toOwner) - 1
      /\ \A i \in 1 .. Len(toOwner) - 1 : i + 1 \in DOMAIN toOwner /\ toOwner'[i] = toOwner[i + 1]
      /\ Len(toOwner) = 1 => toOwner' = <<>>
      /\ Len(toOwner) # 1 => toOwner' # <<>> /\ toOwner'[Len(toOwner')] = toOwner[Len(toOwner)]
  BY <1>1, <1>2, TakenFrame
<1> PICK frame : frame = Head(toOwner)
  OBVIOUS
<1>4. frame \in Streams!OwnerFrames
  BY <1>1, <1>2, HeadTailProperties
<1>5. OneUnanswered'
  BY <1>1 DEF StreamInv, OneUnanswered
<1>6. \A i \in DOMAIN toOwner' : Asks(i)' => toOwner'[i].id <= nextId'
  BY <1>1, <1>3 DEF StreamInv, InOrder, Asks
<1>7. CASE frame.kind = "subscribe"
  <2> PICK fs : fs = (IF forwarding \/ alive THEN <<>> ELSE <<[kind |-> "exit"]>>) \o <<[kind |-> "subscribed", id |-> frame.id]>>
    OBVIOUS
  <2>1. Streams!ToBroker(fs) /\ forwarding' = (forwarding \/ alive) /\ frame.id \in Streams!Ids
    BY <1>4, <1>7 DEF Streams!OwnerReceives, Streams!InstallsOn, Streams!OwnerFrames
  <2>2. /\ fs \in Seq(Streams!BrokerFrames)
        /\ Streams!Told("exit", fs) <=> ~(forwarding \/ alive)
        /\ \A j \in DOMAIN fs : fs[j].kind = "subscribed" => fs[j].id = frame.id
    <3>1. PICK up \in BOOLEAN : up <=> forwarding \/ alive
      BY <1>2
    <3>2. fs = (IF up THEN <<>> ELSE <<[kind |-> "exit"]>>) \o <<[kind |-> "subscribed", id |-> frame.id]>>
      BY <3>1
    <3> QED BY <2>1, <3>1, <3>2, AnswerFrames
  <2>3. /\ toBroker' \in Seq(Streams!BrokerFrames)
        /\ Streams!Told("exit", toBroker') <=> Streams!Told("exit", toBroker) \/ ~(forwarding \/ alive)
        /\ \A i \in DOMAIN toBroker' : (i \in DOMAIN toBroker /\ toBroker'[i] = toBroker[i])
                                       \/ \E j \in DOMAIN fs : toBroker'[i] = fs[j]
    BY <1>1, <2>1, <2>2, SentFrames
  <2>4. Asks(1) /\ toOwner[1].id = frame.id
    BY <1>3, <1>7 DEF Asks
  <2>5. StreamTyped'
    BY <1>1, <1>2, <1>3, <2>1, <2>3 DEF StreamInv, StreamTyped, Streams!TypeOK
  <2>6. InOrder'
    BY <1>1, <1>3, <1>6, <2>2, <2>3, <2>4 DEF StreamInv, InOrder, Answers
  <2>7. Served'
    <3> SUFFICES ASSUME sinks # {} PROVE Underway' \/ (toOwner' = <<>> /\ (forwarding' \/ Streams!Told("exit", toBroker')))
      BY <1>1 DEF Served
    <3>1. Underway
      BY <1>1 DEF StreamInv, Served
    <3>2. CASE Len(toOwner) = 1
      BY <1>3, <3>2, <2>1, <2>3
    <3>3. CASE Len(toOwner) # 1
      <4>1. 1 \in 1 .. Len(toOwner) - 1
        BY <1>3, <3>3
      <4>2. frame.id < nextId
        BY <2>4, <3>1, <4>1 DEF Underway
      <4>3. \A i \in DOMAIN toBroker' : Answers(i)' => toBroker'[i].id < nextId'
        BY <1>1, <2>2, <2>3, <3>1, <4>2 DEF Underway, Answers
      <4>4. \A i \in 1 .. Len(toOwner') - 1 : Asks(i)' => toOwner'[i].id < nextId'
        <5>1. ASSUME NEW i \in 1 .. Len(toOwner') - 1 PROVE i + 1 \in 1 .. Len(toOwner) - 1 /\ toOwner'[i] = toOwner[i + 1]
          BY <1>3
        <5> QED BY <1>1, <3>1, <5>1 DEF Underway, Asks
      <4>5. byRoute' # None /\ toOwner' # <<>> /\ toOwner'[Len(toOwner')].kind = "subscribe"
        BY <1>1, <1>3, <3>1, <3>3 DEF Underway
      <4> QED BY <4>3, <4>4, <4>5 DEF Underway
    <3> QED BY <3>2, <3>3
  <2>8. Stopped'
    BY <1>1, <1>3, <1>7, <2>3 DEF StreamInv, Stopped
  <2> QED BY <1>5, <2>5, <2>6, <2>7, <2>8 DEF StreamInv
<1>8. CASE frame.kind = "unsubscribe"
  <2>1. forwarding' = FALSE /\ toBroker' = toBroker
    BY <1>8 DEF Streams!OwnerReceives
  <2>2. StreamTyped'
    BY <1>1, <1>2, <1>3, <2>1 DEF StreamInv, StreamTyped, Streams!TypeOK
  <2>3. InOrder'
    BY <1>1, <1>6, <2>1 DEF StreamInv, InOrder, Answers
  <2>4. Served'
    <3> SUFFICES ASSUME sinks # {} PROVE Underway'
      BY <1>1 DEF Served
    <3>1. Underway
      BY <1>1 DEF StreamInv, Served
    <3>2. Len(toOwner) # 1
      BY <1>3, <1>8, <3>1 DEF Underway
    <3>3. \A i \in DOMAIN toBroker' : Answers(i)' => toBroker'[i].id < nextId'
      BY <1>1, <2>1, <3>1 DEF Underway, Answers
    <3>4. \A i \in 1 .. Len(toOwner') - 1 : Asks(i)' => toOwner'[i].id < nextId'
      <4>1. ASSUME NEW i \in 1 .. Len(toOwner') - 1 PROVE i + 1 \in 1 .. Len(toOwner) - 1 /\ toOwner'[i] = toOwner[i + 1]
        BY <1>3
      <4> QED BY <1>1, <3>1, <4>1 DEF Underway, Asks
    <3>5. byRoute' # None /\ toOwner' # <<>> /\ toOwner'[Len(toOwner')].kind = "subscribe"
      BY <1>1, <1>3, <3>1, <3>2 DEF Underway
    <3> QED BY <3>3, <3>4, <3>5 DEF Underway
  <2>5. Stopped'
    BY <1>1, <1>3, <2>1 DEF StreamInv, Stopped
  <2> QED BY <1>5, <2>2, <2>3, <2>4, <2>5 DEF StreamInv
<1> QED BY <1>7, <1>8 DEF Streams!OwnerReceives

\* The terminal ends.
LEMMA ExitKeeps ==
  ASSUME StreamBounds, StreamInv, Streams!PtyExits
  PROVE  StreamInv'
<1>1. /\ alive /\ alive' = FALSE /\ forwarding' = FALSE
      /\ UNCHANGED <<routed, sinks, pending, byRoute, waits, nextId, toOwner, linked, spawns>>
  BY DEF Streams!PtyExits, Streams!broker
<1> PICK fs : fs = IF forwarding THEN <<[kind |-> "exit"]>> ELSE <<>>
  OBVIOUS
<1>2. fs \in Seq(Streams!BrokerFrames) /\ (Streams!Told("exit", fs) <=> forwarding)
      /\ \A j \in DOMAIN fs : fs[j].kind # "subscribed"
  <2> PICK e : e = [kind |-> "exit"]
    OBVIOUS
  <2>1. e \in Streams!BrokerFrames /\ e.kind = "exit"
    BY DEF Streams!BrokerFrames
  <2>2. CASE forwarding
    <3>1. fs = <<e>> /\ fs \in Seq(Streams!BrokerFrames) /\ DOMAIN fs = {1} /\ fs[1] = e
      BY <2>1, <2>2
    <3> QED BY <2>1, <2>2, <3>1 DEF Streams!Told
  <2>3. CASE ~forwarding
    <3>1. fs = <<>> /\ fs \in Seq(Streams!BrokerFrames) /\ DOMAIN fs = {}
      BY <2>3, EmptySeq
    <3> QED BY <2>3, <3>1 DEF Streams!Told
  <2> QED BY <2>2, <2>3
<1>3. Streams!ToBroker(fs)
  BY DEF Streams!PtyExits
<1>4. CASE "owner" \in linked
  <2>1. /\ toBroker' \in Seq(Streams!BrokerFrames)
        /\ Streams!Told("exit", toBroker') <=> Streams!Told("exit", toBroker) \/ forwarding
        /\ \A i \in DOMAIN toBroker' : Answers(i)' => i \in DOMAIN toBroker /\ toBroker'[i] = toBroker[i]
    <3>1. fs \in Seq(Streams!BrokerFrames)
      BY <1>2
    <3>2. /\ toBroker' \in Seq(Streams!BrokerFrames)
          /\ Streams!Told("exit", toBroker') <=> Streams!Told("exit", toBroker) \/ Streams!Told("exit", fs)
          /\ \A i \in DOMAIN toBroker' : (i \in DOMAIN toBroker /\ toBroker'[i] = toBroker[i])
                                         \/ \E j \in DOMAIN fs : toBroker'[i] = fs[j]
      BY <1>3, <1>4, <3>1, SentFrames
    <3> QED BY <1>2, <3>2 DEF Answers
  <2>2. StreamTyped' /\ OneUnanswered' /\ InOrder' /\ Stopped'
    BY <1>1, <2>1 DEF StreamInv, StreamTyped, Streams!TypeOK, OneUnanswered, InOrder, Asks, Answers, Stopped
  <2>3. Underway => Underway'
    BY <1>1, <2>1 DEF Underway, Asks, Answers
  <2>4. Served'
    BY <1>1, <2>1, <2>3 DEF StreamInv, Served
  <2> QED BY <2>2, <2>4 DEF StreamInv
<1>5. CASE "owner" \notin linked
  <2>1. toBroker' = toBroker
    BY <1>3, <1>5 DEF Streams!ToBroker
  <2> QED BY <1>1, <1>5, <2>1 DEF StreamInv, StreamTyped, Streams!TypeOK, OneUnanswered, InOrder, Asks, Answers, Served, Stopped
<1> QED BY <1>4, <1>5

\* Or a second generation begins.
LEMMA SpawnKeeps ==
  ASSUME StreamBounds, StreamInv, Streams!PtySpawns
  PROVE  StreamInv'
<1>1. /\ ~alive /\ alive' = TRUE /\ spawns < MaxSpawns /\ spawns' = spawns + 1
      /\ UNCHANGED <<routed, sinks, pending, byRoute, waits, nextId, toOwner, toBroker, linked, forwarding>>
  BY DEF Streams!PtySpawns, Streams!broker
<1>2. spawns' \in 0 .. MaxSpawns /\ spawns' >= 1 /\ spawns' # 1
  BY <1>1 DEF StreamInv, StreamTyped, Streams!TypeOK, StreamBounds
<1>3. StreamTyped' /\ OneUnanswered' /\ InOrder' /\ Stopped'
  BY <1>1, <1>2 DEF StreamInv, StreamTyped, Streams!TypeOK, OneUnanswered, InOrder, Asks, Answers, Stopped
<1>4. Served'
  BY <1>1 DEF StreamInv, Served, Underway, Asks, Answers, Streams!Told
<1> QED BY <1>3, <1>4 DEF StreamInv

\* So it holds whatever happens on the link.
LEMMA StreamInvHolds == StreamBounds => (Streams!Spec => []StreamInv)
<1> SUFFICES ASSUME StreamBounds PROVE Streams!Spec => []StreamInv
  OBVIOUS
<1>1. StreamInv /\ [Streams!Next]_(Streams!vars) => StreamInv'
  <2> SUFFICES ASSUME StreamInv, [Streams!Next]_(Streams!vars) PROVE StreamInv'
    OBVIOUS
  <2>1. CASE UNCHANGED Streams!vars
    BY <2>1 DEF Streams!vars, StreamInv, StreamTyped, Streams!TypeOK, OneUnanswered, InOrder, Asks, Answers, Served,
       Underway, Stopped, Streams!Told
  <2>2. CASE Streams!Next
    BY <2>2, SubscribeKeeps, UnsubscribeKeeps, TimeoutKeeps, DropKeeps, BrokerReceivesKeeps, OwnerReceivesKeeps,
       ExitKeeps, SpawnKeeps DEF Streams!Next
  <2> QED BY <2>1, <2>2
<1> QED BY StreamInitInv, <1>1, PTL DEF Streams!Spec

\* A sink that was told it is attached has a live stream, or will hear its end
\* (the subscribe case of onClientFrame, beginRemoteSubscription).
THEOREM AttachedAreServed ==
  ASSUME StreamBounds
  PROVE  Streams!Spec => []AttachedHasStream
<1>1. StreamInv => AttachedHasStream
  <2> SUFFICES ASSUME StreamInv, NEW s \in Sinks, Streams!Ready(s), "owner" \in linked
               PROVE  (forwarding /\ alive) \/ Streams!Told("exit", toBroker)
    BY DEF AttachedHasStream, Streams!AttachedHasStream
  <2>1. sinks # {} /\ ~Underway
    BY DEF StreamInv, OneUnanswered, Underway, Streams!Ready
  <2> QED BY <2>1 DEF StreamInv, StreamTyped, Served
<1> QED BY <1>1, StreamInvHolds, PTL

\* The owner forwards a first generation to nobody only while the frame that
\* stops it is under way (remoteUnsubscribe, beginRemoteSubscription).
THEOREM StreamsAreStopped ==
  ASSUME StreamBounds
  PROVE  Streams!Spec => []NoOrphanStream
<1>1. StreamInv => NoOrphanStream
  <2> SUFFICES ASSUME StreamInv, spawns = 1, forwarding, sinks = {}
               PROVE  Streams!Told("unsubscribe", toOwner) \/ Streams!Told("exit", toBroker)
    BY DEF NoOrphanStream, Streams!NoOrphanStream, StreamInv, StreamTyped
  <2>1. toOwner # <<>> /\ toOwner[Len(toOwner)].kind = "unsubscribe" /\ toOwner \in Seq(Streams!OwnerFrames)
    BY DEF StreamInv, StreamTyped, Streams!TypeOK, Stopped
  <2>2. Len(toOwner) \in DOMAIN toOwner
    BY <2>1, EmptySeq
  <2> QED BY <2>1, <2>2 DEF Streams!Told
<1> QED BY <1>1, StreamInvHolds, PTL

-----------------------------------------------------------------------------
(* The election (PeerElection).                                            *)

USE MarksAssumption

Shut(w) == pc[w] \in {"closed", "dead"} \/ w \in disposed
RoleOf(w) ==
  /\ pc[w] = "closed" => w \notin server \cup disposed \cup told \cup refused \cup removing
  /\ pc[w] # "idle" \/ w \in disposed => client[w] = None
  /\ w \in server => client[w] = None /\ w \notin disposed /\ pc[w] \in {"idle", "stat", "verify"}
  /\ pc[w] \in {"stat", "verify"} => w \in server \cup disposed
  /\ w \in server /\ pc[w] = "idle" => w \in confirmed
  /\ w \in told => pc[w] \in {"idle", "dead"} \/ w \in disposed
  /\ w \in told /\ ~Shut(w) => w \in server /\ w \in confirmed
  /\ pc[w] = "idle" /\ ~Shut(w) => w \in server \/ client[w] # None \/ w \in refused
Roles == \A w \in Windows : RoleOf(w)

\* Who has read the token has the one in the file.
TokenOf(w) ==
  /\ pc[w] \in Awaits \ TokenAwaits \/ w \in server => tok[w] \in Windows /\ tok[w] = tokenFile
  /\ pc[w] = "write" => tokenFile = Empty
OneWriter == \A v, w \in Windows : pc[v] = "write" /\ pc[w] = "write" => v = w
Tokens == OneWriter /\ \A w \in Windows : TokenOf(w)

Inv == TypeOK /\ Roles /\ Tokens

\* The await sets, spelled out once.
LEMMA AwaitSets ==
  /\ Awaits = {"token", "create", "write", "poll", "bind", "dial", "shake", "jitter", "redial",
               "reshake", "clear", "rebind", "stat", "verify"}
  /\ Awaits \ TokenAwaits = {"bind", "dial", "shake", "jitter", "redial", "reshake", "clear",
                             "rebind", "stat", "verify"}
BY DEF Awaits, TokenAwaits

\* It holds before any window opened.
LEMMA InitInv == Init => Inv
BY DEF Init, Inv, TypeOK, Roles, RoleOf, Shut, Tokens, OneWriter, TokenOf, Awaits, TokenAwaits

\* The steps of one window's loop that touch no role.
LEMMA LoopKeeps ==
  ASSUME Inv, NEW w \in Windows, Open(w) \/ Dial(w) \/ HandshakeFails(w) \/ Redial(w) \/ Clear(w)
  PROVE  Inv'
<1>1. UNCHANGED <<token, roles>>
  BY DEF Open, Dial, HandshakeFails, Redial, Clear
<1>2. pc' \in [Windows -> Awaits \cup {"closed", "idle", "dead"}] /\ \A v \in Windows \ {w} : pc'[v] = pc[v]
  BY DEF Open, Dial, HandshakeFails, Redial, Clear, Retry, Goto, Inv, TypeOK, Awaits, TokenAwaits
<1>3. TypeOK'
  BY <1>1, <1>2 DEF Open, Dial, HandshakeFails, Redial, Clear, Inv, TypeOK, token, roles
<1>4. Roles'
  BY <1>1 DEF Open, Dial, HandshakeFails, Redial, Clear, Retry, Goto, Inv, TypeOK, Roles, RoleOf, Shut, roles
<1>5. Tokens'
  BY <1>1, AwaitSets DEF Open, Dial, HandshakeFails, Redial, Clear, Retry, Goto, Inv, TypeOK, Tokens, OneWriter, TokenOf, roles, token
<1> QED BY <1>3, <1>4, <1>5 DEF Inv

\* Reading, creating and writing the token, and giving up on it.
LEMMA TokenKeeps ==
  ASSUME Inv, NEW w \in Windows, StandDown(w) \/ ReadToken(w) \/ CreateToken(w) \/ WriteToken(w)
  PROVE  Inv'
<1>3. TypeOK'
  BY DEF StandDown, ReadToken, CreateToken, WriteToken, Goto, Inv, TypeOK, token, roles, Awaits, TokenAwaits
<1>4. Roles'
  BY DEF StandDown, ReadToken, CreateToken, WriteToken, Goto, Inv, TypeOK, Roles, RoleOf, Shut, roles
<1>5. Tokens'
  <2>1. CASE StandDown(w)
    BY <2>1, AwaitSets DEF StandDown, Goto, Inv, TypeOK, Tokens, OneWriter, TokenOf, token
  <2>2. CASE ReadToken(w)
    BY <2>2, AwaitSets DEF ReadToken, Goto, Inv, TypeOK, Tokens, OneWriter, TokenOf, roles
  <2>3. CASE CreateToken(w)
    BY <2>3, AwaitSets DEF CreateToken, Goto, Inv, TypeOK, Tokens, OneWriter, TokenOf, roles
  <2>4. CASE WriteToken(w)
    BY <2>4, AwaitSets DEF WriteToken, Goto, Inv, TypeOK, Tokens, OneWriter, TokenOf, roles
  <2> QED BY <2>1, <2>2, <2>3, <2>4
<1> QED BY <1>3, <1>4, <1>5 DEF Inv

\* A bind, believed or to be checked.
LEMMA BindKeeps ==
  ASSUME Inv, NEW w \in Windows, Bind(w) \/ Rebind(w)
  PROVE  Inv'
<1>3. TypeOK'
  BY DEF Bind, Rebind, Bound, Retry, Goto, Inv, TypeOK, token, roles, Awaits, TokenAwaits
<1>4. Roles'
  BY DEF Bind, Rebind, Bound, Retry, Goto, Inv, TypeOK, Roles, RoleOf, Shut, roles
<1>5. Tokens'
  BY AwaitSets DEF Bind, Rebind, Bound, Retry, Goto, Inv, TypeOK, Tokens, OneWriter, TokenOf, roles, token
<1> QED BY <1>3, <1>4, <1>5 DEF Inv

\* The check of a reclaimed bind.
LEMMA VerifyKeeps ==
  ASSUME Inv, NEW w \in Windows, FirstStat(w) \/ SecondStat(w)
  PROVE  Inv'
<1>3. TypeOK'
  BY DEF FirstStat, SecondStat, StandAside, CloseServer, HangUp, UnlinkedByClose, Retry, Goto, Inv, TypeOK, token, roles, Awaits, TokenAwaits
<1>4. Roles'
  <2>1. CASE StandAside(w) /\ pc[w] \in {"stat", "verify"}
    BY <2>1 DEF StandAside, CloseServer, HangUp, Retry, Goto, Inv, TypeOK, Roles, RoleOf, Shut
  <2>2. CASE FirstStat(w) /\ ~StandAside(w)
    BY <2>2 DEF FirstStat, Goto, Inv, TypeOK, Roles, RoleOf, Shut, roles
  <2>3. CASE SecondStat(w) /\ ~StandAside(w)
    BY <2>3 DEF SecondStat, Goto, Inv, TypeOK, Roles, RoleOf, Shut
  <2> QED BY <2>1, <2>2, <2>3 DEF FirstStat, SecondStat
<1>5. Tokens'
  BY AwaitSets DEF FirstStat, SecondStat, StandAside, CloseServer, HangUp, UnlinkedByClose, Retry, Goto, Inv, TypeOK, Tokens, OneWriter, TokenOf, roles, token
<1> QED BY <1>3, <1>4, <1>5 DEF Inv

\* A connection is made or lost.
LEMMA ConnectionKeeps ==
  ASSUME Inv, NEW w \in Windows, Welcomed(w) \/ Drop(w)
  PROVE  Inv'
<1>3. TypeOK'
  BY DEF Welcomed, Drop, Goto, Inv, TypeOK, token, roles, Awaits, TokenAwaits
<1>4. Roles'
  <2>1. CASE Welcomed(w)
    BY <2>1 DEF Welcomed, Goto, Inv, TypeOK, Roles, RoleOf, Shut
  <2>2. CASE Drop(w)
    BY <2>2, AwaitSets DEF Drop, Contending, Inv, TypeOK, Roles, RoleOf, Shut
  <2> QED BY <2>1, <2>2
<1>5. Tokens'
  BY AwaitSets DEF Welcomed, Drop, Goto, Inv, TypeOK, Tokens, OneWriter, TokenOf, roles, token
<1> QED BY <1>3, <1>4, <1>5 DEF Inv

\* A window closes, removes the path, or dies.
LEMMA EndKeeps ==
  ASSUME Inv, NEW w \in Windows, Dispose(w) \/ RemovePath(w) \/ Crash(w)
  PROVE  Inv'
<1>3. TypeOK'
  BY DEF Dispose, RemovePath, Crash, CloseServer, UnlinkedByClose, Goto, Inv, TypeOK, token, roles, Awaits, TokenAwaits
<1>4. Roles'
  <2>1. CASE Dispose(w)
    BY <2>1 DEF Dispose, CloseServer, Inv, TypeOK, Roles, RoleOf, Shut
  <2>2. CASE RemovePath(w)
    BY <2>2 DEF RemovePath, Inv, TypeOK, Roles, RoleOf, Shut
  <2>3. CASE Crash(w)
    BY <2>3 DEF Crash, Goto, Inv, TypeOK, Roles, RoleOf, Shut
  <2> QED BY <2>1, <2>2, <2>3
<1>5. Tokens'
  BY AwaitSets DEF Dispose, RemovePath, Crash, CloseServer, UnlinkedByClose, Goto, Inv, TypeOK, Tokens, OneWriter, TokenOf, roles, token
<1> QED BY <1>3, <1>4, <1>5 DEF Inv

\* So it holds whatever the windows do.
LEMMA InvHolds == Spec => []Inv
<1>1. Inv /\ [Next]_vars => Inv'
  <2> SUFFICES ASSUME Inv, [Next]_vars PROVE Inv'
    OBVIOUS
  <2>1. CASE UNCHANGED vars
    BY <2>1 DEF vars, token, Inv, TypeOK, Roles, RoleOf, Shut, Tokens, OneWriter, TokenOf
  <2>2. CASE Next
    BY <2>2, LoopKeeps, TokenKeeps, BindKeeps, VerifyKeeps, ConnectionKeeps, EndKeeps DEF Next, Step
  <2> QED BY <2>1, <2>2
<1> QED BY InitInv, <1>1, PTL DEF Spec

\* The state stays well-typed for any set of windows (peer-link.ts).
THEOREM TypeCorrect == Spec => []TypeOK
<1>1. Inv => TypeOK
  BY DEF Inv
<1> QED BY <1>1, InvHolds, PTL

\* A window that was told it is the broker stays it until it is closed
\* (brokerConfirmed, stillOurs).
THEOREM BrokersStay == Spec => []RolesNeverFlip
<1>1. Inv => RolesNeverFlip
  BY DEF Inv, TypeOK, Roles, RoleOf, Shut, RolesNeverFlip, IsPeerBroker
<1> QED BY <1>1, InvHolds, PTL

\* Whoever has no role contends for one (contend, drop).
THEOREM RolelessContend == Spec => []NobodyGivesUp
<1>1. Inv => NobodyGivesUp
  BY DEF Inv, TypeOK, Roles, RoleOf, Shut, NobodyGivesUp, Contending, IsPeerLinkSettled, IsPeerBroker
<1> QED BY <1>1, InvHolds, PTL

\* A closed window holds no server, and no connection once its loop ended
\* (attempt, disposePeerLink).
THEOREM ClosedHoldNothing == Spec => []DisposedHoldsNothing
<1>1. Inv => DisposedHoldsNothing
  BY DEF Inv, TypeOK, Roles, RoleOf, Shut, DisposedHoldsNothing, Contending
<1> QED BY <1>1, InvHolds, PTL

\* No window both serves and is served (contend).
THEOREM RolesExclude == Spec => []OneRoleAtATime
<1>1. Inv => OneRoleAtATime
  BY DEF Inv, Roles, RoleOf, OneRoleAtATime
<1> QED BY <1>1, InvHolds, PTL

\* Every window that got past the token uses the one in the file
\* (ensureToken, readSharedToken).
THEOREM TokensAgree == Spec => []OneToken
<1>1. Inv => OneToken
  BY DEF Inv, Tokens, TokenOf, OneToken
<1> QED BY <1>1, InvHolds, PTL

\* What a window relies on while the others contend (contend, attempt,
\* ensureToken).
THEOREM RolesSound == Spec => []RolesAreSound
<1>1. TypeOK /\ RolesNeverFlip /\ NobodyGivesUp /\ DisposedHoldsNothing /\ OneToken => RolesAreSound
  BY DEF RolesAreSound
<1> QED BY <1>1, TypeCorrect, BrokersStay, RolelessContend, ClosedHoldNothing, TokensAgree, PTL

-----------------------------------------------------------------------------
(* The parts together (MCPeerLink).                                        *)

\* The parts share no state: whatever the run explores, leaving fairness
\* aside, is a behaviour of each, so what is proved of a part holds of it.
THEOREM LinkPartsAreKept == MCSpec => Spec /\ Streams!Spec /\ Hub!Spec
<1>1. MCInit => Init /\ Streams!Init /\ Hub!Init
  BY DEF MCInit
<1>2. InElection => UNCHANGED <<Streams!vars, Hub!vars>>
  BY DEF InElection, streams, relay, Streams!vars, Hub!vars, Hub!file
<1>3. InStreams => UNCHANGED <<vars, Hub!vars>>
  BY DEF InStreams, relay, Hub!vars, Hub!file
<1>4. InHub => UNCHANGED <<vars, Streams!vars>>
  BY DEF InHub, streams, Streams!vars
<1>5. MCNext => (InElection /\ Next) \/ (InStreams /\ Streams!Next) \/ (InHub /\ Hub!Next)
  <2> SUFFICES ASSUME MCNext PROVE (InElection /\ Next) \/ (InStreams /\ Streams!Next) \/ (InHub /\ Hub!Next)
    OBVIOUS
  <2>1. CASE InElection
    BY <2>1 DEF MCNext, Next, Step, InElection, InStreams, InHub, Only
  <2>2. CASE InStreams
    BY <2>2 DEF MCNext, Streams!Next, Streams!Ids, InElection, InStreams, InHub, Only
  <2>3. CASE InHub
    BY <2>3 DEF MCNext, Hub!Next, InElection, InStreams, InHub, Only
  <2> QED BY <2>1, <2>2, <2>3 DEF MCNext
<1>6. [MCNext]_<<part, parts>> => [Next]_vars /\ [Streams!Next]_(Streams!vars) /\ [Hub!Next]_(Hub!vars)
  BY <1>2, <1>3, <1>4, <1>5 DEF parts, streams, relay, Streams!vars, Hub!vars, Hub!file
<1>7. MCSpec => MCInit /\ [][MCNext]_<<part, parts>>
  BY PTL DEF MCSpec
<1> QED BY <1>1, <1>6, <1>7, PTL DEF Spec, Streams!Spec, Hub!Spec
=============================================================================
