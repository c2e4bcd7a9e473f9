---------------------------- MODULE PeerStreams ----------------------------
(***************************************************************************)
(* vscode-ext/src/peer-link.ts: one terminal of another window, watched    *)
(* over the link.  The broker hands out a route for it, counts the sinks   *)
(* that watch it and asks the owner for its stream; the owner forwards the *)
(* terminal while it is asked to.                                          *)
(*                                                                         *)
(* One connection and one PTY: routes are per connection and PTY, and      *)
(* nothing is shared between two of them but the order of frames.  Frames  *)
(* arrive in order or, once the connection closed, not at all.  Output     *)
(* itself is left out.                                                     *)
(***************************************************************************)
EXTENDS Naturals, Sequences, SequencesExt

CONSTANTS
  Sinks,         \* viewers in the broker's window
  MaxSubs,       \* bound: subscribe frames sent
  MaxSpawns,     \* bound: generations of the PTY
  None           \* null

VARIABLES
  routed,     \* routes and routePtyIds have the handle
  sinks,      \* remoteSinks of the route
  pending,    \* pendingRemoteSubscriptions: ids of unanswered subscribes
  byRoute,    \* pendingRemoteSubscriptionByRoute
  waits,      \* the subscribe each sink's ready promise waits for
  nextId,     \* nextRequestId
  toOwner, toBroker,  \* frames under way
  linked,     \* ends of the connection that know it as open
  alive,      \* the PTY runs
  spawns,     \* generations so far
  forwarding  \* the owner forwards it

vars == <<routed, sinks, pending, byRoute, waits, nextId, toOwner, toBroker, linked, alive, spawns, forwarding>>
broker == <<routed, sinks, pending, byRoute, waits, nextId>>
owner == <<alive, spawns, forwarding>>

Ids == 1 .. MaxSubs
OwnerFrames == [kind : {"subscribe"}, id : Ids] \cup {[kind |-> "unsubscribe"]}
BrokerFrames == [kind : {"subscribed"}, id : Ids] \cup {[kind |-> "exit"]}
TypeOK ==
  /\ routed \in BOOLEAN /\ sinks \subseteq Sinks
  /\ pending \subseteq Ids /\ byRoute \in Ids \cup {None}
  /\ waits \in [Sinks -> Ids \cup {None}]
  /\ nextId \in 0 .. MaxSubs
  /\ toOwner \in Seq(OwnerFrames) /\ toBroker \in Seq(BrokerFrames)
  /\ linked \subseteq {"broker", "owner"}
  /\ alive \in BOOLEAN /\ spawns \in 0 .. MaxSpawns /\ forwarding \in BOOLEAN

Init ==
  /\ routed = FALSE /\ sinks = {} /\ pending = {} /\ byRoute = None
  /\ waits = [s \in Sinks |-> None] /\ nextId = 0
  /\ toOwner = <<>> /\ toBroker = <<>> /\ linked = {"broker", "owner"}
  /\ alive = TRUE /\ spawns = 1 /\ forwarding = FALSE

-----------------------------------------------------------------------------
(* The broker.                                                             *)

\* send: a destroyed socket takes nothing.
ToOwner(frame) == toOwner' = IF "broker" \in linked THEN Append(toOwner, frame) ELSE toOwner

\* settle of subscribe id: its promise resolves for everyone who waits on it.
SettledBy(id) == [s \in Sinks |-> IF waits[s] = id THEN None ELSE waits[s]]
\* settleRemoteSubscription
SettleRoute ==
  IF byRoute \in pending
  THEN pending' = pending \ {byRoute} /\ byRoute' = None /\ waits' = SettledBy(byRoute)
  ELSE UNCHANGED <<pending, byRoute, waits>>

\* An answer names the PTY: bindRemotePty.
Resolve ==
  /\ "broker" \in linked /\ ~routed
  /\ routed' = TRUE
  /\ UNCHANGED <<sinks, pending, byRoute, waits, nextId, toOwner, toBroker, linked, owner>>

\* beginRemoteSubscription counts before it names the frame.
FreshId == nextId + 1

\* remoteSubscribe.  Without a route the sink is told the terminal is gone.
Subscribe(s) ==
  /\ s \notin sinks /\ waits[s] = None
  /\ routed /\ sinks' = sinks \cup {s}
  /\ IF sinks = {}
     THEN /\ nextId < MaxSubs /\ nextId' = FreshId
          /\ pending' = pending \cup {nextId'} /\ byRoute' = nextId'
          /\ waits' = [waits EXCEPT ![s] = nextId']
          /\ ToOwner([kind |-> "subscribe", id |-> nextId'])
     ELSE /\ waits' = [waits EXCEPT ![s] = byRoute]
          /\ UNCHANGED <<nextId, pending, byRoute, toOwner>>
  /\ UNCHANGED <<routed, toBroker, linked, owner>>

\* remoteUnsubscribe: the last one stops the owner; the route stays.
Unsubscribe(s) ==
  /\ s \in sinks
  /\ sinks' = sinks \ {s}
  /\ IF sinks = {s}
     THEN SettleRoute /\ IF routed THEN ToOwner([kind |-> "unsubscribe"]) ELSE UNCHANGED toOwner
     ELSE UNCHANGED <<pending, byRoute, waits, toOwner>>
  /\ UNCHANGED <<routed, nextId, toBroker, linked, owner>>

\* The timer of subscribe id: the owner is stopped and everyone told.
Timeout_Silent(id) ==
  /\ id \in pending
  /\ routed' = FALSE /\ sinks' = {}
  /\ pending' = pending \ {id} /\ byRoute' = IF byRoute = id THEN None ELSE byRoute
  /\ waits' = SettledBy(id)
  /\ UNCHANGED <<nextId, toOwner, toBroker, linked, owner>>
Timeout_Unsettled(id) ==
  /\ id \in pending
  /\ ToOwner([kind |-> "unsubscribe"])
  /\ routed' = FALSE /\ sinks' = {}
  /\ pending' = pending \ {id}
  /\ UNCHANGED <<byRoute, waits, nextId, toBroker, linked, owner>>
Timeout(id) ==
  /\ id \in pending
  /\ ToOwner([kind |-> "unsubscribe"])
  /\ routed' = FALSE /\ sinks' = {}
  /\ pending' = pending \ {id} /\ byRoute' = IF byRoute = id THEN None ELSE byRoute
  /\ waits' = SettledBy(id)
  /\ UNCHANGED <<nextId, toBroker, linked, owner>>

\* onServerFrame
BrokerReceives ==
  /\ "broker" \in linked /\ toBroker # <<>>
  /\ toBroker' = Tail(toBroker)
  /\ UNCHANGED <<nextId, toOwner, linked, owner>>
  /\ LET frame == Head(toBroker) IN
     \/ /\ frame.kind = "subscribed"
        /\ pending' = pending \ {frame.id}
        /\ byRoute' = IF frame.id \in pending /\ byRoute = frame.id THEN None ELSE byRoute
        /\ waits' = IF frame.id \in pending THEN SettledBy(frame.id) ELSE waits
        /\ UNCHANGED <<routed, sinks>>
     \/ /\ frame.kind = "exit" /\ routed
        /\ routed' = FALSE /\ sinks' = {}
        /\ SettleRoute
     \/ /\ frame.kind = "exit" /\ ~routed
        /\ UNCHANGED <<routed, sinks, pending, byRoute, waits>>

\* dropClient, when the connection closed.
DropClient ==
  /\ linked = {"broker"}
  /\ linked' = {}
  /\ IF routed THEN routed' = FALSE /\ sinks' = {} /\ SettleRoute
               ELSE UNCHANGED <<routed, sinks, pending, byRoute, waits>>
  /\ UNCHANGED <<nextId, toOwner, toBroker, owner>>

-----------------------------------------------------------------------------
(* The owner.                                                              *)

\* respondTo: only to the socket that is still the broker's.
ToBroker(frames) == toBroker' = IF "owner" \in linked THEN toBroker \o frames ELSE toBroker

\* onClientFrame: a dead PTY replays its exit before the acknowledgement, and
\* what that spent is not kept.
InstallsOn_Spent(live) == TRUE
InstallsOn(live) == forwarding \/ live
OwnerReceives ==
  /\ "owner" \in linked /\ toOwner # <<>>
  /\ toOwner' = Tail(toOwner)
  /\ UNCHANGED <<broker, linked, alive, spawns>>
  /\ LET frame == Head(toOwner) IN
     \/ /\ frame.kind = "subscribe"
        /\ forwarding' = InstallsOn(alive)
        /\ ToBroker((IF forwarding \/ alive THEN <<>> ELSE <<[kind |-> "exit"]>>)
                    \o <<[kind |-> "subscribed", id |-> frame.id]>>)
     \/ /\ frame.kind = "unsubscribe"
        /\ forwarding' = FALSE
        /\ UNCHANGED toBroker

\* The PTY exits: the stream registry tells the sink and drops it.
PtyExits ==
  /\ alive /\ alive' = FALSE
  /\ forwarding' = FALSE
  /\ ToBroker(IF forwarding THEN <<[kind |-> "exit"]>> ELSE <<>>)
  /\ UNCHANGED <<broker, toOwner, linked, spawns>>

\* A new generation under the same id.
PtySpawns ==
  /\ ~alive /\ spawns < MaxSpawns
  /\ alive' = TRUE /\ spawns' = spawns + 1
  /\ UNCHANGED <<broker, toOwner, toBroker, linked, forwarding>>

\* The owner's end closes: stopForwarding.
OwnerDrops ==
  /\ "owner" \in linked
  /\ linked' = linked \ {"owner"} /\ forwarding' = FALSE
  /\ UNCHANGED <<broker, toOwner, toBroker, alive, spawns>>

-----------------------------------------------------------------------------
Next ==
  \/ Resolve \/ DropClient
  \/ \E s \in Sinks : Subscribe(s) \/ Unsubscribe(s)
  \/ \E id \in Ids : Timeout(id)
  \/ BrokerReceives \/ OwnerReceives \/ PtyExits \/ PtySpawns \/ OwnerDrops

Spec == Init /\ [][Next]_vars

\* Frames on an open connection arrive, a closed one is noticed, timers fire.
FairSpec ==
  Spec /\ WF_vars(BrokerReceives) /\ WF_vars(OwnerReceives) /\ WF_vars(DropClient)
       /\ \A id \in Ids : WF_vars(Timeout(id))

-----------------------------------------------------------------------------
(* Properties.                                                             *)

Ready(s) == s \in sinks /\ waits[s] = None
Told(kind, frames) == \E i \in DOMAIN frames : frames[i].kind = kind

\* A sink that was told it is attached has a live stream, or the end of it is
\* on its way (the subscribe case of onClientFrame, beginRemoteSubscription).
AttachedHasStream ==
  \A s \in Sinks : Ready(s) => (forwarding /\ alive) \/ Told("exit", toBroker) \/ "owner" \notin linked

\* The owner forwards to nobody only while the frame that stops it is under way
\* (remoteUnsubscribe, the timeout of beginRemoteSubscription).  Of the first
\* generation only: a second one that starts while a subscribe is under way is
\* forwarded to a broker that dropped its route at the exit of the first.
NoOrphanStream ==
  (spawns = 1 /\ forwarding /\ sinks = {}) => Told("unsubscribe", toOwner) \/ Told("exit", toBroker)

\* Every attach is answered (ready, exit or timeout), and none waits for a
\* subscribe nobody tracks.
AttachIsAnswered == \A s \in Sinks : waits[s] # None ~> waits[s] = None
=============================================================================
