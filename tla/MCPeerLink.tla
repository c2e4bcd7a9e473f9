----------------------------- MODULE MCPeerLink -----------------------------
(* Who is connected, one part in each behaviour: the windows elect their     *)
(* broker (PeerElection), it watches a terminal of another window            *)
(* (PeerStreams), and the Relay's sweeps end what was revoked (RelayHub).    *)
EXTENDS PeerElection, Naturals

CONSTANTS
  w1, w2, Sinks, MaxSubs, MaxSpawns,
  Burrows, BurrowSockets, ClientSockets, MaxClientSockets, MaxFileSwaps

VARIABLES
  part,
  routed, sinks, pending, byRoute, waits, nextId, toOwner, toBroker, linked, alive, spawns, forwarding,
  rows, present, editor, enrolment, everEnrolled, deleted, overwritten, fileSwaps,
  owner, bsock, bcode, csock, session, burrows, clients, binding, sweep, relayTold, inited, lastRouted

Streams == INSTANCE PeerStreams
Hub == INSTANCE RelayHub WITH told <- relayTold

streams == <<routed, sinks, pending, byRoute, waits, nextId, toOwner, toBroker, linked, alive, spawns, forwarding>>
relay == <<rows, present, editor, enrolment, everEnrolled, deleted, overwritten, fileSwaps,
           owner, bsock, bcode, csock, session, burrows, clients, binding, sweep, relayTold, inited, lastRouted>>
parts == <<vars, streams, relay>>

MCInit ==
  /\ part \in {"election", "streams", "hub"}
  /\ Init /\ Streams!Init /\ Hub!Init
  /\ part = "election" \/ path = None

Only(p) == part = p /\ UNCHANGED part
InElection == Only("election") /\ UNCHANGED <<streams, relay>>
InStreams == Only("streams") /\ UNCHANGED <<vars, relay>>
InHub == Only("hub") /\ UNCHANGED <<vars, streams>>

\* The next-state relations of the three, with the others at rest.
MCNext ==
  \/ \E w \in Windows :
       \/ InElection /\ Open(w)
       \/ InElection /\ StandDown(w)
       \/ InElection /\ ReadToken(w)
       \/ InElection /\ CreateToken(w)
       \/ InElection /\ WriteToken(w)
       \/ InElection /\ Bind(w)
       \/ InElection /\ Dial(w)
       \/ InElection /\ Welcomed(w)
       \/ InElection /\ HandshakeFails(w)
       \/ InElection /\ Redial(w)
       \/ InElection /\ Clear(w)
       \/ InElection /\ Rebind(w)
       \/ InElection /\ FirstStat(w)
       \/ InElection /\ SecondStat(w)
       \/ InElection /\ Drop(w)
       \/ InElection /\ RemovePath(w)
       \/ InElection /\ Dispose(w)
       \/ InElection /\ Crash(w)
  \/ InStreams /\ Streams!Resolve
  \/ InStreams /\ Streams!DropClient
  \/ InStreams /\ Streams!BrokerReceives
  \/ InStreams /\ Streams!OwnerReceives
  \/ InStreams /\ Streams!PtyExits
  \/ InStreams /\ Streams!PtySpawns
  \/ InStreams /\ Streams!OwnerDrops
  \/ \E s \in Sinks : InStreams /\ Streams!Subscribe(s)
  \/ \E s \in Sinks : InStreams /\ Streams!Unsubscribe(s)
  \/ \E id \in 1 .. MaxSubs : InStreams /\ Streams!Timeout(id)
  \/ \E b \in Burrows :
       \/ InHub /\ Hub!EnrollWrite(b) /\ Hub!HubRests
       \/ InHub /\ Hub!Revoke(b) /\ Hub!HubRests
  \/ InHub /\ Hub!EnrollRead /\ Hub!HubRests
  \/ InHub /\ Hub!EnrollFails /\ Hub!HubRests
  \/ InHub /\ Hub!FileVanishes /\ Hub!HubRests
  \/ InHub /\ Hub!FileReturns /\ Hub!HubRests
  \/ \E s \in BurrowSockets, b \in Burrows : InHub /\ Hub!AuthoriseBurrow(s, b)
  \/ \E s \in BurrowSockets :
       \/ InHub /\ Hub!OpenBurrow(s)
       \/ InHub /\ Hub!BurrowClosed(s)
       \/ InHub /\ Hub!IdleBurrow(s)
  \/ \E s \in BurrowSockets, c \in ClientSockets : InHub /\ Hub!BurrowFrame(s, c)
  \/ \E c \in ClientSockets :
       \/ InHub /\ Hub!OpenClient(c)
       \/ InHub /\ Hub!ClientClosed(c)
       \/ InHub /\ Hub!IdleClient(c)
       \/ InHub /\ Hub!SessionExpires(c)
  \/ \E c \in ClientSockets, b \in Burrows :
       \/ InHub /\ Hub!ClientInit(c, b)
       \/ InHub /\ Hub!ClientTransport(c, b)
  \/ InHub /\ Hub!CloseExpiredClients
  \/ InHub /\ Hub!SweepBegin
  \/ InHub /\ Hub!SweepRead
  \/ InHub /\ Hub!SweepClose

\* The fairness of each part.
MCSpec ==
  /\ MCInit /\ [][MCNext]_<<part, parts>>
  /\ \A w \in Windows :
       /\ WF_parts(InElection /\ Step(w))
       /\ SF_parts(InElection /\ Welcomed(w))
  /\ WF_parts(InStreams /\ Streams!BrokerReceives)
  /\ WF_parts(InStreams /\ Streams!OwnerReceives)
  /\ WF_parts(InStreams /\ Streams!DropClient)
  /\ \A id \in 1 .. MaxSubs : WF_parts(InStreams /\ Streams!Timeout(id))
  /\ WF_parts(InHub /\ Hub!SweepBegin) /\ WF_parts(InHub /\ Hub!SweepRead)
  /\ WF_parts(InHub /\ Hub!SweepClose) /\ WF_parts(InHub /\ Hub!FileReturns /\ Hub!HubRests)
  /\ WF_parts(InHub /\ Hub!CloseExpiredClients)
  /\ \A s \in BurrowSockets : WF_parts(InHub /\ Hub!OpenBurrow(s))

\* AttachedHasStream of PeerStreams: a sink told it is attached has a live
\* stream, or the end of it is on its way.
AttachedHasStream == Streams!AttachedHasStream

\* NoOrphanStream of PeerStreams: the owner forwards to nobody only while the
\* frame that stops it is under way.
NoOrphanStream == Streams!TypeOK /\ Streams!NoOrphanStream

\* AttachIsAnswered of PeerStreams: every attach is answered.
AttachIsAnswered == Streams!AttachIsAnswered

\* SweepsTakeEffect of RelayHub: what was revoked or expired ends up offline.
SweepsTakeEffect == Hub!SweepsTakeEffect
=============================================================================
