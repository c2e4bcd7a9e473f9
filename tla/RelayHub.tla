------------------------------ MODULE RelayHub ------------------------------
(***************************************************************************)
(* The selfhost Relay's in-memory hub (relay/src/relay.ts) with the socket *)
(* handlers and the two sweeps that drive it (relay/src/app.ts).           *)
(*                                                                         *)
(* One action per handler.  Node runs a handler to completion, so the      *)
(* interleaving is that of events: frames that were buffered before a      *)
(* socket was displaced, expired or found idle still arrive afterwards on  *)
(* the same connection, because close() only starts a handshake; and the   *)
(* revocation sweep awaits a file read between listing the Burrows that    *)
(* are online and closing those that are no longer enrolled.  The file is  *)
(* BurrowsFile.                                                            *)
(*                                                                         *)
(* Sockets are used once.  "told" and "inited" record what the frames the  *)
(* hub sent so far tell the two peers (a socket is FIFO, so what was sent  *)
(* is what the peer will have read when it has caught up).                 *)
(***************************************************************************)
EXTENDS BurrowsFile, FiniteSets

CONSTANTS
  BurrowSockets,     \* one WebSocket connection each on /ws/burrow
  ClientSockets,     \* one WebSocket connection each on /ws/client
  MaxClientSockets,  \* MAX_RELAY_CLIENT_SOCKETS
  None               \* no burrow, no socket

ASSUME NoneAssumption == None \notin Burrows \cup BurrowSockets \cup ClientSockets
ASSUME BoundsAssumption ==
  IsFiniteSet(ClientSockets) /\ MaxClientSockets \in Nat

VARIABLES
  owner,        \* burrowId the upgrade authorised for a Burrow socket
  bsock,        \* state of each Burrow socket
  bcode,        \* close code the Relay gave a Burrow socket
  csock,        \* state of each Client socket
  session,      \* "live" or "expired": the session behind a Client socket
  burrows,      \* #burrows: burrowId -> the socket that owns it, or None
  clients,      \* keys of #clients
  binding,      \* ClientConn.burrowId (never cleared on teardown)
  sweep,        \* the revocation sweep: what it has read so far
  told,         \* clients whose init a Burrow socket got with no client-gone since
  inited,       \* socket that got a Client's last init, None once told burrow-gone
  lastRouted    \* the e2e frame the last step forwarded, or NoFrame

vars == <<file, owner, bsock, bcode, csock,
          session, burrows, clients, binding, sweep, told, inited, lastRouted>>
hub  == <<burrows, clients, binding, told, inited>>

SocketState == {"unused", "authorised", "open", "closing", "closed"}
NoFrame == [dir |-> "none"]
ToBurrow(c, s, step) == [dir |-> "toBurrow", client |-> c, socket |-> s, step |-> step]
ToClient(s, c) == [dir |-> "toClient", client |-> c, socket |-> s]

TypeOK ==
  /\ FileTypeOK
  /\ owner \in [BurrowSockets -> Burrows \cup {None}]
  /\ bsock \in [BurrowSockets -> SocketState]
  /\ bcode \in [BurrowSockets -> {"none", "replaced", "revoked", "idle"}]
  /\ csock \in [ClientSockets -> SocketState]
  /\ session \in [ClientSockets -> {"live", "expired"}]
  /\ burrows \in [Burrows -> BurrowSockets \cup {None}]
  /\ clients \subseteq ClientSockets
  /\ binding \in [ClientSockets -> Burrows \cup {None}]
  /\ sweep \in {Idle}
        \cup [phase : {"reading"}, online : SUBSET Burrows]
        \cup [phase : {"closing"}, online : SUBSET Burrows, rows : SUBSET Burrows]
  /\ told \in [BurrowSockets -> SUBSET ClientSockets]
  /\ inited \in [ClientSockets -> BurrowSockets \cup {None}]
  /\ lastRouted \in {NoFrame}
        \cup [dir : {"toBurrow"}, client : ClientSockets, socket : BurrowSockets,
              step : {"init", "transport"}]
        \cup [dir : {"toClient"}, client : ClientSockets, socket : BurrowSockets]

Init ==
  /\ FileInit
  /\ owner = [s \in BurrowSockets |-> None]
  /\ bsock = [s \in BurrowSockets |-> "unused"]
  /\ bcode = [s \in BurrowSockets |-> "none"]
  /\ csock = [c \in ClientSockets |-> "unused"]
  /\ session = [c \in ClientSockets |-> "live"]
  /\ burrows = [b \in Burrows |-> None]
  /\ clients = {}
  /\ binding = [c \in ClientSockets |-> None]
  /\ sweep = Idle
  /\ told = [s \in BurrowSockets |-> {}]
  /\ inited = [c \in ClientSockets |-> None]
  /\ lastRouted = NoFrame

-----------------------------------------------------------------------------
(* Hub operations shared by the handlers.                                  *)

BoundTo(b) == {c \in clients : binding[c] = b}

\* A handler holds the conn it registered: it acts only while the map still
\* points at that conn.
IsCurrent_AnyConn(s) == owner[s] # None
IsCurrent(s) == owner[s] # None /\ burrows[owner[s]] = s
Registered_WhileSocketLives(c) == csock[c] # "unused"
Registered(c) == c \in clients

DropClientsOf_OnlyOnDisconnect(b) == UNCHANGED <<binding, inited>>
\* #dropClientsOf(b): every client bound to b is told burrow-gone and unbound.
DropClientsOf(b) ==
  /\ binding' = [c \in ClientSockets |-> IF c \in BoundTo(b) THEN None ELSE binding[c]]
  /\ inited' = [c \in ClientSockets |-> IF c \in BoundTo(b) THEN None ELSE inited[c]]

\* unregisterBurrow(conn of s), guarded: a displaced socket is a no-op.
UnregisterBurrow(s) ==
  IF IsCurrent(s)
  THEN /\ burrows' = [burrows EXCEPT ![owner[s]] = None]
       /\ DropClientsOf(owner[s])
       /\ UNCHANGED <<clients, told>>
  ELSE UNCHANGED hub

GoneFrom_Untold(s, C) == {}
\* Clients that client-gone is sent for when the conns in C are torn down.
GoneFrom(s, C) == {c \in C \cap clients : binding[c] # None /\ burrows[binding[c]] = s}

\* unregisterClient for every conn in C; a conn already torn down is a no-op.
UnregisterClients(C) ==
  /\ clients' = clients \ C
  /\ told' = [s \in BurrowSockets |-> told[s] \ GoneFrom(s, C)]
  /\ UNCHANGED <<burrows, binding, inited>>

-----------------------------------------------------------------------------
(* burrows.json changes; the hub hears of it when it reads it next.        *)

HubRests ==
  /\ lastRouted' = NoFrame
  /\ UNCHANGED <<owner, bsock, bcode, csock, session, hub, sweep>>

-----------------------------------------------------------------------------
(* /ws/burrow.                                                             *)

\* The upgrade middleware: findByToken reads an absent file as no rows.
AuthoriseBurrow(s, b) ==
  /\ bsock[s] = "unused" /\ b \in rows
  /\ bsock' = [bsock EXCEPT ![s] = "authorised"]
  /\ owner' = [owner EXCEPT ![s] = b]
  /\ lastRouted' = NoFrame
  /\ UNCHANGED <<file, bcode, csock, session, hub, sweep>>

\* onOpen: registerBurrow.  The row may have been deleted since the upgrade.
OpenBurrow(s) ==
  LET b == owner[s]
      existing == burrows[b]
  IN /\ bsock[s] = "authorised"
     /\ burrows' = [burrows EXCEPT ![b] = s]
     /\ bsock' = [t \in BurrowSockets |->
                    IF t = s THEN "open"
                    ELSE IF t = existing THEN "closing" ELSE bsock[t]]
     /\ bcode' = [t \in BurrowSockets |-> IF t = existing THEN "replaced" ELSE bcode[t]]
     /\ IF existing # None THEN DropClientsOf(b) ELSE UNCHANGED <<binding, inited>>
     /\ lastRouted' = NoFrame
     /\ UNCHANGED <<file, owner, csock, session, clients, sweep, told>>

\* onMessage: onBurrowFrame for a well-formed frame addressed to c.  The frame
\* may name any clientId: the hub relies on its own maps, not on the peer.
BurrowFrame(s, c) ==
  /\ bsock[s] \in {"open", "closing"}
  /\ IF /\ IsCurrent(s)
        /\ Registered(c)
        /\ binding[c] = owner[s]
     THEN lastRouted' = ToClient(s, c)
     ELSE lastRouted' = NoFrame
  /\ UNCHANGED <<file, owner, bsock, bcode, csock, session, hub, sweep>>

\* onClose: the handshake ended or the connection dropped.
BurrowClosed(s) ==
  /\ bsock[s] \in {"open", "closing"}
  /\ bsock' = [bsock EXCEPT ![s] = "closed"]
  /\ UnregisterBurrow(s)
  /\ lastRouted' = NoFrame
  /\ UNCHANGED <<file, owner, bcode, csock, session, sweep>>

\* sweepRelaySockets, the idle half: unregister first, then start the close.
IdleBurrow(s) ==
  /\ bsock[s] = "open"
  /\ bsock' = [bsock EXCEPT ![s] = "closing"]
  /\ bcode' = [bcode EXCEPT ![s] = "idle"]
  /\ UnregisterBurrow(s)
  /\ lastRouted' = NoFrame
  /\ UNCHANGED <<file, owner, csock, session, sweep>>

-----------------------------------------------------------------------------
(* /ws/client.                                                             *)

HasRoom == Cardinality(clients) < MaxClientSockets

\* onOpen: the session is validated again, then registerClient, which refuses
\* at the cap and closes the new socket instead of evicting another.
OpenClient(c) ==
  /\ csock[c] = "unused"
  /\ IF session[c] = "live" /\ HasRoom
     THEN /\ csock' = [csock EXCEPT ![c] = "open"]
          /\ clients' = clients \cup {c}
     ELSE /\ csock' = [csock EXCEPT ![c] = "closing"]
          /\ UNCHANGED clients
  /\ lastRouted' = NoFrame
  /\ UNCHANGED <<file, owner, bsock, bcode, session, burrows, binding, sweep, told, inited>>

\* onMessage: onClientFrame with step "init" naming b.  #bindClientToBurrow
\* tells the previous Burrow client-gone, then the init is forwarded.
ClientInit(c, b) ==
  LET s == burrows[b]
      previous == IF binding[c] \in Burrows \ {b} THEN burrows[binding[c]] ELSE None
  IN /\ csock[c] \in {"open", "closing"}
     /\ IF Registered(c) /\ s # None
        THEN /\ binding' = [binding EXCEPT ![c] = b]
             /\ told' = [t \in BurrowSockets |->
                           IF t = s THEN told[t] \cup {c}
                           ELSE IF t = previous THEN told[t] \ {c} ELSE told[t]]
             /\ inited' = [inited EXCEPT ![c] = s]
             /\ lastRouted' = ToBurrow(c, s, "init")
        ELSE /\ lastRouted' = NoFrame
             /\ UNCHANGED <<binding, told, inited>>
     /\ UNCHANGED <<file, owner, bsock, bcode, csock, session, burrows, clients, sweep>>

\* onMessage: onClientFrame with step "transport" naming b: only within the
\* binding.
ClientTransport(c, b) ==
  /\ csock[c] \in {"open", "closing"}
  /\ IF /\ Registered(c)
        /\ burrows[b] # None
        /\ binding[c] = b
     THEN lastRouted' = ToBurrow(c, burrows[b], "transport")
     ELSE lastRouted' = NoFrame
  /\ UNCHANGED <<file, owner, bsock, bcode, csock, session, hub, sweep>>

ClientClosed(c) ==
  /\ csock[c] \in {"open", "closing"}
  /\ csock' = [csock EXCEPT ![c] = "closed"]
  /\ UnregisterClients({c})
  /\ lastRouted' = NoFrame
  /\ UNCHANGED <<file, owner, bsock, bcode, session, sweep>>

IdleClient(c) ==
  /\ csock[c] = "open"
  /\ csock' = [csock EXCEPT ![c] = "closing"]
  /\ UnregisterClients({c})
  /\ lastRouted' = NoFrame
  /\ UNCHANGED <<file, owner, bsock, bcode, session, sweep>>

SessionExpires(c) ==
  /\ session[c] = "live"
  /\ session' = [session EXCEPT ![c] = "expired"]
  /\ lastRouted' = NoFrame
  /\ UNCHANGED <<file, owner, bsock, bcode, csock, hub, sweep>>

Expired_None == {}
\* sweepRelaySockets, the expiry half: closeExpiredClients.
Expired == {c \in clients : session[c] = "expired"}
CloseExpiredClients ==
  /\ Expired # {}
  /\ csock' = [c \in ClientSockets |-> IF c \in Expired THEN "closing" ELSE csock[c]]
  /\ UnregisterClients(Expired)
  /\ lastRouted' = NoFrame
  /\ UNCHANGED <<file, owner, bsock, bcode, session, sweep>>

-----------------------------------------------------------------------------
(* sweepRevokedBurrows: list who is online, await the file, close.         *)

OnlineBurrowIds == {b \in Burrows : burrows[b] # None}

SweepBegin ==
  /\ sweep = Idle /\ OnlineBurrowIds # {}
  /\ sweep' = [phase |-> "reading", online |-> OnlineBurrowIds]
  /\ lastRouted' = NoFrame
  /\ UNCHANGED <<file, owner, bsock, bcode, csock, session, hub>>

AnswerRead_AbsentIsEmpty == TRUE
AnswerRead == present

\* listIfPresent: nothing is closed on an answer that was not read.
SweepRead ==
  /\ sweep.phase = "reading"
  /\ sweep' = IF AnswerRead
              THEN [phase |-> "closing", online |-> sweep.online, rows |-> rows]
              ELSE Idle
  /\ lastRouted' = NoFrame
  /\ UNCHANGED <<file, owner, bsock, bcode, csock, session, hub>>

ToEvict_Nobody == {}
\* closeBurrow for every listed Burrow the rows omit.
ToEvict == {b \in OnlineBurrowIds : b \in sweep.online \ sweep.rows}
SweepClose ==
  /\ sweep.phase = "closing"
  /\ sweep' = Idle
  /\ LET evicted == {burrows[b] : b \in ToEvict}
         dropped == {c \in clients : binding[c] \in ToEvict}
     IN /\ burrows' = [b \in Burrows |-> IF b \in ToEvict THEN None ELSE burrows[b]]
        /\ bsock' = [s \in BurrowSockets |-> IF s \in evicted THEN "closing" ELSE bsock[s]]
        /\ bcode' = [s \in BurrowSockets |-> IF s \in evicted THEN "revoked" ELSE bcode[s]]
        /\ binding' = [c \in ClientSockets |-> IF c \in dropped THEN None ELSE binding[c]]
        /\ inited' = [c \in ClientSockets |-> IF c \in dropped THEN None ELSE inited[c]]
  /\ lastRouted' = NoFrame
  /\ UNCHANGED <<file, owner, csock, session, clients, told>>

-----------------------------------------------------------------------------
Next ==
  \/ EnrollRead /\ HubRests
  \/ EnrollFails /\ HubRests
  \/ \E b \in Burrows : EnrollWrite(b) /\ HubRests
  \/ \E b \in Burrows : Revoke(b) /\ HubRests
  \/ FileVanishes /\ HubRests
  \/ FileReturns /\ HubRests
  \/ \E s \in BurrowSockets, b \in Burrows : AuthoriseBurrow(s, b)
  \/ \E s \in BurrowSockets : OpenBurrow(s) \/ BurrowClosed(s) \/ IdleBurrow(s)
  \/ \E s \in BurrowSockets, c \in ClientSockets : BurrowFrame(s, c)
  \/ \E c \in ClientSockets : OpenClient(c) \/ ClientClosed(c) \/ IdleClient(c) \/ SessionExpires(c)
  \/ \E c \in ClientSockets, b \in Burrows : ClientInit(c, b) \/ ClientTransport(c, b)
  \/ CloseExpiredClients
  \/ SweepBegin \/ SweepRead \/ SweepClose

Spec == Init /\ [][Next]_vars

\* The intervals of index.ts keep running the two sweeps, reads complete, an
\* editor's rename puts the file back, and an upgrade that was authorised ends.
Fairness ==
  /\ WF_vars(SweepBegin) /\ WF_vars(SweepRead) /\ WF_vars(SweepClose)
  /\ WF_vars(CloseExpiredClients)
  /\ WF_vars(FileReturns /\ HubRests)
  /\ \A s \in BurrowSockets : WF_vars(OpenBurrow(s))

FairSpec == Spec /\ Fairness

-----------------------------------------------------------------------------
(* Properties.                                                             *)

\* What the frames the hub sent tell the Burrow that owns a burrowId is what
\* the hub routes by: the Burrow has live ceremonies for exactly the clients
\* bound to it.  A missed client-gone or a binding inherited by a replacement
\* breaks it (registerBurrow, unregisterClient, #bindClientToBurrow).
BurrowKnowsItsClients ==
  \A b \in Burrows : burrows[b] # None => told[burrows[b]] = BoundTo(b)

\* The same for the Client: it believes it talks to a Burrow process exactly
\* when its binding leads to that very process, not to a successor that never
\* saw its handshake (registerBurrow, unregisterBurrow, #dropClientsOf).
ClientKnowsItsBurrow ==
  \A c \in clients :
    inited[c] = IF binding[c] = None THEN None ELSE burrows[binding[c]]

\* A frame is only ever routed inside the handshake it belongs to: between a
\* Client and the one Burrow process that received that Client's last init,
\* whatever was buffered on either socket (onBurrowFrame, onClientFrame).
RoutedWithinHandshake ==
  lastRouted # NoFrame =>
    /\ inited[lastRouted.client] = lastRouted.socket
    /\ lastRouted.client \in told[lastRouted.socket]

\* After the hub started to close a Client's socket, because its session
\* expired, it went idle or there was no room, no buffered frame of it opens or
\* continues a ceremony (the guard at the top of onClientFrame).
NothingRoutedAfterClose ==
  lastRouted # NoFrame => csock[lastRouted.client] = "open"

\* So nothing is forwarded outside a ceremony two open sockets agree on
\* (onBurrowFrame, onClientFrame).
ForwardingIsSound == RoutedWithinHandshake /\ NothingRoutedAfterClose

\* MAX_RELAY_CLIENT_SOCKETS is never exceeded (registerClient).
WithinSocketCap == Cardinality(clients) <= MaxClientSockets

\* The revocation sweep evicts a Burrow only if an operator deleted its row or
\* a write dropped it: that the file is absent while an editor replaces it ends
\* no connection, although Burrows enrol and connect while the sweep reads, and
\* the file comes and goes (sweepRevokedBurrows, listIfPresent).
SweepSparesEnrolled ==
  \A s \in BurrowSockets : bcode[s] = "revoked" => owner[s] \in deleted \cup overwritten

\* What the comment above listIfPresent promises of revocation by hand, and the
\* list() in enroll does not keep: only a deleted row ends a connection.
OnlyDeletedAreEvicted ==
  \A s \in BurrowSockets : bcode[s] = "revoked" => owner[s] \in deleted

\* The inductive invariants behind the safety properties: what the hub's maps
\* say of a socket agrees with how far that socket got.
MapsAgree ==
  /\ \A b \in Burrows : burrows[b] # None =>
        owner[burrows[b]] = b /\ bsock[burrows[b]] = "open"
  /\ \A s \in BurrowSockets :
        /\ bsock[s] = "unused" => owner[s] = None
        /\ bsock[s] # "unused" => owner[s] \in Burrows
        /\ bsock[s] \in {"unused", "authorised"} => told[s] = {} /\ bcode[s] = "none"
  /\ \A c \in ClientSockets :
        /\ c \in clients => csock[c] = "open"
        /\ csock[c] = "unused" => binding[c] = None /\ inited[c] = None
  /\ \A c \in clients : binding[c] # None => burrows[binding[c]] # None
SweepAgrees ==
  /\ RowsAccounted
  /\ \A s \in BurrowSockets :
        /\ owner[s] # None => owner[s] \in everEnrolled
        /\ bcode[s] = "revoked" => owner[s] \in deleted \cup overwritten
  /\ sweep.phase # "idle" => sweep.online \subseteq everEnrolled
  /\ sweep.phase = "closing" => sweep.online \ sweep.rows \subseteq deleted \cup overwritten
Inv == TypeOK /\ MapsAgree /\ BurrowKnowsItsClients /\ ClientKnowsItsBurrow

\* A Burrow whose row is gone and not written back ends up offline for good,
\* even if its upgrade was authorised before (sweepRevokedBurrows).
RevokedGoesOffline ==
  \A b \in Burrows : <>[](b \notin rows) => <>[](burrows[b] = None)

\* A Client whose session expires is closed (closeExpiredClients).
ExpiredIsClosed ==
  \A c \in ClientSockets : session[c] = "expired" ~> [](c \notin clients)

\* The two sweeps reach whatever the upgrade gates let through before it was
\* revoked or expired.
SweepsTakeEffect == RevokedGoesOffline /\ ExpiredIsClosed
=============================================================================
