-------------------------- MODULE RelayHub_proofs --------------------------
(***************************************************************************)
(* Proofs about RelayHub, for every set of Burrows and sockets.            *)
(***************************************************************************)
EXTENDS RelayHub, FiniteSetTheorems, TLAPS

\* A change of burrows.json, beside which the hub rests.
FileStep ==
  /\ \/ EnrollRead \/ EnrollFails \/ FileVanishes \/ FileReturns
     \/ \E b \in Burrows : EnrollWrite(b) \/ Revoke(b)
  /\ HubRests

\* burrows.json stays typed, and accounts for every Burrow that was enrolled.
LEMMA FileKeeps ==
  ASSUME FileTypeOK, FileNext
  PROVE  FileTypeOK'
<1> USE MaxFileSwapsAssumption DEF FileTypeOK, Idle
<1>1. CASE EnrollRead \/ EnrollFails
  BY <1>1 DEF EnrollRead, EnrollFails
<1>2. ASSUME NEW b \in Burrows, EnrollWrite(b) PROVE FileTypeOK'
  <2>1. enrolment.rows \subseteq Burrows
    BY <1>2 DEF EnrollWrite
  <2>2. Held \subseteq Burrows
    BY DEF Held
  <2>3. /\ rows' = enrolment.rows \cup {b} /\ present' = TRUE
        /\ overwritten' = overwritten \cup (Held \ (enrolment.rows \cup {b}))
        /\ enrolment' = Idle /\ everEnrolled' = everEnrolled \cup {b}
        /\ UNCHANGED <<editor, deleted, fileSwaps>>
    BY <1>2 DEF EnrollWrite, Replace
  <2> QED BY <2>1, <2>2, <2>3
<1>3. ASSUME NEW b \in Burrows, Revoke(b) PROVE FileTypeOK'
  BY <1>3 DEF Revoke
<1>4. CASE FileVanishes
  <2>1. fileSwaps' \in 0 .. MaxFileSwaps
    BY <1>4 DEF FileVanishes
  <2>2. /\ editor' = [phase |-> "replacing", rows |-> rows] /\ rows' = {} /\ present' = FALSE
        /\ UNCHANGED <<enrolment, everEnrolled, deleted, overwritten>>
    BY <1>4 DEF FileVanishes
  <2> QED BY <2>1, <2>2
<1>5. CASE FileReturns
  BY <1>5 DEF FileReturns, Replace
<1> QED BY <1>1, <1>2, <1>3, <1>4, <1>5 DEF FileNext

\* A row that goes was deleted, dropped by a write, or is in the editor's hands.
LEMMA RowsStayAccounted ==
  ASSUME FileTypeOK, RowsAccounted, FileNext
  PROVE  /\ RowsAccounted'
         /\ everEnrolled \subseteq everEnrolled'
         /\ deleted \subseteq deleted' /\ overwritten \subseteq overwritten'
<1> USE DEF FileTypeOK, RowsAccounted, Held, Idle
<1>1. CASE EnrollRead \/ EnrollFails
  BY <1>1 DEF EnrollRead, EnrollFails
<1>2. ASSUME NEW b \in Burrows, EnrollWrite(b)
      PROVE  /\ RowsAccounted'
             /\ everEnrolled \subseteq everEnrolled'
             /\ deleted \subseteq deleted' /\ overwritten \subseteq overwritten'
  <2>1. enrolment.rows \subseteq everEnrolled
    BY <1>2 DEF EnrollWrite
  <2>2. /\ rows' = enrolment.rows \cup {b} /\ present' = TRUE
        /\ overwritten' = overwritten \cup (Held \ (enrolment.rows \cup {b}))
        /\ enrolment' = Idle /\ everEnrolled' = everEnrolled \cup {b}
        /\ UNCHANGED <<editor, deleted, fileSwaps>>
    BY <1>2 DEF EnrollWrite, Replace
  <2>3. everEnrolled' \subseteq rows' \cup deleted' \cup overwritten'
    BY <2>2
  <2> QED BY <2>1, <2>2, <2>3
<1>3. ASSUME NEW b \in Burrows, Revoke(b)
      PROVE  /\ RowsAccounted'
             /\ everEnrolled \subseteq everEnrolled'
             /\ deleted \subseteq deleted' /\ overwritten \subseteq overwritten'
  BY <1>3 DEF Revoke
<1>4. CASE FileVanishes
  BY <1>4 DEF FileVanishes
<1>5. CASE FileReturns
  <2>1. /\ rows' = editor.rows /\ present' = TRUE /\ editor' = Idle /\ editor # Idle
        /\ overwritten' = overwritten \cup (rows \ editor.rows)
        /\ UNCHANGED <<enrolment, everEnrolled, deleted, fileSwaps>>
    BY <1>5 DEF FileReturns, Replace
  <2>2. everEnrolled \subseteq rows' \cup deleted' \cup overwritten'
    BY <2>1
  <2> QED BY <2>1, <2>2
<1> QED BY <1>1, <1>2, <1>3, <1>4, <1>5 DEF FileNext

\* The typed state stays typed under every handler.
LEMMA TypeStep == TypeOK /\ MapsAgree /\ [Next]_vars => TypeOK'
<1> SUFFICES ASSUME TypeOK, MapsAgree, [Next]_vars PROVE TypeOK'
  OBVIOUS
<1> USE BoundsAssumption DEF TypeOK, SocketState, NoFrame, ToBurrow, ToClient, Idle, hub
<1>0. UNCHANGED file => FileTypeOK'
  BY DEF FileTypeOK, file
<1> USE <1>0
<1>1. CASE UNCHANGED vars
  BY <1>1 DEF vars
<1>2. CASE FileStep
  <2>1. FileTypeOK'
    BY <1>2, FileKeeps DEF FileStep, FileNext
  <2>2. QED
    BY <1>2, <2>1 DEF FileStep, HubRests
<1>4. ASSUME NEW s \in BurrowSockets, NEW b \in Burrows, AuthoriseBurrow(s, b) PROVE TypeOK'
  BY <1>4 DEF AuthoriseBurrow
<1>5. ASSUME NEW s \in BurrowSockets, OpenBurrow(s) PROVE TypeOK'
  <2>1. owner[s] \in Burrows
    BY <1>5 DEF OpenBurrow, MapsAgree
  <2>2. burrows' \in [Burrows -> BurrowSockets \cup {None}] /\ bsock' \in [BurrowSockets -> SocketState]
    BY <1>5, <2>1 DEF OpenBurrow
  <2>3. bcode' \in [BurrowSockets -> {"none", "replaced", "revoked", "idle"}]
    BY <1>5 DEF OpenBurrow
  <2>4. /\ binding' \in [ClientSockets -> Burrows \cup {None}]
        /\ inited' \in [ClientSockets -> BurrowSockets \cup {None}]
    BY <1>5 DEF OpenBurrow, DropClientsOf
  <2>5. QED
    BY <1>5, <2>2, <2>3, <2>4 DEF OpenBurrow
<1>6. ASSUME NEW s \in BurrowSockets, BurrowClosed(s) \/ IdleBurrow(s) PROVE TypeOK'
  BY <1>6 DEF BurrowClosed, IdleBurrow, UnregisterBurrow, IsCurrent, DropClientsOf, MapsAgree
<1>7. ASSUME NEW s \in BurrowSockets, NEW c \in ClientSockets, BurrowFrame(s, c) PROVE TypeOK'
  BY <1>7 DEF BurrowFrame
<1>8. ASSUME NEW c \in ClientSockets,
             OpenClient(c) \/ ClientClosed(c) \/ IdleClient(c) \/ SessionExpires(c)
      PROVE  TypeOK'
  BY <1>8 DEF OpenClient, ClientClosed, IdleClient, SessionExpires, UnregisterClients
<1>9. ASSUME NEW c \in ClientSockets, NEW b \in Burrows, ClientInit(c, b) \/ ClientTransport(c, b)
      PROVE  TypeOK'
  BY <1>9 DEF ClientInit, ClientTransport
<1>10. CASE CloseExpiredClients
  BY <1>10 DEF CloseExpiredClients, UnregisterClients
<1>11. CASE SweepBegin \/ SweepRead
  <2>1. rows \subseteq Burrows
    BY DEF FileTypeOK
  <2>2. QED
    BY <1>11, <2>1 DEF SweepBegin, SweepRead, OnlineBurrowIds
<1>12. CASE SweepClose
  BY <1>12 DEF SweepClose, ToEvict, OnlineBurrowIds
<1>13. QED
  BY <1>1, <1>2, <1>4, <1>5, <1>6, <1>7, <1>8, <1>9, <1>10, <1>11, <1>12 DEF Next, FileStep

\* Both hold of a relay that has just started.
LEMMA InitInv == Init => Inv /\ SweepAgrees
<1> SUFFICES ASSUME Init PROVE Inv /\ SweepAgrees
  OBVIOUS
<1>1. FileTypeOK /\ RowsAccounted
  <2>1. fileSwaps \in 0 .. MaxFileSwaps
    BY MaxFileSwapsAssumption DEF Init, FileInit
  <2>2. /\ rows = {} /\ present = FALSE /\ editor = Idle /\ enrolment = Idle
        /\ everEnrolled = {} /\ deleted = {} /\ overwritten = {}
    BY DEF Init, FileInit
  <2>3. FileTypeOK
    BY <2>1, <2>2 DEF FileTypeOK
  <2>4. QED
    BY <2>2, <2>3 DEF RowsAccounted, Held
<1>2. QED
  BY <1>1, BoundsAssumption
  DEF Init, Inv, TypeOK, SocketState, NoFrame, Idle, MapsAgree, SweepAgrees,
      BurrowKnowsItsClients, ClientKnowsItsBurrow

\* Handlers that leave the hub's maps and the Burrow sockets alone.
LEMMA QuietStep ==
  ASSUME Inv, UNCHANGED <<hub, owner, bsock, bcode>>,
         \A c \in ClientSockets : c \in clients => csock'[c] = csock[c],
         \A c \in ClientSockets : csock[c] # "unused" => csock'[c] # "unused"
  PROVE  MapsAgree' /\ BurrowKnowsItsClients' /\ ClientKnowsItsBurrow'
  BY DEF Inv, TypeOK, hub, MapsAgree, BurrowKnowsItsClients, ClientKnowsItsBurrow, BoundTo

\* Clients leave the hub: their own close, going idle, or the expiry sweep.
LEMMA UnregisterStep ==
  ASSUME Inv, NEW C \in SUBSET ClientSockets, UnregisterClients(C),
         UNCHANGED <<owner, bsock, bcode>>,
         \A c \in ClientSockets \ C : csock'[c] = csock[c],
         \A c \in C : csock'[c] # "unused"
  PROVE  MapsAgree' /\ BurrowKnowsItsClients' /\ ClientKnowsItsBurrow'
<1> USE DEF Inv, TypeOK, UnregisterClients
<1>1. MapsAgree'
  BY DEF MapsAgree
<1>2. BurrowKnowsItsClients'
  <2> SUFFICES ASSUME NEW b \in Burrows, burrows[b] # None
               PROVE  told'[burrows[b]] = {c \in clients \ C : binding[c] = b}
    BY DEF BurrowKnowsItsClients, BoundTo
  <2>1. told[burrows[b]] = {c \in clients : binding[c] = b}
    BY DEF BurrowKnowsItsClients, BoundTo
  <2>2. \A d \in Burrows : burrows[d] = burrows[b] => d = b
    BY DEF MapsAgree
  <2>3. GoneFrom(burrows[b], C) = {c \in C \cap clients : binding[c] = b}
    BY <2>2, NoneAssumption DEF GoneFrom
  <2>4. QED
    BY <2>1, <2>3
<1>3. ClientKnowsItsBurrow'
  BY DEF ClientKnowsItsBurrow
<1>4. QED
  BY <1>1, <1>2, <1>3

\* A Burrow socket ends: only the socket the map points at takes its clients
\* with it.
LEMMA UnregisterBurrowStep ==
  ASSUME Inv, NEW s \in BurrowSockets, bsock[s] \in {"open", "closing"},
         UnregisterBurrow(s), UNCHANGED <<owner, csock>>,
         NEW st \in {"closing", "closed"}, bsock' = [bsock EXCEPT ![s] = st],
         \A t \in BurrowSockets : t # s => bcode'[t] = bcode[t]
  PROVE  MapsAgree' /\ BurrowKnowsItsClients' /\ ClientKnowsItsBurrow'
<1> USE DEF Inv, TypeOK
<1>1. CASE ~IsCurrent(s)
  <2>1. UNCHANGED hub
    BY <1>1 DEF UnregisterBurrow
  <2>2. \A b \in Burrows : burrows[b] # s
    BY <1>1, NoneAssumption DEF MapsAgree, IsCurrent
  <2>3. MapsAgree'
    BY <2>1, <2>2 DEF hub, MapsAgree
  <2>4. QED
    BY <2>1, <2>3 DEF hub, BurrowKnowsItsClients, ClientKnowsItsBurrow, BoundTo
<1>2. CASE IsCurrent(s)
  <2> DEFINE b == owner[s]
  <2>1. b \in Burrows /\ burrows[b] = s
    BY <1>2 DEF IsCurrent
  <2>2. /\ burrows' = [burrows EXCEPT ![b] = None]
        /\ binding' = [c \in ClientSockets |-> IF c \in BoundTo(b) THEN None ELSE binding[c]]
        /\ inited' = [c \in ClientSockets |-> IF c \in BoundTo(b) THEN None ELSE inited[c]]
        /\ UNCHANGED <<clients, told>>
    BY <1>2 DEF UnregisterBurrow, DropClientsOf
  <2>3. \A d \in Burrows : d # b => burrows[d] # s
    BY <2>1, NoneAssumption DEF MapsAgree
  <2>4. MapsAgree'
    BY <2>1, <2>2, <2>3 DEF MapsAgree, BoundTo
  <2>5. BurrowKnowsItsClients'
    <3> SUFFICES ASSUME NEW d \in Burrows, d # b, burrows[d] # None
                 PROVE  told[burrows[d]] = {c \in clients : binding'[c] = d}
      BY <2>1, <2>2 DEF BurrowKnowsItsClients, BoundTo
    <3>1. told[burrows[d]] = {c \in clients : binding[c] = d}
      BY DEF BurrowKnowsItsClients, BoundTo
    <3>2. \A c \in clients : binding'[c] = d <=> binding[c] = d
      BY <2>2, NoneAssumption DEF BoundTo
    <3>3. QED
      BY <3>1, <3>2
  <2>6. ClientKnowsItsBurrow'
    BY <2>1, <2>2 DEF ClientKnowsItsBurrow, BoundTo
  <2>7. QED
    BY <2>4, <2>5, <2>6
<1>3. QED
  BY <1>1, <1>2

\* registerBurrow: a displaced socket loses its clients before the new socket
\* can be routed to.
LEMMA OpenBurrowStep ==
  ASSUME Inv, NEW s \in BurrowSockets, OpenBurrow(s)
  PROVE  MapsAgree' /\ BurrowKnowsItsClients' /\ ClientKnowsItsBurrow'
<1> USE DEF Inv, TypeOK
<1> DEFINE b == owner[s]
           old == burrows[b]
<1>1. b \in Burrows /\ told[s] = {} /\ bsock[s] = "authorised"
  BY DEF OpenBurrow, MapsAgree
<1>2. \A d \in Burrows : burrows[d] # s
  BY <1>1, NoneAssumption DEF MapsAgree
<1>3. /\ burrows' = [burrows EXCEPT ![b] = s]
      /\ bsock' = [t \in BurrowSockets |->
                     IF t = s THEN "open" ELSE IF t = old THEN "closing" ELSE bsock[t]]
      /\ bcode' = [t \in BurrowSockets |-> IF t = old THEN "replaced" ELSE bcode[t]]
      /\ UNCHANGED <<owner, csock, clients, told>>
  BY DEF OpenBurrow
<1>4. /\ binding' = [c \in ClientSockets |-> IF c \in BoundTo(b) THEN None ELSE binding[c]]
      /\ inited' = [c \in ClientSockets |-> IF c \in BoundTo(b) THEN None ELSE inited[c]]
  <2>1. CASE old # None
    BY <2>1 DEF OpenBurrow, DropClientsOf
  <2>2. CASE old = None
    <3>1. BoundTo(b) = {}
      BY <2>2, <1>1, NoneAssumption DEF MapsAgree, BoundTo
    <3>2. UNCHANGED <<binding, inited>>
      BY <2>2 DEF OpenBurrow
    <3>3. QED
      BY <3>1, <3>2
  <2>3. QED
    BY <2>1, <2>2
<1>5. \A d \in Burrows : d # b /\ burrows[d] # None => burrows[d] # old
  BY <1>1 DEF MapsAgree
<1>6. MapsAgree'
  <2>1. \A d \in Burrows : burrows'[d] # None =>
           owner'[burrows'[d]] = d /\ bsock'[burrows'[d]] = "open"
    BY <1>1, <1>2, <1>3, <1>5, NoneAssumption DEF MapsAgree
  <2>2. \A t \in BurrowSockets :
          /\ bsock'[t] = "unused" => owner'[t] = None
          /\ bsock'[t] # "unused" => owner'[t] \in Burrows
          /\ bsock'[t] \in {"unused", "authorised"} => told'[t] = {} /\ bcode'[t] = "none"
    BY <1>1, <1>3, NoneAssumption DEF MapsAgree
  <2>3. \A c \in ClientSockets :
          /\ c \in clients' => csock'[c] = "open"
          /\ csock'[c] = "unused" => binding'[c] = None /\ inited'[c] = None
    BY <1>3, <1>4 DEF MapsAgree
  <2>4. \A c \in clients' : binding'[c] # None => burrows'[binding'[c]] # None
    BY <1>1, <1>3, <1>4, NoneAssumption DEF MapsAgree, BoundTo
  <2>5. QED
    BY <2>1, <2>2, <2>3, <2>4 DEF MapsAgree
<1>7. BurrowKnowsItsClients'
  <2> SUFFICES ASSUME NEW d \in Burrows, burrows'[d] # None
               PROVE  told[burrows'[d]] = {c \in clients : binding'[c] = d}
    BY <1>3 DEF BurrowKnowsItsClients, BoundTo
  <2>1. CASE d = b
    BY <2>1, <1>1, <1>3, <1>4, NoneAssumption DEF BoundTo
  <2>2. CASE d # b
    <3>1. told[burrows[d]] = {c \in clients : binding[c] = d}
      BY <2>2, <1>3 DEF BurrowKnowsItsClients, BoundTo
    <3>2. \A c \in clients : binding'[c] = d <=> binding[c] = d
      BY <2>2, <1>4, NoneAssumption DEF BoundTo
    <3>3. QED
      BY <2>2, <1>1, <1>3, <3>1, <3>2
  <2>3. QED
    BY <2>1, <2>2
<1>8. ClientKnowsItsBurrow'
  BY <1>1, <1>3, <1>4 DEF ClientKnowsItsBurrow, BoundTo
<1>9. QED
  BY <1>6, <1>7, <1>8

\* onClientFrame with an init: the previous Burrow is told, the new one learns
\* of the client, and the binding moves, in one handler.
LEMMA ClientInitStep ==
  ASSUME Inv, NEW c \in ClientSockets, NEW b \in Burrows, ClientInit(c, b)
  PROVE  MapsAgree' /\ BurrowKnowsItsClients' /\ ClientKnowsItsBurrow'
<1> USE DEF Inv, TypeOK
<1> DEFINE s == burrows[b]
           previous == IF binding[c] \in Burrows \ {b} THEN burrows[binding[c]] ELSE None
<1>1. CASE ~(Registered(c) /\ s # None)
  <2>1. UNCHANGED <<hub, owner, bsock, bcode, csock>>
    BY <1>1 DEF ClientInit, hub
  <2>2. QED
    BY <2>1, QuietStep DEF hub
<1>2. CASE Registered(c) /\ s # None
  <2>1. /\ binding' = [binding EXCEPT ![c] = b]
        /\ told' = [t \in BurrowSockets |->
                      IF t = s THEN told[t] \cup {c}
                      ELSE IF t = previous THEN told[t] \ {c} ELSE told[t]]
        /\ inited' = [inited EXCEPT ![c] = s]
        /\ UNCHANGED <<owner, bsock, bcode, csock, burrows, clients>>
    BY <1>2 DEF ClientInit
  <2>2. c \in clients /\ s \in BurrowSockets
    BY <1>2 DEF Registered
  <2>3. \A d, e \in Burrows : burrows[d] # None /\ burrows[d] = burrows[e] => d = e
    BY DEF MapsAgree
  <2>4. MapsAgree'
    BY <2>1, <2>2, <1>2, NoneAssumption DEF MapsAgree
  <2>5. BurrowKnowsItsClients'
    <3> SUFFICES ASSUME NEW d \in Burrows, burrows[d] # None
                 PROVE  told'[burrows[d]] = {e \in clients : binding'[e] = d}
      BY <2>1 DEF BurrowKnowsItsClients, BoundTo
    <3>1. told[burrows[d]] = {e \in clients : binding[e] = d}
      BY DEF BurrowKnowsItsClients, BoundTo
    <3>2. CASE d = b
      BY <3>1, <3>2, <2>1, <2>2
    <3>3. CASE d # b /\ binding[c] = d
      <4>1. previous = burrows[d] /\ burrows[d] # s
        BY <3>3, <2>3
      <4>2. QED
        BY <4>1, <3>1, <3>3, <2>1, <2>2
    <3>4. CASE d # b /\ binding[c] # d
      <4>1. burrows[d] # previous /\ burrows[d] # s
        BY <3>4, <2>3, NoneAssumption
      <4>2. QED
        BY <4>1, <3>1, <3>4, <2>1, <2>2
    <3>5. QED
      BY <3>2, <3>3, <3>4
  <2>6. ClientKnowsItsBurrow'
    BY <2>1, <2>2, NoneAssumption DEF ClientKnowsItsBurrow
  <2>7. QED
    BY <2>4, <2>5, <2>6
<1>3. QED
  BY <1>1, <1>2

\* closeBurrow for every Burrow the sweep found revoked.
LEMMA SweepCloseStep ==
  ASSUME Inv, SweepClose
  PROVE  MapsAgree' /\ BurrowKnowsItsClients' /\ ClientKnowsItsBurrow'
<1> USE DEF Inv, TypeOK
<1> DEFINE evicted == {burrows[b] : b \in ToEvict}
           dropped == {c \in clients : binding[c] \in ToEvict}
<1>1. /\ burrows' = [b \in Burrows |-> IF b \in ToEvict THEN None ELSE burrows[b]]
      /\ bsock' = [s \in BurrowSockets |-> IF s \in evicted THEN "closing" ELSE bsock[s]]
      /\ bcode' = [s \in BurrowSockets |-> IF s \in evicted THEN "revoked" ELSE bcode[s]]
      /\ binding' = [c \in ClientSockets |-> IF c \in dropped THEN None ELSE binding[c]]
      /\ inited' = [c \in ClientSockets |-> IF c \in dropped THEN None ELSE inited[c]]
      /\ UNCHANGED <<owner, csock, clients, told>>
  BY DEF SweepClose
<1>2. ToEvict \subseteq Burrows /\ \A b \in ToEvict : burrows[b] # None
  BY DEF SweepClose, ToEvict, OnlineBurrowIds
<1>3. \A b \in Burrows : burrows[b] # None /\ burrows[b] \in evicted => b \in ToEvict
  BY <1>2 DEF MapsAgree
<1>4. \A s \in evicted : bsock[s] = "open"
  BY <1>2 DEF MapsAgree
<1>5. MapsAgree'
  BY <1>1, <1>2, <1>3, <1>4, NoneAssumption DEF MapsAgree
<1>6. BurrowKnowsItsClients'
  <2> SUFFICES ASSUME NEW b \in Burrows, b \notin ToEvict, burrows[b] # None
               PROVE  told[burrows[b]] = {c \in clients : binding'[c] = b}
    BY <1>1 DEF BurrowKnowsItsClients, BoundTo
  <2>1. told[burrows[b]] = {c \in clients : binding[c] = b}
    BY DEF BurrowKnowsItsClients, BoundTo
  <2>2. \A c \in clients : binding'[c] = b <=> binding[c] = b
    BY <1>1, NoneAssumption
  <2>3. QED
    BY <2>1, <2>2
<1>7. ClientKnowsItsBurrow'
  BY <1>1, <1>2, NoneAssumption DEF ClientKnowsItsBurrow
<1>8. QED
  BY <1>5, <1>6, <1>7

\* Every handler keeps the hub's maps, the Burrows and the Clients in agreement.
LEMMA InvStep == Inv /\ [Next]_vars => Inv'
<1> SUFFICES ASSUME Inv, [Next]_vars
             PROVE  MapsAgree' /\ BurrowKnowsItsClients' /\ ClientKnowsItsBurrow'
  BY TypeStep DEF Inv
<1> DEFINE Goal == MapsAgree' /\ BurrowKnowsItsClients' /\ ClientKnowsItsBurrow'
<1>1. CASE UNCHANGED vars
  BY <1>1, QuietStep DEF vars, hub
<1>2. CASE FileStep
  BY <1>2, QuietStep DEF FileStep, HubRests
<1>4. ASSUME NEW s \in BurrowSockets, NEW b \in Burrows, AuthoriseBurrow(s, b) PROVE Goal
  BY <1>4, NoneAssumption
  DEF AuthoriseBurrow, Inv, TypeOK, MapsAgree, hub, BurrowKnowsItsClients, ClientKnowsItsBurrow, BoundTo
<1>5. ASSUME NEW s \in BurrowSockets, OpenBurrow(s) PROVE Goal
  BY <1>5, OpenBurrowStep
<1>6. ASSUME NEW s \in BurrowSockets, BurrowClosed(s) \/ IdleBurrow(s) PROVE Goal
  <2>1. bsock' = [bsock EXCEPT ![s] = "closed"] \/ bsock' = [bsock EXCEPT ![s] = "closing"]
    BY <1>6 DEF BurrowClosed, IdleBurrow
  <2>2. /\ bsock[s] \in {"open", "closing"} /\ UnregisterBurrow(s) /\ UNCHANGED <<owner, csock>>
        /\ \A t \in BurrowSockets : t # s => bcode'[t] = bcode[t]
    BY <1>6 DEF BurrowClosed, IdleBurrow, Inv, TypeOK
  <2>3. QED
    BY <2>1, <2>2, UnregisterBurrowStep
<1>7. ASSUME NEW s \in BurrowSockets, NEW c \in ClientSockets, BurrowFrame(s, c) PROVE Goal
  BY <1>7, QuietStep DEF BurrowFrame
<1>8. ASSUME NEW c \in ClientSockets, OpenClient(c) PROVE Goal
  <2>1. csock[c] = "unused" /\ binding[c] = None /\ inited[c] = None
    BY <1>8 DEF OpenClient, Inv, MapsAgree
  <2>2. QED
    BY <1>8, <2>1, NoneAssumption
    DEF OpenClient, Inv, TypeOK, MapsAgree, BurrowKnowsItsClients, ClientKnowsItsBurrow, BoundTo
<1>9. ASSUME NEW c \in ClientSockets, ClientClosed(c) \/ IdleClient(c) PROVE Goal
  <2>1. /\ UnregisterClients({c}) /\ UNCHANGED <<owner, bsock, bcode>>
        /\ csock'[c] # "unused"
        /\ \A d \in ClientSockets \ {c} : csock'[d] = csock[d]
    BY <1>9 DEF ClientClosed, IdleClient, Inv, TypeOK
  <2>2. QED
    BY <2>1, UnregisterStep
<1>10. ASSUME NEW c \in ClientSockets, SessionExpires(c) PROVE Goal
  BY <1>10, QuietStep DEF SessionExpires
<1>11. ASSUME NEW c \in ClientSockets, NEW b \in Burrows, ClientInit(c, b) PROVE Goal
  BY <1>11, ClientInitStep
<1>12. ASSUME NEW c \in ClientSockets, NEW b \in Burrows, ClientTransport(c, b) PROVE Goal
  BY <1>12, QuietStep DEF ClientTransport
<1>13. CASE CloseExpiredClients
  <2>1. /\ UnregisterClients(Expired) /\ UNCHANGED <<owner, bsock, bcode>>
        /\ Expired \in SUBSET ClientSockets
        /\ \A c \in Expired : csock'[c] # "unused"
        /\ \A d \in ClientSockets \ Expired : csock'[d] = csock[d]
    BY <1>13 DEF CloseExpiredClients, Expired, Inv, TypeOK
  <2>2. QED
    BY <2>1, UnregisterStep
<1>14. CASE SweepBegin \/ SweepRead
  BY <1>14, QuietStep DEF SweepBegin, SweepRead
<1>15. CASE SweepClose
  BY <1>15, SweepCloseStep
<1>16. QED
  BY <1>1, <1>2, <1>4, <1>5, <1>6, <1>7, <1>8, <1>9, <1>10, <1>11, <1>12, <1>13, <1>14, <1>15
  DEF Next, FileStep

\* The revocation sweep's snapshot is taken before the file is read, so a
\* listed Burrow was enrolled by then, and if the rows of a file that was there
\* omit it, it was deleted or overwritten.
LEMMA SweepStep == Inv /\ SweepAgrees /\ [Next]_vars => SweepAgrees'
<1> SUFFICES ASSUME Inv, SweepAgrees, [Next]_vars PROVE SweepAgrees'
  OBVIOUS
<1> USE DEF Inv, TypeOK, SweepAgrees, Idle
<1>0. UNCHANGED file =>
        RowsAccounted' /\ UNCHANGED <<rows, present, everEnrolled, deleted, overwritten>>
  BY DEF file, RowsAccounted, Held
<1>1. CASE UNCHANGED <<file, owner, bcode, sweep>>
  BY <1>0, <1>1
<1>2. CASE FileStep
  <2>1. /\ RowsAccounted'
        /\ everEnrolled \subseteq everEnrolled'
        /\ deleted \subseteq deleted' /\ overwritten \subseteq overwritten'
    BY <1>2, RowsStayAccounted DEF FileStep, FileNext
  <2>2. UNCHANGED <<owner, bcode, sweep>>
    BY <1>2 DEF FileStep, HubRests
  <2>3. QED
    BY <2>1, <2>2
<1>3. ASSUME NEW s \in BurrowSockets, NEW b \in Burrows, AuthoriseBurrow(s, b) PROVE SweepAgrees'
  <2>1. bcode[s] = "none" /\ b \in everEnrolled
    BY <1>3 DEF AuthoriseBurrow, MapsAgree, RowsAccounted
  <2>2. QED
    BY <1>0, <1>3, <2>1 DEF AuthoriseBurrow
<1>4. ASSUME NEW s \in BurrowSockets, OpenBurrow(s) \/ IdleBurrow(s) PROVE SweepAgrees'
  <2>1. \A t \in BurrowSockets : bcode'[t] = "revoked" => bcode[t] = "revoked"
    BY <1>4 DEF OpenBurrow, IdleBurrow
  <2>2. QED
    BY <1>0, <1>4, <2>1 DEF OpenBurrow, IdleBurrow
<1>5. CASE SweepBegin
  <2>1. \A b \in OnlineBurrowIds : b \in everEnrolled
    BY NoneAssumption DEF OnlineBurrowIds, MapsAgree
  <2>2. QED
    BY <1>0, <1>5, <2>1 DEF SweepBegin
<1>6. CASE SweepRead
  BY <1>0, <1>6 DEF SweepRead, AnswerRead, RowsAccounted
<1>7. CASE SweepClose
  <2>1. ToEvict \subseteq deleted \cup overwritten
    BY <1>7 DEF SweepClose, ToEvict
  <2>2. \A s \in BurrowSockets : bcode'[s] = "revoked" => owner[s] \in deleted \cup overwritten
    <3>1. \A b \in ToEvict : owner[burrows[b]] = b
      BY DEF ToEvict, OnlineBurrowIds, MapsAgree
    <3>2. QED
      BY <1>7, <2>1, <3>1 DEF SweepClose
  <2>3. QED
    BY <1>0, <1>7, <2>2 DEF SweepClose
<1>8. CASE \/ CloseExpiredClients
           \/ \E s \in BurrowSockets : BurrowClosed(s)
           \/ \E s \in BurrowSockets, c \in ClientSockets : BurrowFrame(s, c)
           \/ \E c \in ClientSockets :
                OpenClient(c) \/ ClientClosed(c) \/ IdleClient(c) \/ SessionExpires(c)
           \/ \E c \in ClientSockets, b \in Burrows : ClientInit(c, b) \/ ClientTransport(c, b)
  BY <1>1, <1>8
  DEF CloseExpiredClients, BurrowClosed, BurrowFrame, OpenClient,
      ClientClosed, IdleClient, SessionExpires, ClientInit, ClientTransport
<1>9. QED
  BY <1>1, <1>2, <1>3, <1>4, <1>5, <1>6, <1>7, <1>8 DEF Next, FileStep, vars

\* The only handlers that forward a frame are those for frames, and each checks
\* the maps that Inv relates to the handshakes.
LEMMA RouteStep ==
  Inv /\ [Next]_vars /\ RoutedWithinHandshake /\ NothingRoutedAfterClose
    => (RoutedWithinHandshake /\ NothingRoutedAfterClose)'
<1> SUFFICES ASSUME Inv, [Next]_vars, RoutedWithinHandshake, NothingRoutedAfterClose
             PROVE  (RoutedWithinHandshake /\ NothingRoutedAfterClose)'
  OBVIOUS
<1> USE DEF RoutedWithinHandshake, NothingRoutedAfterClose
<1>1. CASE UNCHANGED vars
  BY <1>1 DEF vars
<1>2. CASE lastRouted' = NoFrame
  BY <1>2 DEF NoFrame
<1>3. ASSUME NEW s \in BurrowSockets, NEW c \in ClientSockets, BurrowFrame(s, c),
             lastRouted' # NoFrame
      PROVE  (RoutedWithinHandshake /\ NothingRoutedAfterClose)'
  <2>1. /\ lastRouted' = ToClient(s, c) /\ UNCHANGED <<told, inited, csock>>
        /\ owner[s] # None /\ burrows[owner[s]] = s /\ c \in clients /\ binding[c] = owner[s]
    BY <1>3 DEF BurrowFrame, IsCurrent, Registered, hub
  <2>2. owner[s] \in Burrows
    BY <2>1, NoneAssumption DEF Inv, TypeOK
  <2>3. inited[c] = s /\ c \in told[s] /\ csock[c] = "open"
    BY <2>1, <2>2, NoneAssumption
    DEF Inv, ClientKnowsItsBurrow, BurrowKnowsItsClients, MapsAgree, BoundTo
  <2>4. QED
    BY <2>1, <2>3 DEF ToClient
<1>4. ASSUME NEW c \in ClientSockets, NEW b \in Burrows, ClientInit(c, b), lastRouted' # NoFrame
      PROVE  (RoutedWithinHandshake /\ NothingRoutedAfterClose)'
  <2>1. /\ lastRouted' = ToBurrow(c, burrows[b], "init") /\ UNCHANGED csock
        /\ burrows[b] \in BurrowSockets /\ c \in clients
        /\ inited'[c] = burrows[b] /\ c \in told'[burrows[b]]
    BY <1>4 DEF ClientInit, Registered, Inv, TypeOK
  <2>2. QED
    BY <2>1 DEF ToBurrow, Inv, MapsAgree
<1>5. ASSUME NEW c \in ClientSockets, NEW b \in Burrows, ClientTransport(c, b), lastRouted' # NoFrame
      PROVE  (RoutedWithinHandshake /\ NothingRoutedAfterClose)'
  <2>1. /\ lastRouted' = ToBurrow(c, burrows[b], "transport") /\ UNCHANGED <<told, inited, csock>>
        /\ burrows[b] # None /\ c \in clients /\ binding[c] = b
    BY <1>5 DEF ClientTransport, Registered, hub
  <2>2. inited[c] = burrows[b] /\ c \in told[burrows[b]] /\ csock[c] = "open"
    BY <2>1, NoneAssumption
    DEF Inv, ClientKnowsItsBurrow, BurrowKnowsItsClients, MapsAgree, BoundTo
  <2>3. QED
    BY <2>1, <2>2 DEF ToBurrow
<1>6. QED
  BY <1>1, <1>2, <1>3, <1>4, <1>5
  DEF Next, HubRests, AuthoriseBurrow, OpenBurrow, BurrowClosed,
      IdleBurrow, OpenClient, ClientClosed, IdleClient, SessionExpires, CloseExpiredClients,
      SweepBegin, SweepRead, SweepClose

\* registerClient is the only handler that admits a socket, and it counts first.
LEMMA CapStep == TypeOK /\ WithinSocketCap /\ [Next]_vars => WithinSocketCap'
<1> SUFFICES ASSUME TypeOK, WithinSocketCap, [Next]_vars PROVE WithinSocketCap'
  OBVIOUS
<1> USE DEF WithinSocketCap
<1>1. IsFiniteSet(clients)
  BY BoundsAssumption, FS_Subset DEF TypeOK
<1>2. CASE clients' \subseteq clients
  <2>1. Cardinality(clients') <= Cardinality(clients) /\ IsFiniteSet(clients')
    BY <1>1, <1>2, FS_Subset
  <2>2. Cardinality(clients) \in Nat /\ Cardinality(clients') \in Nat
    BY <1>1, <2>1, FS_CardinalityType
  <2>3. QED
    BY <2>1, <2>2, BoundsAssumption
<1>3. ASSUME NEW c \in ClientSockets, HasRoom, clients' = clients \cup {c}
      PROVE  WithinSocketCap'
  <2>1. Cardinality(clients) \in Nat
    BY <1>1, FS_CardinalityType
  <2>2. \/ Cardinality(clients \cup {c}) = Cardinality(clients)
        \/ Cardinality(clients \cup {c}) = Cardinality(clients) + 1
    BY <1>1, FS_AddElement
  <2>3. QED
    BY <1>3, <2>1, <2>2, BoundsAssumption DEF HasRoom
<1>4. CASE \E c \in ClientSockets : OpenClient(c)
  BY <1>2, <1>3, <1>4 DEF OpenClient
<1>5. CASE \E c \in ClientSockets : ClientClosed(c) \/ IdleClient(c)
  BY <1>2, <1>5 DEF ClientClosed, IdleClient, UnregisterClients
<1>6. CASE CloseExpiredClients
  BY <1>2, <1>6 DEF CloseExpiredClients, UnregisterClients
<1>7. CASE UNCHANGED clients
  BY <1>2, <1>7
<1>8. QED
  <2>1. CASE UNCHANGED vars
    BY <2>1, <1>7 DEF vars
  <2>2. ASSUME NEW s \in BurrowSockets, UnregisterBurrow(s) PROVE UNCHANGED clients
    BY <2>2 DEF UnregisterBurrow, hub
  <2>3. QED
    BY <1>4, <1>5, <1>6, <1>7, <2>1, <2>2
    DEF Next, hub, HubRests, AuthoriseBurrow, OpenBurrow,
        BurrowClosed, IdleBurrow, BurrowFrame, SessionExpires, ClientInit, ClientTransport,
        SweepBegin, SweepRead, SweepClose

-----------------------------------------------------------------------------
\* The hub's state is well typed in every execution.
THEOREM TypeCorrect == Spec => []TypeOK
<1>1. Inv => TypeOK
  BY DEF Inv
<1>2. QED
  BY <1>1, InitInv, InvStep, PTL DEF Spec

\* What a Burrow was told of its clients is what the hub routes to it
\* (registerBurrow, unregisterBurrow, unregisterClient, #bindClientToBurrow).
THEOREM BurrowAgrees == Spec => []BurrowKnowsItsClients
<1>1. Inv => BurrowKnowsItsClients
  BY DEF Inv
<1>2. QED
  BY <1>1, InitInv, InvStep, PTL DEF Spec

\* What a Client was told of its Burrow is where the hub routes its frames, a
\* Burrow that reconnects in between included (registerBurrow).
THEOREM ClientAgrees == Spec => []ClientKnowsItsBurrow
<1>1. Inv => ClientKnowsItsBurrow
  BY DEF Inv
<1>2. QED
  BY <1>1, InitInv, InvStep, PTL DEF Spec

\* The two rules of forwarding hold together.
LEMMA RoutingHolds == Spec => [](RoutedWithinHandshake /\ NothingRoutedAfterClose)
<1>1. Init => RoutedWithinHandshake /\ NothingRoutedAfterClose
  BY DEF Init, RoutedWithinHandshake, NothingRoutedAfterClose
<1>2. QED
  BY <1>1, InitInv, InvStep, RouteStep, PTL DEF Spec

\* No frame is forwarded outside the handshake it belongs to (onBurrowFrame,
\* onClientFrame).
THEOREM RoutingIsSound == Spec => []RoutedWithinHandshake
<1> QED BY RoutingHolds, PTL

\* Nothing is forwarded for a Client whose socket the Relay has begun to close
\* (the guard at the top of onClientFrame).
THEOREM ClosingIsSilent == Spec => []NothingRoutedAfterClose
<1> QED BY RoutingHolds, PTL

\* Nothing is forwarded outside a ceremony two open sockets agree on, whatever is
\* buffered on displaced or closing ones (onBurrowFrame, onClientFrame).
THEOREM ForwardingHolds == Spec => []ForwardingIsSound
<1> QED BY RoutingHolds DEF ForwardingIsSound

\* The revocation sweep evicts a Burrow only if its row was deleted or dropped by
\* a write, never because the file is being replaced (sweepRevokedBurrows,
\* listIfPresent).
THEOREM SweepIsSafe == Spec => []SweepSparesEnrolled
<1>1. SweepAgrees => SweepSparesEnrolled
  BY DEF SweepAgrees, SweepSparesEnrolled
<1>2. QED
  BY <1>1, InitInv, InvStep, SweepStep, PTL DEF Spec

\* MAX_RELAY_CLIENT_SOCKETS bounds the hub (registerClient).
THEOREM CapHolds == Spec => []WithinSocketCap
<1>1. Init => WithinSocketCap
  BY BoundsAssumption, FS_EmptySet DEF Init, WithinSocketCap
<1>2. Inv => TypeOK
  BY DEF Inv
<1>3. QED
  BY <1>1, <1>2, InitInv, InvStep, CapStep, PTL DEF Spec
=============================================================================
