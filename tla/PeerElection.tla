---------------------------- MODULE PeerElection ----------------------------
(***************************************************************************)
(* vscode-ext/src/peer-link.ts: which of the windows of one installation   *)
(* runs the Burrow.  Every window contends for one socket path: it binds   *)
(* it, or connects to whoever did, or clears what a dead broker left       *)
(* behind, binds and checks the bind.                                      *)
(*                                                                         *)
(* pc names the await a window's contend loop stands at; what runs between *)
(* two awaits is one action.  The windows share the file system only: the  *)
(* socket path and the token file.  A socket file is known by the window   *)
(* that bound it: a window that binds again has waited RETRY_MS, longer    *)
(* than anyone compares two looks at the path.                             *)
(***************************************************************************)
CONSTANTS
  Windows,     \* extension hosts of one installation
  MayDispose,  \* windows that may be closed
  MayCrash,    \* windows whose process may die
  None, Corpse, Lost, Empty

ASSUME MarksAssumption == {None, Corpse, Lost, Empty} \cap Windows = {} /\ None \notin {Corpse, Lost, Empty}

VARIABLES
  path,       \* the socket path: None, Corpse, or the window whose bind made it
  tokenFile,  \* the token file: None, Empty, or the window whose token it holds
  pc,         \* the await the window's contend loop stands at
  tok,        \* token of the current attempt: the window that minted it
  peer,       \* the window a handshake is with, or what the first stat saw
  server,     \* windows whose server is not null
  confirmed,  \* windows whose brokerConfirmed is set
  client,     \* the window a client socket goes to; Lost once that end closed
  refused,    \* windows that stood down for good
  disposed,   \* windows whose disposePeerLink ran
  removing,   \* windows whose closeServer is about to remove the path
  told        \* windows whose announceRole was called with true

vars == <<path, tokenFile, pc, tok, peer, server, confirmed, client, refused, disposed, removing, told>>
token == <<tokenFile, tok>>
roles == <<server, confirmed, client, refused, disposed, removing, told>>

TokenAwaits == {"token", "create", "write", "poll"}
Awaits == TokenAwaits \cup
  {"bind", "dial", "shake", "jitter", "redial", "reshake", "clear", "rebind", "stat", "verify"}

TypeOK ==
  /\ path \in Windows \cup {None, Corpse}
  /\ tokenFile \in Windows \cup {None, Empty}
  /\ pc \in [Windows -> Awaits \cup {"closed", "idle", "dead"}]
  /\ tok \in [Windows -> Windows \cup {None}]
  /\ peer \in [Windows -> Windows \cup {None, Corpse, Lost}]
  /\ client \in [Windows -> Windows \cup {None, Lost}]
  /\ \A S \in {server, confirmed, refused, disposed, removing, told} : S \subseteq Windows

\* Windows open one by one; an earlier session may have left its socket.
Init ==
  /\ path \in {None, Corpse} /\ tokenFile = None
  /\ pc = [w \in Windows |-> "closed"]
  /\ tok = [w \in Windows |-> None] /\ peer = [w \in Windows |-> None]
  /\ client = [w \in Windows |-> None]
  /\ server = {} /\ confirmed = {} /\ refused = {} /\ disposed = {} /\ removing = {} /\ told = {}

Contending(w) == pc[w] \in Awaits
IsPeerBroker(w) == w \in server /\ w \in confirmed
IsPeerLinkSettled(w) == IsPeerBroker(w) \/ client[w] \in Windows \/ w \in refused

Goto(w, at) == pc' = [pc EXCEPT ![w] = at]
\* An attempt that settled nothing: the loop looks at its condition, waits and
\* tries again without another look.
Retry(w) == Goto(w, IF w \in disposed \cup refused THEN "idle" ELSE "token")

-----------------------------------------------------------------------------
(* The sockets.                                                            *)

\* A server went away: whoever is connected, or shaking hands, loses the socket.
HangUp(s) ==
  /\ client' = [w \in Windows |-> IF client[w] = s THEN Lost ELSE client[w]]
  /\ peer' = [w \in Windows |-> IF pc[w] \in {"shake", "reshake"} /\ peer[w] = s THEN Lost ELSE peer[w]]

\* Node removes the path of a unix socket when its server closes.
UnlinkedByClose == path' = None

\* closeServer, up to its await.
CloseServer(w, unlink) ==
  /\ server' = server \ {w} /\ confirmed' = confirmed \ {w}
  /\ IF w \in server
     THEN UnlinkedByClose /\ removing' = IF unlink THEN removing \cup {w} ELSE removing
     ELSE UNCHANGED <<path, removing>>

\* tryBind, and what its caller does with a bind of a disposed window.
Bound_KeptByDisposed(w, at) ==
  /\ path = None /\ path' = w /\ server' = server \cup {w}
  /\ confirmed' = IF at = "idle" THEN confirmed \cup {w} ELSE confirmed
  /\ told' = IF at = "idle" THEN told \cup {w} ELSE told
  /\ Goto(w, at)
  /\ UNCHANGED <<token, peer, client, refused, disposed, removing>>
Bound_Believed(w, at) ==
  /\ path = None
  /\ IF w \in disposed
     THEN /\ removing' = removing \cup {w} /\ Goto(w, "idle")
          /\ UNCHANGED <<path, server, confirmed, told>>
     ELSE /\ path' = w /\ server' = server \cup {w}
          /\ confirmed' = confirmed \cup {w} /\ told' = told \cup {w}
          /\ Goto(w, at)
          /\ UNCHANGED removing
  /\ UNCHANGED <<token, peer, client, refused, disposed>>
Bound(w, at) ==
  /\ path = None
  /\ IF w \in disposed
     THEN /\ removing' = removing \cup {w} /\ Goto(w, "idle")
          /\ UNCHANGED <<path, server, confirmed, told>>
     ELSE /\ path' = w /\ server' = server \cup {w}
          /\ confirmed' = IF at = "idle" THEN confirmed \cup {w} ELSE confirmed
          /\ told' = IF at = "idle" THEN told \cup {w} ELSE told
          /\ Goto(w, at)
          /\ UNCHANGED removing
  /\ UNCHANGED <<token, peer, client, refused, disposed>>

-----------------------------------------------------------------------------
(* One attempt.                                                            *)

\* The window opens: ensurePeerNet and its contend.
Open(w) ==
  /\ pc[w] = "closed" /\ Goto(w, "token")
  /\ UNCHANGED <<path, token, peer, roles>>

\* The socket directory is not private, or the token can be neither read nor
\* written.  A window that polls outlasts a writer that lives.
StandDown(w) ==
  /\ \/ pc[w] = "token"
     \/ pc[w] = "poll" /\ tokenFile = Empty /\ \A v \in Windows : pc[v] # "write"
  /\ refused' = refused \cup {w} /\ Goto(w, "idle")
  /\ UNCHANGED <<path, token, peer, server, confirmed, client, disposed, removing, told>>

\* ensureToken: an empty file is one that is not written yet.
ReadToken_EmptyIsToken(w) ==
  /\ pc[w] \in {"token", "poll"}
  /\ IF tokenFile # None
     THEN tok' = [tok EXCEPT ![w] = tokenFile] /\ Goto(w, "bind")
     ELSE UNCHANGED tok /\ pc[w] = "token" /\ Goto(w, "create")
  /\ UNCHANGED <<path, tokenFile, peer, roles>>
ReadToken(w) ==
  /\ pc[w] \in {"token", "poll"}
  /\ IF tokenFile \in Windows
     THEN tok' = [tok EXCEPT ![w] = tokenFile] /\ Goto(w, "bind")
     ELSE UNCHANGED tok /\ pc[w] = "token" /\ Goto(w, "create")
  /\ UNCHANGED <<path, tokenFile, peer, roles>>
CreateToken(w) ==
  /\ pc[w] = "create"
  /\ IF tokenFile = None THEN tokenFile' = Empty /\ Goto(w, "write")
                         ELSE UNCHANGED tokenFile /\ Goto(w, "poll")
  /\ UNCHANGED <<path, tok, peer, roles>>
WriteToken(w) ==
  /\ pc[w] = "write"
  /\ tokenFile' = w /\ tok' = [tok EXCEPT ![w] = w]
  /\ Goto(w, "bind")
  /\ UNCHANGED <<path, peer, roles>>

\* The first bind is believed at once.
Bind(w) ==
  /\ pc[w] = "bind"
  /\ \/ Bound(w, "idle")
     \/ path # None /\ Goto(w, "dial") /\ UNCHANGED <<path, token, peer, roles>>

\* tryConnect, up to the handshake.  Nobody listens behind a path that is gone
\* or whose window closed its server or died.
Dial(w) ==
  /\ pc[w] \in {"dial", "redial"}
  /\ IF path \in server
     THEN peer' = [peer EXCEPT ![w] = path] /\ Goto(w, IF pc[w] = "dial" THEN "shake" ELSE "reshake")
     ELSE UNCHANGED peer /\ Goto(w, IF pc[w] = "dial" THEN "jitter" ELSE "clear")
  /\ UNCHANGED <<path, token, roles>>

\* The handshake ends: the other end proved the same token, or it closed, does
\* not know our token, or took longer than the budget.
Welcomed(w) ==
  /\ pc[w] \in {"shake", "reshake"}
  /\ peer[w] \in Windows /\ tok[peer[w]] = tok[w]
  /\ client' = [client EXCEPT ![w] = IF w \in disposed THEN None ELSE peer[w]]
  /\ Goto(w, "idle")
  /\ UNCHANGED <<path, token, peer, server, confirmed, refused, disposed, removing, told>>
HandshakeFails(w) ==
  /\ pc[w] \in {"shake", "reshake"}
  /\ Retry(w)
  /\ UNCHANGED <<path, token, peer, roles>>

\* The jitter is over.
Redial(w) ==
  /\ pc[w] = "jitter" /\ Goto(w, "redial")
  /\ UNCHANGED <<path, token, peer, roles>>

\* Twice refused: rm, then bind again.
Clear(w) ==
  /\ pc[w] = "clear"
  /\ path' = None /\ Goto(w, "rebind")
  /\ UNCHANGED <<token, peer, roles>>
Rebind(w) ==
  /\ pc[w] = "rebind"
  /\ \/ Bound(w, "stat")
     \/ path # None /\ Retry(w) /\ UNCHANGED <<path, token, peer, roles>>

\* stillOurs: two looks at the path; gone counts as replaced.
Displaced(w) == path = None \/ path # peer[w]
StandAside(w) ==
  /\ CloseServer(w, FALSE) /\ Retry(w)
  /\ IF w \in server THEN HangUp(w) ELSE UNCHANGED <<client, peer>>
  /\ UNCHANGED <<token, refused, disposed, told>>
\* RECLAIM_VERIFY_MS is longer than the few calls from a refusal to the rebind.
VerifyOutlasts == \A v \in Windows : pc[v] \notin {"clear", "rebind"}
FirstStat(w) ==
  /\ pc[w] = "stat"
  /\ \/ path = None /\ StandAside(w)
     \/ /\ path # None
        /\ peer' = [peer EXCEPT ![w] = path] /\ Goto(w, "verify")
        /\ UNCHANGED <<path, token, roles>>
SecondStat(w) ==
  /\ pc[w] = "verify"
  /\ \/ Displaced(w) /\ StandAside(w)
     \/ /\ ~Displaced(w) /\ VerifyOutlasts
        /\ confirmed' = confirmed \cup {w} /\ told' = told \cup {w}
        /\ Goto(w, "idle")
        /\ UNCHANGED <<path, token, peer, server, client, refused, disposed, removing>>

-----------------------------------------------------------------------------
(* What ends a role.                                                       *)

\* The client socket closed: contend again.
Drop_Forgets(w) ==
  /\ client[w] = Lost
  /\ client' = [client EXCEPT ![w] = None]
  /\ UNCHANGED <<path, token, pc, peer, server, confirmed, refused, disposed, removing, told>>
Drop(w) ==
  /\ client[w] = Lost
  /\ client' = [client EXCEPT ![w] = None]
  /\ pc' = IF w \in disposed \/ Contending(w) THEN pc ELSE [pc EXCEPT ![w] = "token"]
  /\ UNCHANGED <<path, token, peer, server, confirmed, refused, disposed, removing, told>>

\* disposePeerLink, up to its await.
Dispose(w) ==
  /\ w \in MayDispose \ disposed /\ pc[w] \notin {"closed", "dead"}
  /\ disposed' = disposed \cup {w}
  /\ CloseServer(w, TRUE)
  /\ client' = [v \in Windows |-> IF v = w THEN None ELSE IF w \in server /\ client[v] = w THEN Lost ELSE client[v]]
  /\ peer' = [v \in Windows |-> IF w \in server /\ pc[v] \in {"shake", "reshake"} /\ peer[v] = w THEN Lost ELSE peer[v]]
  /\ UNCHANGED <<token, pc, refused, told>>

\* The rm of closeServer, whatever the path names by now.
RemovePath(w) ==
  /\ w \in removing
  /\ path' = None /\ removing' = removing \ {w}
  /\ UNCHANGED <<token, pc, peer, server, confirmed, client, refused, disposed, told>>

\* The process dies and leaves its socket behind.
Crash(w) ==
  /\ w \in MayCrash /\ pc[w] \notin {"closed", "dead"}
  /\ Goto(w, "dead")
  /\ path' = IF path = w THEN Corpse ELSE path
  /\ client' = [v \in Windows |-> IF v = w THEN None ELSE IF client[v] = w THEN Lost ELSE client[v]]
  /\ peer' = [v \in Windows |-> IF pc[v] \in {"shake", "reshake"} /\ peer[v] = w THEN Lost ELSE peer[v]]
  /\ server' = server \ {w} /\ confirmed' = confirmed \ {w}
  /\ removing' = removing \ {w}
  /\ UNCHANGED <<token, refused, disposed, told>>

-----------------------------------------------------------------------------
Step(w) ==
  \/ StandDown(w) \/ ReadToken(w) \/ CreateToken(w) \/ WriteToken(w)
  \/ Bind(w) \/ Dial(w) \/ Welcomed(w) \/ HandshakeFails(w) \/ Redial(w)
  \/ Clear(w) \/ Rebind(w) \/ FirstStat(w) \/ SecondStat(w) \/ Drop(w) \/ RemovePath(w)
Next == \E w \in Windows : Open(w) \/ Step(w) \/ Dispose(w) \/ Crash(w)

Spec == Init /\ [][Next]_vars

\* Every await of a live process resolves, and a live broker answers a hello.
FairSpec ==
  Spec /\ \A w \in Windows : WF_vars(Step(w)) /\ SF_vars(Welcomed(w))

-----------------------------------------------------------------------------
(* Properties.                                                             *)

\* Roles never flip downward: a window that was told it is the broker stays it
\* until it is closed, so no service outlives its role (brokerConfirmed,
\* stillOurs, ensurePeerNet).
RolesNeverFlip ==
  \A w \in told \ disposed : pc[w] # "dead" => IsPeerBroker(w)

\* A window without a role is contending for one: no path through the loop, a
\* lost socket or a stand-down leaves it waiting for nobody (contend, drop).
NobodyGivesUp ==
  \A w \in Windows :
    pc[w] \in {"closed", "dead"} \/ w \in disposed \/ Contending(w)
    \/ IsPeerLinkSettled(w) \/ client[w] = Lost

\* Nothing outlives a closed window: whatever await it was closed in, its loop
\* ends with no server and no connection (attempt, disposePeerLink).
DisposedHoldsNothing ==
  \A w \in disposed : w \notin server /\ (Contending(w) \/ client[w] = None)

\* No window both serves and is served (contend, attempt).
OneRoleAtATime ==
  \A w \in Windows : w \in server => client[w] = None

\* All windows end up with the one token of the file, however their first
\* reads and writes fall together (ensureToken, readSharedToken).
OneToken ==
  \A w \in Windows :
    pc[w] \in Awaits \ TokenAwaits \/ w \in server => tok[w] # None /\ tok[w] = tokenFile

\* What a window relies on while the others contend: its type and the four above, whose
\* repairs pull against each other (a role kept too long, or given up by
\* nobody, is each time the fix of the other; contend, attempt, ensureToken).
RolesAreSound == TypeOK /\ RolesNeverFlip /\ NobodyGivesUp /\ DisposedHoldsNothing /\ OneToken

\* Whoever asks for a role gets an answer: broker, client, or stood down.
EveryWindowSettles ==
  \A w \in Windows :
    pc[w] # "closed" ~> IsPeerLinkSettled(w) \/ w \in disposed \/ pc[w] = "dead"

\* vscode-ext/src/peer-link.ts:1167: nothing can displace an uncontested bind, so
\* it is believed immediately.  A believed broker keeps the path it bound.
BelievedBindStands ==
  [][\A w \in Windows : IsPeerBroker(w) /\ path = w /\ IsPeerBroker(w)' => path' = w]_vars
=============================================================================
