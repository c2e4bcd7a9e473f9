--------------------------- MODULE BurrowSessions ---------------------------
(***************************************************************************)
(* lib/src/remote/burrow/burrow-runtime.ts: how a phone connects to the    *)
(* Burrow it paired with.  A handshake, a challenge, a presence proof and  *)
(* the answer; then an established session and the remote-api handler that *)
(* serves it, until it is replaced, idle, broken or gone.                  *)
(*                                                                         *)
(* Frames are handled one at a time.  A handshake and the check of a proof *)
(* await, so the reaper, teardowns and the handlers' own sends fall in     *)
(* between.  A connection is numbered by its handshake, and so is its      *)
(* challenge; clients and phones are numbered when first seen.  Whether a  *)
(* proof verifies and the access list holds the phone is left open;        *)
(* cryptography and the token bucket are left out.                         *)
(***************************************************************************)
EXTENDS Integers, FiniteSets, FiniteSetsExt

CONSTANTS
  MaxClients,    \* bound: relay client ids
  MaxPhones,     \* bound: Client statics
  MaxInits,      \* bound: handshakes
  MaxSessions,   \* MAX_ESTABLISHED_E2E_SESSIONS
  MaxPending,    \* MAX_PENDING_CONNECTION_HANDSHAKES
  ChallengeTTL,  \* DEFAULT_CHALLENGE_TTL_MS
  IdleTimeout,   \* ESTABLISHED_E2E_IDLE_TIMEOUT_MS
  MaxTime,       \* bound: the clock
  MaxEpochs,     \* bound: teardowns
  None           \* undefined, null

VARIABLES
  status,       \* up, down (a socket may come again) or stopped
  now,          \* the clock
  epoch,        \* #epoch
  step,         \* the frame whose handler awaits
  peer,         \* of each connection: its client id, phone and the epoch of its init
  issued,       \* #challenges: those not yet consumed
  expiresAt,    \* of each challenge and the pending connection it came with
  connection,   \* ClientState.connection
  established,  \* ClientState.established
  activity,     \* lastClientActivityAt
  api,          \* the remote-api handler of each connection
  told,         \* the ConnectionOutcomeV1 sent on it
  reaperAt      \* #reaperAt

vars == <<status, now, epoch, step, peer, issued, expiresAt, connection, established,
          activity, api, told, reaperAt>>
held == <<issued, connection, established, api, told>>

Ids == 1 .. MaxInits
Clients == 1 .. MaxClients
Phones == 1 .. MaxPhones
Codes == {"ok", "protocol-rejected", "presence-rejected", "pairing-required", "burrow-busy"}

TypeOK ==
  /\ status \in {"up", "down", "stopped"} /\ now \in 0 .. MaxTime /\ epoch \in 0 .. MaxEpochs
  /\ step \in [kind : {"init", "issued", "proof"}, id : Ids, valid : BOOLEAN] \cup {None}
  /\ peer \in [Ids -> [client : Clients, phone : Phones, epoch : 0 .. MaxEpochs] \cup {None}]
  /\ issued \in SUBSET Ids /\ expiresAt \in [Ids -> 0 .. MaxTime + ChallengeTTL]
  /\ connection \in [Clients -> Ids \cup {None}] /\ established \in [Clients -> Ids \cup {None}]
  /\ activity \in [Ids -> 0 .. MaxTime]
  /\ api \in [Ids -> {"none", "live", "disposed"}]
  /\ told \in [Ids -> Codes \cup {None}]
  /\ reaperAt \in 0 .. MaxTime + ChallengeTTL + IdleTimeout \cup {None}

Init ==
  /\ status = "up" /\ now = 0 /\ epoch = 0 /\ step = None
  /\ peer = [i \in Ids |-> None] /\ issued = {} /\ expiresAt = [i \in Ids |-> 0]
  /\ connection = [c \in Clients |-> None] /\ established = [c \in Clients |-> None]
  /\ activity = [i \in Ids |-> 0] /\ api = [i \in Ids |-> "none"]
  /\ told = [i \in Ids |-> None] /\ reaperAt = None

-----------------------------------------------------------------------------
(* How connections and sessions end.                                       *)

Pending == {c \in Clients : connection[c] # None}
Sessions == {c \in Clients : established[c] # None}
Phone(c) == peer[established[c]].phone

\* disposeConnection for cs and disposeEstablished for ss: a challenge and a
\* handler end with the entry that names them.
Forget(cs, ss) ==
  /\ connection' = [c \in Clients |-> IF c \in cs THEN None ELSE connection[c]]
  /\ issued' = issued \ {connection[c] : c \in cs}
  /\ established' = [c \in Clients |-> IF c \in ss THEN None ELSE established[c]]
  /\ api' = [i \in Ids |-> IF \E c \in ss : established[c] = i THEN "disposed" ELSE api[i]]

\* The connections of cs hear code.
Tell(cs, code) == told' = [i \in Ids |-> IF \E c \in cs : connection[c] = i THEN code ELSE told[i]]

\* The deadlines of what is held, and the timer armed for the soonest.
Deadlines(conn, est, act) ==
  {expiresAt[conn[c]] : c \in {d \in Clients : conn[d] # None}}
    \cup {act[est[c]] + IdleTimeout : c \in {d \in Clients : est[d] # None}}
ArmReaper(old) ==
  LET due == Deadlines(connection', established', activity') IN
  reaperAt' = IF due = {} THEN None
              ELSE IF old # None /\ Min(due) >= old THEN old ELSE Min(due)

LateConnections == {c \in Pending : expiresAt[connection[c]] <= now}
LateSessions == {c \in Sessions : activity[established[c]] + IdleTimeout <= now}

\* reap, after the entries of gone were disposed of without a word.
ForgetAndReap(gone) ==
  /\ Forget(gone \cup LateConnections, gone \cup LateSessions)
  /\ Tell(LateConnections \ gone, "presence-rejected")
Reap == ForgetAndReap({})

-----------------------------------------------------------------------------
(* The socket.                                                             *)

\* dropTransientState
DropTransientState ==
  /\ epoch < MaxEpochs /\ epoch' = epoch + 1
  /\ Forget(Clients, Clients)
  /\ reaperAt' = None
  /\ UNCHANGED <<now, step, peer, expiresAt, activity, told>>

Close == status = "up" /\ status' = "down" /\ DropTransientState
Stop == status # "stopped" /\ status' = "stopped" /\ DropTransientState

\* A socket opens: after a backoff, or by start().
Opens ==
  /\ status = "down" /\ status' = "up"
  /\ Reap
  /\ UNCHANGED <<now, epoch, step, peer, expiresAt, activity>>
  /\ ArmReaper(reaperAt)

ReaperFires ==
  /\ reaperAt # None /\ reaperAt <= now
  /\ Reap
  /\ UNCHANGED <<status, now, epoch, step, peer, expiresAt, activity>>
  /\ ArmReaper(None)

Tick ==
  /\ now < MaxTime /\ now' = now + 1
  /\ UNCHANGED <<status, epoch, step, peer, held, expiresAt, activity, reaperAt>>

-----------------------------------------------------------------------------
(* Handshakes.                                                             *)

Idle == status = "up" /\ step = None

Seen(field) == {peer[i][field] : i \in {j \in Ids : peer[j] # None}}
NextNumber(seen) == Max(seen \cup {0}) + 1

\* onConnectionInit to its first await: an init sweeps before it is looked at.
InitBegins(c, p) ==
  /\ Idle
  /\ c <= NextNumber(Seen("client")) /\ p <= NextNumber(Seen("phone"))
  /\ \E i \in Ids :
       /\ i = NextNumber({j \in Ids : peer[j] # None})
       /\ peer' = [peer EXCEPT ![i] = [client |-> c, phone |-> p, epoch |-> epoch]]
       /\ step' = [kind |-> "init", id |-> i, valid |-> FALSE]
  /\ Reap
  /\ UNCHANGED <<status, now, epoch, expiresAt, activity>>
  /\ ArmReaper(reaperAt)

\* Message 1 decrypted: ChallengeIssuer.issue sweeps what expired, and mints.
Issue ==
  /\ step # None /\ step.kind = "init"
  /\ step' = [step EXCEPT !.kind = "issued"]
  /\ issued' = {i \in issued : now < expiresAt[i]} \cup {step.id}
  /\ expiresAt' = [expiresAt EXCEPT ![step.id] = now + ChallengeTTL]
  /\ UNCHANGED <<status, now, epoch, peer, connection, established, activity, api, told, reaperAt>>

SameSocket_Unasked(i) == TRUE
\* No teardown since its init arrived.
SameSocket(i) == peer[i].epoch = epoch

\* Message 1 does not decrypt, or the epoch moved by the time message 2 is
\* written (which does not fail on its own).
InitFails ==
  /\ step # None /\ step.kind \in {"init", "issued"}
  /\ step.kind = "issued" => ~SameSocket(step.id)
  /\ step' = None
  /\ UNCHANGED <<status, now, epoch, peer, held, expiresAt, activity, reaperAt>>

\* evictOldestConnectionIfFull; among equals the order of the client map decides.
Displaced(others) ==
  IF Cardinality(others) < MaxPending THEN {{}}
  ELSE {{c} : c \in {d \in others :
          \A e \in others : expiresAt[connection[d]] <= expiresAt[connection[e]]}}

InitDone ==
  /\ step # None /\ step.kind = "issued" /\ SameSocket(step.id)
  /\ step' = None
  /\ LET c == peer[step.id].client IN
     \E out \in Displaced(Pending \ {c}) :
       /\ connection' = [d \in Clients |-> IF d = c THEN step.id
                                           ELSE IF d \in out THEN None ELSE connection[d]]
       /\ issued' = issued \ {connection[d] : d \in out \cup {c}}
  /\ UNCHANGED <<status, now, epoch, peer, expiresAt, established, activity, api, told>>
  /\ ArmReaper(reaperAt)

-----------------------------------------------------------------------------
(* Transport on a pending connection.                                      *)

quiet == <<status, now, epoch, peer, expiresAt, activity, reaperAt>>

\* A frame that does not decrypt.
Undecryptable(c) ==
  /\ Idle /\ c \in Pending
  /\ Forget({c}, {})
  /\ UNCHANGED <<quiet, step, told>>

\* Anything but a connection request.
NotARequest(c) ==
  /\ Idle /\ c \in Pending
  /\ Forget({c}, {}) /\ Tell({c}, "protocol-rejected")
  /\ UNCHANGED <<quiet, step>>

\* A request: its challenge is consumed before anything else is looked at.
Request(c) ==
  /\ Idle /\ c \in Pending
  /\ step' = [kind |-> "proof", id |-> connection[c],
              valid |-> connection[c] \in issued /\ now < expiresAt[connection[c]]]
  /\ issued' = issued \ {connection[c]}
  /\ UNCHANGED <<quiet, connection, established, api, told>>

Checked == IF step # None /\ step.kind = "proof" THEN peer[step.id].client ELSE None

StillPending_Unasked == TRUE
\* The entry is still the one the proof was about.
StillPending == connection[Checked] = step.id

ProofMoot ==
  /\ Checked # None /\ ~StillPending
  /\ step' = None
  /\ UNCHANGED <<quiet, held>>

\* denyConnection.
Refuse ==
  /\ Checked # None /\ StillPending
  /\ \E code \in {"presence-rejected", "pairing-required"} :
       /\ ~step.valid => code = "presence-rejected"
       /\ Tell({Checked}, code)
  /\ Forget({Checked}, {})
  /\ step' = None
  /\ UNCHANGED quiet

\* establishedFor: who already holds a session of p.
Incumbent(c, p) == {d \in Sessions : Phone(d) = p}
Full(c, p) == Incumbent(c, p) = {} /\ Cardinality(Sessions \ {c}) >= MaxSessions

Busy ==
  /\ Checked # None /\ StillPending /\ step.valid
  /\ Full(Checked, peer[step.id].phone)
  /\ Forget({Checked}, {}) /\ Tell({Checked}, "burrow-busy")
  /\ step' = None
  /\ UNCHANGED quiet

Replaced_All(c, p) == Sessions
Replaced_ItsOwnOnly(c, p) == {c} \cap Sessions
Replaced_NotItsOwn(c, p) == Incumbent(c, p)
\* The sessions a promotion ends: the phone's own, and the entry's own.
Replaced(c, p) == Incumbent(c, p) \cup ({c} \cap Sessions)

\* promoteConnection
Promote ==
  /\ Checked # None /\ StillPending /\ step.valid
  /\ ~Full(Checked, peer[step.id].phone)
  /\ LET c == Checked
         over == Replaced(c, peer[step.id].phone) IN
     /\ connection' = [connection EXCEPT ![c] = None]
     /\ established' = [d \in Clients |-> IF d = c THEN step.id
                                          ELSE IF d \in over THEN None ELSE established[d]]
     /\ api' = [i \in Ids |-> IF i = step.id THEN "live"
                              ELSE IF \E d \in over : established[d] = i THEN "disposed" ELSE api[i]]
     /\ activity' = [activity EXCEPT ![step.id] = now]
     /\ told' = [told EXCEPT ![step.id] = "ok"]
  /\ step' = None
  /\ UNCHANGED <<status, now, epoch, peer, issued, expiresAt>>
  /\ ArmReaper(reaperAt)

-----------------------------------------------------------------------------
(* Established sessions.                                                   *)

\* A frame that decrypts is activity, keepalive or not.
Frame(c) ==
  /\ Idle /\ c \in Sessions
  /\ activity' = [activity EXCEPT ![established[c]] = now]
  /\ UNCHANGED <<status, now, epoch, step, peer, held, expiresAt, reaperAt>>

EndSession(c) == Forget({}, {c}) /\ UNCHANGED <<quiet, step, told>>

UndecryptableFrame(c) == Idle /\ c \in Sessions /\ EndSession(c)

\* sendApp of a live handler on a poisoned cipher: it names its client, not
\* its session.
Poisoned(i) ==
  /\ api[i] = "live"
  /\ EndSession(peer[i].client)

\* client-gone, queued behind the frames before it.
ClientGone(c) ==
  /\ Idle
  /\ ForgetAndReap({c})
  /\ UNCHANGED <<status, now, epoch, step, peer, expiresAt, activity>>
  /\ ArmReaper(reaperAt)

-----------------------------------------------------------------------------
Next ==
  \/ Close \/ Stop \/ Opens \/ ReaperFires \/ Tick
  \/ \E c \in Clients, p \in Phones : InitBegins(c, p)
  \/ Issue \/ InitFails \/ InitDone
  \/ \E c \in Clients : Undecryptable(c) \/ NotARequest(c) \/ Request(c)
  \/ ProofMoot \/ Refuse \/ Busy \/ Promote
  \/ \E c \in Clients : Frame(c) \/ UndecryptableFrame(c) \/ ClientGone(c)
  \/ \E i \in Ids : Poisoned(i)

Spec == Init /\ [][Next]_vars

-----------------------------------------------------------------------------
(* Properties.                                                             *)

\* Whatever a Burrow holds for a phone came in over the socket it has now: a
\* handshake or a proof that resumes after a close, a stop or a reconnect
\* leaves nothing behind (the epoch of #onConnectionInit, the entry compared
\* after verifyPresenceProof, #dropTransientState).
NothingOutlivesItsSocket ==
  TypeOK /\ \A c \in Clients : \A i \in {connection[c], established[c]} \ {None} :
    status = "up" /\ peer[i].epoch = epoch

\* A phone holds one session wherever it connects from, and the caps hold at
\* every moment, promotions at the cap and replacements included
\* (promoteConnection, evictOldestConnectionIfFull).
OneSessionPerPhone ==
  /\ \A c, d \in Sessions : Phone(c) = Phone(d) => c = d
  /\ Cardinality(Sessions) <= MaxSessions
  /\ Cardinality(Pending) <= MaxPending

\* A remote-api handler lives exactly as long as some client's entry holds its
\* session: none is left that nobody will dispose, and none is disposed under
\* a session that still feeds it (the paths to api.dispose).
ApiFollowsSession ==
  \A i \in Ids : api[i] = "live" <=> \E c \in Clients : established[c] = i

\* What a connection hears is said once and holds, whichever of the proof, the
\* reaper and a newer handshake comes first: "ok" comes with a session, and
\* making room for it ends no session but those of the same phone or of the
\* same relay client (promoteConnection, denyConnection, the record compared
\* after verifyPresenceProof).
OutcomesHold ==
  [][/\ \A i \in Ids :
          /\ told[i] # None => told'[i] = told[i]
          /\ told'[i] = "ok" /\ told[i] = None => api'[i] = "live"
     /\ \A c, d \in Clients :
          /\ established'[d] # established[d] /\ established'[d] # None
          /\ established[c] # None /\ established'[c] # established[c]
          => c = d \/ Phone(c) = peer[established'[d]].phone]_vars
=============================================================================
