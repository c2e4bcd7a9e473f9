--------------------------- MODULE BurrowPairing ---------------------------
(***************************************************************************)
(* lib/src/remote/burrow/burrow-runtime.ts: the invitations a Burrow shows *)
(* as setup codes, the pairing ceremonies phones start against them, the   *)
(* confirmation at the machine and the write of the access list.  Around   *)
(* it: the pairing queue of lib/src/host/remote/service.ts and the serial  *)
(* queue of saves.                                                         *)
(*                                                                         *)
(* Frames are handled one at a time; everything that awaits is two steps,  *)
(* and mints, local answers, saves, timers and teardowns fall in between.  *)
(* An invitation takes one request, so its number also names the pairing   *)
(* (pairingId) and the access record it leads to.  Cryptography, labels and *)
(* the token bucket are left out: a refused handshake changes nothing.     *)
(***************************************************************************)
EXTENDS Integers, Sequences, FiniteSets, FiniteSetsExt

CONSTANTS
  Clients,       \* relay client ids
  Minters,       \* setupQr calls that may overlap
  MaxMints,      \* bound: invitations minted
  MaxTokens,     \* MAX_TOKENS_PER_BURROW
  MaxPairings,   \* MAX_PENDING_PAIRINGS
  TTL,           \* DEFAULT_PAIRING_TTL_MS
  MaxTime,       \* bound: the clock
  MaxEpochs,     \* bound: teardowns
  None           \* undefined, null

\* The caps leave room for one, the time to live is a number of milliseconds.
ASSUME BoundsAssumption ==
  /\ {MaxMints, TTL, MaxTime, MaxEpochs} \subseteq Nat
  /\ {MaxTokens, MaxPairings} \subseteq Nat \ {0}

VARIABLES
  status,     \* up, down (a socket may come again) or stopped
  now,        \* the clock
  epoch,      \* #epoch
  invite,     \* #invitations: unminted, live, reserved or gone
  expiresAt,  \* of each invitation and its pairing
  announced,  \* the last state onInvitationChanged gave for it
  outcome,    \* the PairingOutcome that rode along
  minting,    \* mints in their keygen: the epoch they captured
  step,       \* the frame whose handler awaits
  pairing,    \* ClientState.pairing
  modal,      \* the service's #pairings
  saves,      \* approvals in the serial queue
  saving,     \* the approval whose saveAcl is under way
  acl, disk,  \* records in memory and in the store
  told,       \* the PairingOutcomeV1 sent to the phone
  reaperAt    \* #reaperAt

vars == <<status, now, epoch, invite, expiresAt, announced, outcome, minting, step,
          pairing, modal, saves, saving, acl, disk, told, reaperAt>>
codes == <<invite, announced, outcome>>
ceremony == <<pairing, modal, told>>
access == <<saves, saving, acl, disk>>

Ids == 1 .. MaxMints
Denials == {"user-denied", "confirmation-mismatch", "presence-rejected",
            "invitation-expired", "superseded", "burrow-error"}
Outcomes == {"paired", "code-mismatch", "cancelled", "expired", "superseded", "burrow-error"}
Pairings == [invite : Ids, requestedAt : 0 .. MaxTime, approval : BOOLEAN,
             attempted : BOOLEAN, committing : BOOLEAN]

TypeOK ==
  /\ status \in {"up", "down", "stopped"} /\ now \in 0 .. MaxTime /\ epoch \in 0 .. MaxEpochs
  /\ invite \in [Ids -> {"unminted", "live", "reserved", "gone"}]
  /\ expiresAt \in [Ids -> 0 .. MaxTime + TTL]
  /\ announced \in [Ids -> {None, "reserved", "consumed", "expired", "dropped"}]
  /\ outcome \in [Ids -> Outcomes \cup {None}]
  /\ minting \in [Minters -> 0 .. MaxEpochs \cup {None}]
  /\ step \in [kind : {"init", "proof"}, client : Clients, invite : Ids, epoch : 0 .. MaxEpochs] \cup {None}
  /\ pairing \in [Clients -> Pairings \cup {None}]
  /\ modal \in [Clients -> Ids \cup {None}]
  /\ saves \in Seq([client : Clients, invite : Ids])
  /\ saving \in [client : Clients, invite : Ids, next : SUBSET Ids] \cup {None}
  /\ acl \in SUBSET Ids /\ disk \in SUBSET Ids
  /\ told \in [Ids -> Denials \cup {"ok", None}]
  /\ reaperAt \in 0 .. MaxTime + TTL \cup {None}

Init ==
  /\ status = "up" /\ now = 0 /\ epoch = 0
  /\ invite = [i \in Ids |-> "unminted"] /\ expiresAt = [i \in Ids |-> 0]
  /\ announced = [i \in Ids |-> None] /\ outcome = [i \in Ids |-> None]
  /\ minting = [m \in Minters |-> None] /\ step = None
  /\ pairing = [c \in Clients |-> None] /\ modal = [c \in Clients |-> None]
  /\ saves = <<>> /\ saving = None /\ acl = {} /\ disk = {}
  /\ told = [i \in Ids |-> None] /\ reaperAt = None

-----------------------------------------------------------------------------
(* How ceremonies and invitations end.                                     *)

Held == {i \in Ids : invite[i] \in {"live", "reserved"}}
Pending == {c \in Clients : pairing[c] # None}
LateInvites == {i \in Held : expiresAt[i] <= now}
LateClients == {c \in Pending : expiresAt[pairing[c].invite] <= now}

\* PAIRING_OUTCOME_FOR_DENIAL, and what ends without a message.
OutcomeFor(code) ==
  CASE code = "ok" -> "paired"
    [] code = "user-denied" -> "cancelled"
    [] code = "confirmation-mismatch" -> "code-mismatch"
    [] code = "invitation-expired" -> "expired"
    [] code = "superseded" -> "superseded"
    [] code \in {"presence-rejected", "burrow-error", "poisoned"} -> "burrow-error"
    [] OTHER -> None

Denial_Always(c, code) == code
\* finishPairing: a write under way is not denied.
Denial(c, code) == IF pairing[c].committing THEN None ELSE code

\* A dead cipher carries no answer.
Sent(code) == code \notin {None, "poisoned"}

\* The ceremonies of cs end, each c with code[c] (None: without a word).
Ceremonies(cs, code) ==
  /\ pairing' = [c \in Clients |-> IF c \in cs THEN None ELSE pairing[c]]
  /\ modal' = [c \in Clients |-> IF c \in cs THEN None ELSE modal[c]]
  /\ told' = [i \in Ids |->
       IF \E c \in cs : pairing[c].invite = i /\ Sent(code[c])
       THEN code[CHOOSE c \in cs : pairing[c].invite = i] ELSE told[i]]

RetiredAs_Stated(i, label) == label
\* retireInvitation: a reserved one always ends consumed.
RetiredAs(i, label) == IF invite[i] = "reserved" THEN "consumed" ELSE label

\* retireInvitation for the invitations of the ceremonies of cs and for those
\* of is: nothing for one that is no longer held.
Spent(cs) == {i \in Held : \E c \in cs : pairing[c].invite = i}
Retire(cs, code, is, label) ==
  /\ invite' = [i \in Ids |-> IF i \in Spent(cs) \cup (is \cap Held) THEN "gone" ELSE invite[i]]
  /\ announced' = [i \in Ids |->
       IF i \in Spent(cs) \cup (is \cap Held)
       THEN RetiredAs(i, IF i \in Spent(cs) THEN "consumed" ELSE label) ELSE announced[i]]
  /\ outcome' = [i \in Ids |->
       IF i \in Spent(cs) THEN OutcomeFor(code[CHOOSE c \in cs : pairing[c].invite = i])
       ELSE outcome[i]]

End_CodeStays(c, code) == Ceremonies({c}, [d \in {c} |-> code]) /\ UNCHANGED codes
\* One ceremony ends (finishPairing, disposePairing).
End(c, code) ==
  LET each == [d \in {c} |-> code] IN
  Ceremonies({c}, each) /\ Retire({c}, each, {}, None)

\* What is due at t of the invitations and pairings given.
Deadlines(inv, pair, exp) ==
  {exp[i] : i \in {j \in Ids : inv[j] \in {"live", "reserved"}}}
    \cup {exp[pair[c].invite] : c \in {d \in Clients : pair[d] # None}}
Armed_Once(old, due) == IF due = {} THEN None ELSE IF old # None THEN old ELSE Min(due)
\* An armed timer that is soon enough stays.
Armed(old, due) ==
  IF due = {} THEN None
  ELSE IF old # None /\ Min(due) >= old THEN old ELSE Min(due)
\* armReaper
ArmReaper(old, exp) == reaperAt' = Armed(old, Deadlines(invite', pairing', exp))

\* What the late ceremonies end with; those of cs ended with code before.
Expiry(cs, code) ==
  [c \in cs \cup LateClients |-> IF c \in cs THEN code ELSE Denial(c, "invitation-expired")]
EndAndReap_CodesFirst(cs, code) ==
  /\ Ceremonies(cs \cup LateClients, Expiry(cs, code))
  /\ Retire(cs, Expiry(cs, code), LateInvites, "expired")
  /\ ArmReaper(reaperAt, expiresAt)
\* reap, after the ceremonies of cs ended with their code: clients first.
EndAndReap(cs, code) ==
  /\ Ceremonies(cs \cup LateClients, Expiry(cs, code))
  /\ Retire(cs \cup LateClients, Expiry(cs, code), LateInvites, "expired")
  /\ ArmReaper(reaperAt, expiresAt)
Reap == EndAndReap({}, None)

-----------------------------------------------------------------------------
(* The socket.                                                             *)

\* dropTransientState
DropTransientState ==
  LET silent == [c \in Pending |-> None] IN
  /\ epoch < MaxEpochs /\ epoch' = epoch + 1
  /\ Ceremonies(Pending, silent) /\ Retire(Pending, silent, Held, "dropped")

\* onClose, a queue that overflowed included.
Close ==
  /\ status = "up" /\ status' = "down"
  /\ DropTransientState
  /\ ArmReaper(reaperAt, expiresAt)
  /\ UNCHANGED <<now, expiresAt, minting, step, access>>

Stop ==
  /\ status # "stopped" /\ status' = "stopped"
  /\ DropTransientState
  /\ reaperAt' = None
  /\ UNCHANGED <<now, expiresAt, minting, step, access>>

\* A socket opens: after a backoff, or by start().
Opens ==
  /\ status = "down" /\ status' = "up"
  /\ Reap
  /\ UNCHANGED <<now, epoch, expiresAt, minting, step, access>>

\* The armed timer fires.
ReaperFires ==
  /\ reaperAt # None /\ reaperAt <= now
  /\ Ceremonies(LateClients, Expiry({}, None))
  /\ Retire(LateClients, Expiry({}, None), LateInvites, "expired")
  /\ ArmReaper(None, expiresAt)
  /\ UNCHANGED <<status, now, epoch, expiresAt, minting, step, access>>

Tick ==
  /\ now < MaxTime /\ now' = now + 1
  /\ UNCHANGED <<status, epoch, codes, expiresAt, minting, step, ceremony, access, reaperAt>>

-----------------------------------------------------------------------------
(* Invitations.                                                            *)

\* mintInvitation: setupQr asks only the runtime the service still holds.
MintBegins(m) ==
  /\ minting[m] = None /\ status # "stopped"
  /\ minting' = [minting EXCEPT ![m] = epoch]
  /\ UNCHANGED <<status, now, epoch, codes, expiresAt, step, ceremony, access, reaperAt>>

Straddled_Never(m) == FALSE
Straddled(m) == minting[m] # epoch

MintRefused(m) ==
  /\ minting[m] # None /\ Straddled(m)
  /\ minting' = [minting EXCEPT ![m] = None]
  /\ UNCHANGED <<status, now, epoch, codes, expiresAt, step, ceremony, access, reaperAt>>

\* The oldest that make room for one more.
Evicted(left) == {i \in left : Cardinality({j \in left : j > i}) >= MaxTokens - 1}

MintDone(m) ==
  /\ minting[m] # None /\ ~Straddled(m)
  /\ minting' = [minting EXCEPT ![m] = None]
  /\ \E i \in Ids, e \in now .. now + TTL :
       LET ended == Expiry({}, None)
           out == Evicted(Held \ LateInvites)
           Label(j) == IF j \in LateInvites THEN "expired" ELSE "dropped"
           retired == LateInvites \cup out IN
       /\ invite[i] = "unminted" /\ \A j \in 1 .. i - 1 : invite[j] # "unminted"
       /\ Ceremonies(LateClients, ended)
       /\ invite' = [j \in Ids |-> IF j = i THEN "live"
                                   ELSE IF j \in Spent(LateClients) \cup retired THEN "gone" ELSE invite[j]]
       /\ announced' = [j \in Ids |-> IF j \in Spent(LateClients) \cup retired
                                      THEN RetiredAs(j, Label(j)) ELSE announced[j]]
       /\ outcome' = [j \in Ids |-> IF j \in Spent(LateClients)
                                    THEN OutcomeFor(ended[CHOOSE c \in LateClients : pairing[c].invite = j])
                                    ELSE outcome[j]]
       /\ expiresAt' = [expiresAt EXCEPT ![i] = e]
  /\ ArmReaper(reaperAt, expiresAt')
  /\ UNCHANGED <<status, now, epoch, step, access>>

-----------------------------------------------------------------------------
(* Frames: handled one at a time, only while the socket is up; a handler   *)
(* that awaits survives the socket.                                        *)

Idle == status = "up" /\ step = None

\* Any other init only sweeps.
OtherInit ==
  /\ Idle /\ Reap
  /\ UNCHANGED <<status, now, epoch, expiresAt, minting, step, access>>

\* onPairingInit to its await.
InitBegins(c, i) ==
  /\ Idle
  /\ Reap
  /\ invite[i] = "live" /\ expiresAt[i] > now
  /\ step' = [kind |-> "init", client |-> c, invite |-> i, epoch |-> epoch]
  /\ UNCHANGED <<status, now, epoch, expiresAt, minting, access>>

\* A handshake that resumes: the invitation is still the live one.
StillTheirs == step.epoch = epoch /\ invite[step.invite] \in {"live", "reserved"}

\* It failed, or nothing is left to reserve.
InitFails ==
  /\ step # None /\ step.kind = "init"
  /\ step' = None
  /\ UNCHANGED <<status, now, epoch, codes, expiresAt, minting, ceremony, access, reaperAt>>

\* evictOldestPairingIfFull; among equals the order of the client map decides.
Displaced(others) ==
  IF Cardinality(others) < MaxPairings THEN {{}}
  ELSE {{c} : c \in {d \in others : \A e \in others : pairing[d].requestedAt <= pairing[e].requestedAt}}

InitDone ==
  /\ step # None /\ step.kind = "init" /\ StillTheirs
  /\ step' = None
  /\ \E gone \in Displaced(Pending \ {step.client}) :
       LET c == step.client  i == step.invite
           over == gone \cup ({c} \cap Pending)
           All(d) == Denial(d, "superseded") IN
       /\ pairing' = [d \in Clients |->
            IF d = c THEN [invite |-> i, requestedAt |-> now, approval |-> FALSE,
                           attempted |-> FALSE, committing |-> FALSE]
            ELSE IF d \in over THEN None ELSE pairing[d]]
       /\ modal' = [d \in Clients |-> IF d \in over THEN None ELSE modal[d]]
       /\ told' = [j \in Ids |->
            IF \E d \in over : pairing[d].invite = j /\ All(d) # None THEN "superseded" ELSE told[j]]
       /\ invite' = [j \in Ids |-> IF j = i THEN "reserved" ELSE IF j \in Spent(over) THEN "gone" ELSE invite[j]]
       /\ announced' = [j \in Ids |-> IF j = i THEN "reserved"
                                      ELSE IF j \in Spent(over) THEN "consumed" ELSE announced[j]]
       /\ outcome' = [j \in Ids |-> IF j \in Spent(over)
                                    THEN OutcomeFor(All(CHOOSE d \in over : pairing[d].invite = j))
                                    ELSE outcome[j]]
  /\ ArmReaper(reaperAt, expiresAt)
  /\ UNCHANGED <<status, now, epoch, expiresAt, minting, access>>

\* onPairingTransport of a frame for the pending id.
Late(c) == expiresAt[pairing[c].invite] <= now
TransportLate(c) ==
  /\ Idle /\ pairing[c] # None /\ Late(c)
  /\ End(c, Denial(c, "invitation-expired"))
  /\ UNCHANGED <<status, now, epoch, expiresAt, minting, step, access, reaperAt>>
\* It does not decrypt.
TransportPoisoned(c) ==
  /\ Idle /\ pairing[c] # None /\ ~Late(c)
  /\ End(c, "poisoned")
  /\ UNCHANGED <<status, now, epoch, expiresAt, minting, step, access, reaperAt>>
\* It is no pairing request.
TransportMalformed(c) ==
  /\ Idle /\ pairing[c] # None /\ ~Late(c) /\ ~pairing[c].approval
  /\ End(c, Denial(c, "burrow-error"))
  /\ UNCHANGED <<status, now, epoch, expiresAt, minting, step, access, reaperAt>>
ProofBegins(c) ==
  /\ Idle /\ pairing[c] # None /\ ~Late(c) /\ ~pairing[c].approval
  /\ step' = [kind |-> "proof", client |-> c, invite |-> pairing[c].invite, epoch |-> epoch]
  /\ UNCHANGED <<status, now, epoch, codes, expiresAt, minting, ceremony, access, reaperAt>>

\* The pairing an await or a queued job left is still the client's.
Is(c, i) == pairing[c] # None /\ pairing[c].invite = i

Surfaced(c, i) ==
  LET shown == {d \in Clients : modal[d] # None} IN
  IF Cardinality(shown) < MaxPairings THEN modal' = [modal EXCEPT ![c] = i]
  ELSE \E d \in shown : modal' = [modal EXCEPT ![d] = None, ![c] = i]
ProofHolds_Anyone ==
  /\ step # None /\ step.kind = "proof"
  /\ step' = None
  /\ pairing' = [pairing EXCEPT ![step.client] = IF @ = None THEN @ ELSE [@ EXCEPT !.approval = TRUE]]
  /\ Surfaced(step.client, step.invite)
  /\ UNCHANGED <<status, now, epoch, codes, expiresAt, minting, told, access, reaperAt>>
ProofHolds ==
  /\ step # None /\ step.kind = "proof"
  /\ Is(step.client, step.invite)
  /\ step' = None
  /\ pairing' = [pairing EXCEPT ![step.client].approval = TRUE]
  /\ Surfaced(step.client, step.invite)
  /\ UNCHANGED <<status, now, epoch, codes, expiresAt, minting, told, access, reaperAt>>
ProofFails ==
  /\ step # None /\ step.kind = "proof"
  /\ Is(step.client, step.invite)
  /\ step' = None
  /\ End(step.client, Denial(step.client, "presence-rejected"))
  /\ UNCHANGED <<status, now, epoch, expiresAt, minting, access, reaperAt>>
\* The client may have gone, or been superseded.
ProofMoot ==
  /\ step # None /\ step.kind = "proof"
  /\ ~Is(step.client, step.invite)
  /\ step' = None
  /\ UNCHANGED <<status, now, epoch, codes, expiresAt, minting, ceremony, access, reaperAt>>

\* onClientGone
ClientGone(c) ==
  /\ Idle
  /\ EndAndReap({c} \cap Pending, None)
  /\ UNCHANGED <<status, now, epoch, expiresAt, minting, step, access>>

-----------------------------------------------------------------------------
(* The answer at the machine.                                              *)

\* approvePairing: the attempt is spent, then the typed digits decide.
Answerable(c) == modal[c] # None /\ Is(c, modal[c]) /\ pairing[c].approval /\ ~pairing[c].attempted
ApproveRefused(c) ==
  /\ Answerable(c)
  /\ \/ Late(c) /\ End(c, Denial(c, "invitation-expired"))
     \/ ~Late(c) /\ End(c, Denial(c, "confirmation-mismatch"))
  /\ UNCHANGED <<status, now, epoch, expiresAt, minting, step, access, reaperAt>>
Approve(c) ==
  /\ Answerable(c) /\ ~Late(c)
  /\ pairing' = [pairing EXCEPT ![c].attempted = TRUE]
  /\ saves' = Append(saves, [client |-> c, invite |-> pairing[c].invite])
  /\ UNCHANGED <<status, now, epoch, codes, expiresAt, minting, step, modal, told, saving, acl, disk, reaperAt>>

\* denyPairing
Deny(c) ==
  /\ modal[c] # None /\ Is(c, modal[c]) /\ ~pairing[c].attempted
  /\ EndAndReap({c}, Denial(c, "user-denied"))
  /\ UNCHANGED <<status, now, epoch, expiresAt, minting, step, access>>

\* The job's turn in the serial queue, to its await.
SaveMoot ==
  /\ saves # <<>> /\ saving = None
  /\ LET job == Head(saves) IN
     \/ /\ ~Is(job.client, job.invite)
        /\ UNCHANGED <<codes, ceremony>>
     \/ /\ Is(job.client, job.invite) /\ Late(job.client)
        /\ End(job.client, Denial(job.client, "invitation-expired"))
  /\ saves' = Tail(saves)
  /\ UNCHANGED <<status, now, epoch, expiresAt, minting, step, saving, acl, disk, reaperAt>>
SaveBegins ==
  /\ saves # <<>> /\ saving = None
  /\ LET job == Head(saves) IN
     /\ Is(job.client, job.invite) /\ ~Late(job.client)
     /\ pairing' = [pairing EXCEPT ![job.client].committing = TRUE]
     /\ saving' = [client |-> job.client, invite |-> job.invite, next |-> acl \cup {job.invite}]
  /\ saves' = Tail(saves)
  /\ UNCHANGED <<status, now, epoch, codes, expiresAt, minting, step, modal, told, acl, disk, reaperAt>>

\* The write ended: the answer goes to the ceremony only if it is still there.
AnswerSave(code) ==
  IF Is(saving.client, saving.invite)
  THEN EndAndReap({saving.client}, code)
  ELSE UNCHANGED <<codes, ceremony, reaperAt>>
SaveDone ==
  /\ saving # None
  /\ disk' = saving.next /\ acl' = saving.next /\ saving' = None
  /\ AnswerSave("ok")
  /\ UNCHANGED <<status, now, epoch, expiresAt, minting, step, saves>>
SaveFails ==
  /\ saving # None /\ saving' = None
  /\ AnswerSave("burrow-error")
  /\ UNCHANGED <<status, now, epoch, expiresAt, minting, step, saves, acl, disk>>

-----------------------------------------------------------------------------
Next ==
  \/ Close \/ Stop \/ Opens \/ ReaperFires \/ Tick
  \/ \E m \in Minters : MintBegins(m) \/ MintRefused(m) \/ MintDone(m)
  \/ OtherInit \/ InitFails \/ InitDone \/ ProofHolds \/ ProofFails \/ ProofMoot
  \/ \E c \in Clients, i \in Ids : InitBegins(c, i)
  \/ \E c \in Clients : \/ TransportLate(c) \/ TransportPoisoned(c) \/ TransportMalformed(c)
                        \/ ProofBegins(c) \/ ClientGone(c)
                        \/ ApproveRefused(c) \/ Approve(c) \/ Deny(c)
  \/ SaveMoot \/ SaveBegins \/ SaveDone \/ SaveFails

Spec == Init /\ [][Next]_vars

-----------------------------------------------------------------------------
(* Properties.                                                             *)

\* Each invitation accepts one request: a reserved code has exactly one
\* ceremony, and no two ceremonies share a code (onPairingInit, mintInvitation).
OneCeremonyPerCode ==
  /\ \A i \in Ids : invite[i] = "reserved" => \E c \in Pending : pairing[c].invite = i
  /\ \A c, d \in Pending : pairing[c].invite = pairing[d].invite => c = d
  /\ \A c \in Pending : invite[pairing[c].invite] \in {"reserved", "gone"}

\* A phone told it is paired is in the store, one told it is not never gets in,
\* and nobody has access that a restart would take away (approvePairing).
AnswerMatchesAccess ==
  /\ acl \subseteq disk
  /\ \A i \in Ids : /\ told[i] = "ok" => i \in disk
                    /\ told[i] \in Denials => i \notin disk

\* A stopped Burrow holds nothing and arms nothing, whatever was awaiting when
\* it stopped (stop, dropTransientState and the epoch).
StoppedHoldsNothing ==
  status = "stopped" => Held = {} /\ Pending = {} /\ reaperAt = None /\ \A c \in Clients : modal[c] = None

\* The person at the machine is shown exactly the ceremonies that wait for an
\* answer (requestApproval, dismissApproval, the service's #pairings).
ModalIsPending ==
  \A c \in Clients : modal[c] = IF c \in Pending /\ pairing[c].approval THEN pairing[c].invite ELSE None

\* The caps hold across overlapping mints and evictions (mintInvitation,
\* evictOldestPairingIfFull).
WithinCaps == Cardinality(Held) <= MaxTokens /\ Cardinality(Pending) <= MaxPairings

\* Whatever expires is covered by the armed timer (armReaper).
ReaperCovers ==
  \A t \in Deadlines(invite, pairing, expiresAt) : reaperAt # None /\ reaperAt <= t

\* What a Burrow holds belongs to something that will end it: a code to one
\* ceremony, a question on screen to a ceremony that waits for it, a deadline
\* to the armed timer, nothing to a Burrow that stopped; and it keeps its caps.
NothingDangles ==
  TypeOK /\ OneCeremonyPerCode /\ StoppedHoldsNothing /\ ModalIsPending /\ WithinCaps /\ ReaperCovers

\* What the panel hears of a code: a scan is never reported as none, none
\* never as a scan, and nothing after its end (retireInvitation); and what a
\* phone is told while its code is reserved it hears in the same step, for no
\* sweep retires the code first and loses the outcome (reap).
Follows(a, b) == \/ a = b
                 \/ a = None /\ b \in {"reserved", "expired", "dropped"}
                 \/ a = "reserved" /\ b = "consumed"
Reaches(i) ==
  told'[i] # told[i] /\ invite[i] = "reserved" =>
    outcome'[i] = OutcomeFor(told'[i]) /\ announced'[i] = "consumed"
PanelOrder == [][\A i \in Ids : Follows(announced[i], announced'[i]) /\ Reaches(i)]_vars

\* The panel and the phone hear the same of one pairing, however answers, saves,
\* sweeps and teardowns fall: paired is in the store, a refusal is not, and only
\* burrow-error may stand for a phone that heard nothing (finishPairing).
PanelMatchesPhone ==
  \A i \in Ids : outcome[i] # None =>
    /\ outcome[i] = OutcomeFor(told[i]) \/ (outcome[i] = "burrow-error" /\ told[i] = None)
    /\ outcome[i] = "paired" => i \in disk
    /\ outcome[i] \in Outcomes \ {"paired", "burrow-error"} => i \notin disk

\* Phone, panel and store agree on how a pairing ended.
AnswersAgree == AnswerMatchesAccess /\ PanelMatchesPhone

\* An outcome other than paired names why nothing was written (PairingOutcome).
PanelIsRight == \A i \in Ids : outcome[i] \in Outcomes \ {"paired"} => i \notin disk
=============================================================================
