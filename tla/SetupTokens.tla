---------------------------- MODULE SetupTokens ----------------------------
(***************************************************************************)
(* relay/src/setup-token.ts and the routes of relay/src/app.ts that mint,   *)
(* spend and retire setup tokens, with AccountStore of relay/src/state.ts.  *)
(* A finish spends its token before it checks anything and puts it back     *)
(* when a check fails; between the two it awaits the enrolled Burrows, its  *)
(* checks, the account's mutex and the disk, while other finishes race the  *)
(* token, the Burrow mints, tokens expire, and burrows.json (BurrowsFile)   *)
(* changes: its rows are deleted, or an editor has it away for a moment.    *)
(*                                                                         *)
(* Tokens are numbered as minted.  The WebAuthn checks and the reads of     *)
(* burrows.json that fail are choices; setup/begin changes nothing a token  *)
(* depends on but dropping one already expired, and is left out.            *)
(***************************************************************************)
EXTENDS BurrowsFile, Integers, Sequences, FiniteSets

CONSTANTS
  Requests,     \* requests under way at a time
  Credentials,  \* credentialIds
  MaxMints,     \* bound: tokens minted
  MaxTokens,    \* MAX_TOKENS_PER_BURROW
  TokenTTL,     \* SETUP_TOKEN_TTL_MS
  MaxNow,       \* bound: the clock
  Nobody        \* no request, no token

VARIABLES
  clock,       \* now()
  mints,       \* tokens so far: who minted each, and when it expires
  tokens,      \* #tokens
  request,     \* of each request: its kind, token, credential and what it awaits
  account,     \* account.json: the credentialIds
  registered,  \* the credentials each token was answered 200 for
  retired,     \* tokens answered 204 by setup/retire
  refused      \* tokens answered 401 because their minter was not found

vars == <<file, clock, mints, tokens, request, account, registered, retired, refused>>

Tokens == 1 .. MaxMints
Minted == DOMAIN mints

TypeOK ==
  /\ clock \in 0 .. MaxNow
  /\ mints \in Seq([burrow : Burrows, expiresAt : TokenTTL .. MaxNow + TokenTTL])
  /\ tokens \subseteq Minted /\ retired \subseteq Minted /\ refused \subseteq Minted
  /\ request \in [Requests -> {Nobody} \cup
       [kind : {"finish", "retire"}, token : Tokens, credential : Credentials,
        awaits : {"gate", "checks", "mutex", "disk"}, loaded : SUBSET Credentials]]
  /\ account \subseteq Credentials
  /\ registered \in [Tokens -> SUBSET Credentials]

Init ==
  /\ FileInit
  /\ clock = 0 /\ mints = <<>> /\ tokens = {}
  /\ request = [r \in Requests |-> Nobody] /\ account = {}
  /\ registered = [t \in Tokens |-> {}] /\ retired = {} /\ refused = {}

-----------------------------------------------------------------------------
(* The issuer.                                                             *)

Expired(t) == clock >= mints[t].expiresAt
Unexpired == {t \in tokens : ~Expired(t)}

\* #prune, or #pruneExpired and #trimBurrow: what is left once burrow keeps
\* MaxTokens - 1 of its own, those that expire last; among equals the order
\* of the map decides.
Trimmed(live, burrow) ==
  LET own == {t \in live : mints[t].burrow = burrow}
      Kept(keep) == /\ Cardinality(keep) = IF Cardinality(own) < MaxTokens THEN Cardinality(own)
                                           ELSE MaxTokens - 1
                    /\ \A t \in keep, u \in own \ keep : mints[t].expiresAt >= mints[u].expiresAt
  IN {(live \ own) \cup keep : keep \in {k \in SUBSET own : Kept(k)}}

\* issue, of the setup-token route: findByToken found the Burrow's row.
Issue(b) ==
  /\ b \in rows /\ Len(mints) < MaxMints
  /\ mints' = Append(mints, [burrow |-> b, expiresAt |-> clock + TokenTTL])
  /\ \E left \in Trimmed(Unexpired, b) : tokens' = left \cup {Len(mints')}
  /\ UNCHANGED <<file, clock, request, account, registered, retired, refused>>

Restored_AboveCap(t) == {Unexpired \cup {t}}
\* restore: what tokens may be once t is put back.
Restored(t) ==
  IF Expired(t) THEN {tokens}
  ELSE {left \cup {t} : left \in Trimmed(Unexpired \ {t}, mints[t].burrow)}

-----------------------------------------------------------------------------
(* Requests.                                                               *)

Awaits(r, what) == request[r] # Nobody /\ request[r].awaits = what
Proceed(r, what) == request' = [request EXCEPT ![r].awaits = what]
Respond(r) == request' = [request EXCEPT ![r] = Nobody]
Token(r) == request[r].token

Spent_Peeked(t) == tokens
\* consume
Spent(t) == tokens \ {t}

\* readSetupGated to its await: spent, or refused at once.
Consume(r, kind, t, k) ==
  /\ request[r] = Nobody /\ t \in tokens
  /\ tokens' = Spent(t)
  /\ request' = IF Expired(t) THEN request
                ELSE [request EXCEPT ![r] = [kind |-> kind, token |-> t, credential |-> k,
                                             awaits |-> "gate", loaded |-> {}]]
  /\ UNCHANGED <<file, clock, mints, account, registered, retired, refused>>

\* burrowStore.has: the minter has no row, or there is no file to find it in.
Revoked(r) == mints[Token(r)].burrow \notin rows

\* The minter is taken for revoked: the token goes with it.
GateRefuses(r) ==
  /\ Awaits(r, "gate") /\ Revoked(r)
  /\ Respond(r) /\ refused' = refused \cup {Token(r)}
  /\ UNCHANGED <<file, clock, mints, tokens, account, registered, retired>>

GatePasses(r) ==
  /\ Awaits(r, "gate") /\ ~Revoked(r)
  /\ IF request[r].kind = "retire"
     THEN Respond(r) /\ retired' = retired \cup {Token(r)}
     ELSE Proceed(r, "checks") /\ UNCHANGED retired
  /\ UNCHANGED <<file, clock, mints, tokens, account, registered, refused>>

PutBack_Never(r) == tokens' = tokens
PutBack(r) == tokens' \in Restored(Token(r))

\* burrows.json cannot be read; a check fails; account.json cannot be read or
\* written.
Fails(r) ==
  /\ request[r] # Nobody
  /\ Respond(r) /\ PutBack(r)
  /\ UNCHANGED <<file, clock, mints, account, registered, retired, refused>>

\* Every check passed.
Checked(r) ==
  /\ Awaits(r, "checks") /\ Proceed(r, "mutex")
  /\ UNCHANGED <<file, clock, mints, tokens, account, registered, retired, refused>>

MutexFree_Always == TRUE
\* mutate: one read-modify-write of account.json at a time.
MutexFree == \A r \in Requests : ~Awaits(r, "disk")

\* appendPasskey: a credential registered before is refused.
Load(r) ==
  /\ Awaits(r, "mutex") /\ MutexFree
  /\ IF request[r].credential \in account
     THEN Respond(r) /\ PutBack(r)
     ELSE /\ request' = [request EXCEPT ![r].awaits = "disk", ![r].loaded = account]
          /\ UNCHANGED tokens
  /\ UNCHANGED <<file, clock, mints, account, registered, retired, refused>>

Write(r) ==
  /\ Awaits(r, "disk") /\ Respond(r)
  /\ account' = request[r].loaded \cup {request[r].credential}
  /\ registered' = [registered EXCEPT ![Token(r)] = @ \cup {request[r].credential}]
  /\ UNCHANGED <<file, clock, mints, tokens, retired, refused>>

-----------------------------------------------------------------------------
\* burrows.json changes: no token hears of it before a gate reads it.
TokensRest == UNCHANGED <<clock, mints, tokens, request, account, registered, retired, refused>>

Tick ==
  /\ clock < MaxNow /\ clock' = clock + 1
  /\ UNCHANGED <<file, mints, tokens, request, account, registered, retired, refused>>

Handle(r) ==
  GateRefuses(r) \/ GatePasses(r) \/ Fails(r) \/ Checked(r) \/ Load(r) \/ Write(r)

Next ==
  \/ EnrollRead /\ TokensRest
  \/ EnrollFails /\ TokensRest
  \/ \E b \in Burrows : EnrollWrite(b) /\ TokensRest
  \/ \E b \in Burrows : Revoke(b) /\ TokensRest
  \/ FileVanishes /\ TokensRest
  \/ FileReturns /\ TokensRest
  \/ \E b \in Burrows : Issue(b)
  \/ \E r \in Requests, kind \in {"finish", "retire"}, t \in Tokens, k \in Credentials :
       Consume(r, kind, t, k)
  \/ \E r \in Requests : Handle(r)
  \/ Tick

Spec == Init /\ [][Next]_vars

-----------------------------------------------------------------------------
(* Properties.                                                             *)

InPlay(t) == t \in tokens \/ \E r \in Requests : request[r] # Nobody /\ Token(r) = t

\* A token registers one passkey at most, however many finishes race it, and
\* then, or once retired, it is never redeemable again; what it registered
\* stays in the account whatever else is being registered (consume, restore
\* under the route's finally, mutate).
OnePasskeyPerToken ==
  /\ \A t \in Minted : Cardinality(registered[t]) <= 1
  /\ \A t \in Minted : registered[t] # {} \/ t \in retired => ~InPlay(t)
  /\ UNION {registered[t] : t \in Tokens} \subseteq account

\* A token goes out of play for one of five reasons: it was used or retired, it
\* expired, its Burrow is at its cap, or its Burrow's row was not there when the
\* gate read burrows.json, because it was deleted or dropped, or because an
\* editor had the file away.  A finish that fails is not one of them (restore,
\* the finally of setup/finish).
TokensEndForCause ==
  [][\A t \in Minted : InPlay(t) /\ ~InPlay(t)' =>
       \/ registered'[t] # {} \/ t \in retired' \/ Expired(t)
       \/ mints[t].burrow \notin rows
       \/ Cardinality({u \in tokens' : mints'[u].burrow = mints[t].burrow}) = MaxTokens]_vars

\* The cap holds per Burrow, tokens put back included, and the code a Burrow
\* showed last is never the one that makes room for an old token that comes
\* back (#trimBurrow ages by expiry): unless it is used, retired, expired, or a
\* gate refused it, it is redeemable, though burrows.json comes and goes.
NewestCodeSurvives ==
  \A b \in Burrows :
    LET own == {t \in Minted : mints[t].burrow = b} IN
    /\ Cardinality(own \cap tokens) <= MaxTokens
    /\ \A t \in own :
         /\ t \notin refused /\ ~Expired(t) /\ registered[t] = {} /\ t \notin retired
         /\ \A u \in own \ {t} : mints[u].expiresAt < mints[t].expiresAt
         => InPlay(t)
=============================================================================
