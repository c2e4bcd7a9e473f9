-------------------------- MODULE Admission_proofs --------------------------
(* Who is let in, for any number of Burrows, tokens, offers and requests     *)
(* that race each other: a setup token registers one passkey at most and     *)
(* goes out of play for a cause only, and an enrolment offer enrols the      *)
(* first Burrow or none and is never lost to a race.                         *)
EXTENDS MCAdmission, FiniteSetTheorems, SequenceTheorems, TLAPS

-----------------------------------------------------------------------------
(* Setup tokens (SetupTokens).                                             *)

SetupMints == [burrow : Minters, expiresAt : TokenTTL .. MaxNow + TokenTTL]
SetupWork == [kind : {"finish", "retire"}, token : Setup!Tokens, credential : Credentials,
         awaits : {"gate", "checks", "mutex", "disk"}, loaded : SUBSET Credentials]

SetupTyped ==
  /\ clock \in 0 .. MaxNow /\ mints \in Seq(SetupMints) /\ Setup!Minted \subseteq Setup!Tokens
  /\ tokens \subseteq Setup!Minted /\ retired \subseteq Setup!Minted /\ refused \subseteq Setup!Minted
  /\ request \in [Requests -> {Nobody} \cup SetupWork]
  /\ account \subseteq Credentials
  /\ registered \in [Setup!Tokens -> SUBSET Credentials]

\* A token is in one place: on offer, or in the hands of one request.
OneHolder ==
  /\ \A r \in Requests : request[r] # Nobody => Setup!Token(r) \in Setup!Minted \ tokens
  /\ \A r, s \in Requests :
       request[r] # Nobody /\ request[s] # Nobody /\ Setup!Token(r) = Setup!Token(s) => r = s

\* A token that was used is nowhere.
UsedIsGone ==
  \A t \in Setup!Tokens : registered[t] # {} \/ t \in retired =>
    t \in Setup!Minted \ tokens /\ \A r \in Requests : request[r] # Nobody => Setup!Token(r) # t

\* It was used for one passkey, which the account has.
OneEach ==
  \A t \in Setup!Tokens :
    /\ registered[t] = {} \/ \E k \in Credentials : registered[t] = {k}
    /\ registered[t] \subseteq account

\* Whoever writes the account is alone and has read what is there.
OneWriter ==
  \A r \in Requests : Setup!Awaits(r, "disk") =>
    /\ request[r].loaded = account
    /\ \A s \in Requests : Setup!Awaits(s, "disk") => s = r

SetupInv == SetupTyped /\ OneHolder /\ UsedIsGone /\ OneEach /\ OneWriter

-----------------------------------------------------------------------------
\* The bounds are numbers, and a Burrow may have more than one code.
SetupBounds == MaxMints \in Nat /\ MaxNow \in Nat /\ TokenTTL \in Nat /\ MaxTokens \in Nat /\ MaxTokens >= 2

\* Sets are counted there as here.
LEMMA SameCardinality == \A S : Setup!Cardinality(S) = Cardinality(S)
BY DEF Setup!Cardinality, Cardinality

\* A set of none, and a set of one.
LEMMA SmallSets == Setup!Cardinality({}) = 0 /\ \A k : Setup!Cardinality({k}) = 1
BY SameCardinality, FS_EmptySet, FS_Singleton

\* Trimming removes.
LEMMA TrimmedIsPart ==
  ASSUME NEW live, NEW burrow, NEW left \in Setup!Trimmed(live, burrow)
  PROVE  left \subseteq live
BY DEF Setup!Trimmed

\* What is put back is the token and nothing else.
LEMMA RestoredIsPart ==
  ASSUME NEW t, NEW left \in Setup!Restored(t)
  PROVE  left \subseteq tokens \cup {t}
<1>1. CASE Setup!Expired(t)
  BY <1>1 DEF Setup!Restored
<1>2. CASE ~Setup!Expired(t)
  <2>1. PICK kept \in Setup!Trimmed(Setup!Unexpired \ {t}, mints[t].burrow) : left = kept \cup {t}
    BY <1>2 DEF Setup!Restored
  <2>2. kept \subseteq Setup!Unexpired \ {t}
    BY <2>1, TrimmedIsPart
  <2> QED BY <2>1, <2>2 DEF Setup!Unexpired
<1> QED BY <1>1, <1>2

\* Nothing is minted yet.
LEMMA SetupInitInv == SetupBounds /\ Setup!Init => SetupInv
BY EmptySeq DEF SetupBounds, Setup!Init, SetupInv, SetupTyped, OneHolder, UsedIsGone, OneEach, OneWriter, Setup!Awaits, Setup!Minted

\* A new code is a token nobody used.
LEMMA SetupIssueKeeps ==
  ASSUME SetupBounds, SetupInv, NEW b \in Minters, Setup!Issue(b)
  PROVE  SetupInv'
<1>1. PICK left \in Setup!Trimmed(Setup!Unexpired, b) : tokens' = left \cup {Len(mints')}
  BY DEF Setup!Issue
<1>2. left \subseteq tokens
  BY TrimmedIsPart DEF Setup!Unexpired
<1> DEFINE new == [burrow |-> b, expiresAt |-> clock + TokenTTL]
<1>3. mints \in Seq(SetupMints) /\ new \in SetupMints
  <2>1. clock \in 0 .. MaxNow /\ MaxNow \in Nat /\ TokenTTL \in Nat
    BY DEF SetupInv, SetupTyped, SetupBounds
  <2>2. clock + TokenTTL \in TokenTTL .. MaxNow + TokenTTL
    BY <2>1
  <2> QED BY <2>2 DEF SetupInv, SetupTyped, SetupMints
<1>4. mints' = Append(mints, new) /\ UNCHANGED <<clock, request, account, registered, retired, refused>>
  BY DEF Setup!Issue
<1> HIDE DEF new
<1>5. mints' \in Seq(SetupMints) /\ Len(mints') = Len(mints) + 1 /\ Len(mints) \in Nat
  BY <1>3, <1>4, AppendProperties
<1>6. Setup!Minted = 1 .. Len(mints) /\ Setup!Minted' = 1 .. Len(mints) + 1 /\ Len(mints') \in Setup!Tokens
  BY <1>3, <1>5 DEF Setup!Issue, Setup!Minted, Setup!Tokens, SetupBounds
<1>7. Len(mints') \notin Setup!Minted /\ Setup!Minted' = Setup!Minted \cup {Len(mints')}
  BY <1>5, <1>6
<1>8. SetupTyped'
  BY <1>1, <1>2, <1>4, <1>5, <1>6, <1>7 DEF SetupInv, SetupTyped
<1>9. OneHolder' /\ UsedIsGone'
  BY <1>1, <1>2, <1>4, <1>7 DEF SetupInv, SetupTyped, OneHolder, UsedIsGone, Setup!Token
<1>10. OneEach' /\ OneWriter'
  BY <1>4 DEF SetupInv, OneEach, OneWriter, Setup!Awaits
<1> QED BY <1>8, <1>9, <1>10 DEF SetupInv

\* Spending takes the token out of the issuer's hands.
LEMMA SetupConsumeKeeps ==
  ASSUME SetupInv, NEW r \in Requests, NEW kind \in {"finish", "retire"}, NEW t \in Setup!Tokens,
         NEW k \in Credentials, Setup!Consume(r, kind, t, k)
  PROVE  SetupInv'
<1> DEFINE work == [kind |-> kind, token |-> t, credential |-> k, awaits |-> "gate", loaded |-> {}]
<1>1. /\ work \in SetupWork /\ work.token = t /\ work.awaits = "gate"
      /\ t \in tokens /\ tokens' = tokens \ {t} /\ request[r] = Nobody
      /\ request' = request \/ request' = [request EXCEPT ![r] = work]
      /\ UNCHANGED <<clock, mints, account, registered, retired, refused>>
  BY DEF Setup!Consume, Setup!Spent, SetupWork
<1> HIDE DEF work
<1>2. SetupTyped'
  BY <1>1 DEF SetupInv, SetupTyped, Setup!Minted
<1>3. OneHolder' /\ UsedIsGone'
  BY <1>1 DEF SetupInv, SetupTyped, OneHolder, UsedIsGone, Setup!Token, Setup!Minted
<1>4. OneEach' /\ OneWriter'
  BY <1>1 DEF SetupInv, SetupTyped, OneEach, OneWriter, Setup!Awaits
<1> QED BY <1>2, <1>3, <1>4 DEF SetupInv

\* Any answer but a passkey: the token stays spent, or is put back.
LEMMA SetupRespondKeeps ==
  ASSUME SetupInv, NEW r \in Requests, request[r] # Nobody, Setup!Respond(r),
         tokens' \subseteq tokens \cup {Setup!Token(r)}, refused' \subseteq refused \cup {Setup!Token(r)},
         UNCHANGED <<clock, mints, account, registered, retired>>
  PROVE  SetupInv'
BY DEF SetupInv, SetupTyped, OneHolder, UsedIsGone, OneEach, OneWriter, Setup!Respond, Setup!Awaits, Setup!Token, Setup!Minted

\* The gate, which also ends a retirement, and the checks.
LEMMA SetupGateKeeps ==
  ASSUME SetupInv, NEW r \in Requests, Setup!GateRefuses(r) \/ Setup!GatePasses(r) \/ Setup!Fails(r) \/ Setup!Checked(r)
  PROVE  SetupInv'
<1>1. CASE Setup!GateRefuses(r)
  BY <1>1, SetupRespondKeeps DEF Setup!GateRefuses, Setup!Awaits
<1>2. CASE Setup!Fails(r)
  BY <1>2, SetupRespondKeeps, RestoredIsPart DEF Setup!Fails, Setup!PutBack
<1>3. CASE Setup!GatePasses(r) /\ request[r].kind = "retire"
  <2>1. /\ request[r] # Nobody /\ request' = [request EXCEPT ![r] = Nobody]
        /\ retired' = retired \cup {Setup!Token(r)}
        /\ UNCHANGED <<clock, mints, tokens, account, registered, refused>>
    BY <1>3 DEF Setup!GatePasses, Setup!Respond, Setup!Awaits
  <2>2. SetupTyped'
    BY <2>1 DEF SetupInv, SetupTyped, OneHolder, Setup!Token, Setup!Minted
  <2>3. OneHolder' /\ UsedIsGone'
    BY <2>1 DEF SetupInv, SetupTyped, OneHolder, UsedIsGone, Setup!Token, Setup!Minted
  <2>4. OneEach' /\ OneWriter'
    BY <2>1 DEF SetupInv, SetupTyped, OneEach, OneWriter, Setup!Awaits
  <2> QED BY <2>2, <2>3, <2>4 DEF SetupInv
<1>4. ASSUME NEW what \in {"checks", "mutex"}, request[r] # Nobody, Setup!Proceed(r, what),
             UNCHANGED <<clock, mints, tokens, account, registered, retired, refused>>
      PROVE  SetupInv'
  <2>1. request[r] \in SetupWork /\ request' = [request EXCEPT ![r] = [request[r] EXCEPT !.awaits = what]]
    BY <1>4 DEF SetupInv, SetupTyped, Setup!Proceed
  <2>2. PICK work \in SetupWork : work = [request[r] EXCEPT !.awaits = what]
    BY <2>1 DEF SetupWork
  <2>3. work.token = request[r].token /\ work.awaits = what
    BY <2>1, <2>2 DEF SetupWork
  <2>4. request' = [request EXCEPT ![r] = work]
    BY <2>1, <2>2
  <2>5. request' \in [Requests -> {Nobody} \cup SetupWork]
    BY <2>4 DEF SetupInv, SetupTyped
  <2>6. \A q \in Requests :
          /\ request'[q] # Nobody => request[q] # Nobody /\ Setup!Token(q)' = Setup!Token(q)
          /\ Setup!Awaits(q, "disk")' => Setup!Awaits(q, "disk") /\ request'[q] = request[q]
    BY <1>4, <2>3, <2>4 DEF SetupInv, SetupTyped, Setup!Token, Setup!Awaits
  <2>7. SetupTyped'
    BY <1>4, <2>5 DEF SetupInv, SetupTyped, Setup!Minted
  <2>8. OneHolder'
    BY <1>4, <2>6 DEF SetupInv, OneHolder, Setup!Minted
  <2>9. UsedIsGone'
    BY <1>4, <2>6 DEF SetupInv, UsedIsGone, Setup!Minted
  <2>10. OneEach' /\ OneWriter'
    BY <1>4, <2>6 DEF SetupInv, OneEach, OneWriter
  <2> QED BY <2>7, <2>8, <2>9, <2>10 DEF SetupInv
<1>5. CASE Setup!GatePasses(r) /\ request[r].kind # "retire"
  BY <1>4, <1>5 DEF Setup!GatePasses, Setup!Awaits
<1>6. CASE Setup!Checked(r)
  BY <1>4, <1>6 DEF Setup!Checked, Setup!Awaits
<1> QED BY <1>6, <1>1, <1>2, <1>3, <1>4, <1>5

\* The account is read under the mutex.
LEMMA SetupLoadKeeps ==
  ASSUME SetupInv, NEW r \in Requests, Setup!Load(r)
  PROVE  SetupInv'
<1>1. CASE request[r].credential \in account
  BY <1>1, SetupRespondKeeps, RestoredIsPart DEF Setup!Load, Setup!PutBack, Setup!Awaits
<1>2. CASE request[r].credential \notin account
  <2>1. /\ request[r] \in SetupWork /\ request[r] # Nobody /\ \A q \in Requests : ~Setup!Awaits(q, "disk")
        /\ request' = [request EXCEPT ![r] = [request[r] EXCEPT !.awaits = "disk", !.loaded = account]]
        /\ UNCHANGED <<clock, mints, tokens, account, registered, retired, refused>>
    BY <1>2 DEF Setup!Load, Setup!MutexFree, Setup!Awaits, SetupInv, SetupTyped
  <2>2. PICK work \in SetupWork : work = [request[r] EXCEPT !.awaits = "disk", !.loaded = account]
    BY <2>1 DEF SetupWork, SetupInv, SetupTyped
  <2>3. work.token = request[r].token /\ work.loaded = account
    BY <2>1, <2>2 DEF SetupWork
  <2>4. request' = [request EXCEPT ![r] = work]
    BY <2>1, <2>2
  <2>5. request' \in [Requests -> {Nobody} \cup SetupWork]
    BY <2>4 DEF SetupInv, SetupTyped
  <2>6. /\ \A q \in Requests : request'[q] # Nobody => request[q] # Nobody /\ Setup!Token(q)' = Setup!Token(q)
        /\ \A q \in Requests : Setup!Awaits(q, "disk")' => q = r
        /\ request'[r].loaded = account
    BY <2>1, <2>3, <2>4 DEF SetupInv, SetupTyped, Setup!Token, Setup!Awaits
  <2>7. SetupTyped'
    BY <2>1, <2>5 DEF SetupInv, SetupTyped, Setup!Minted
  <2>8. OneHolder'
    BY <2>1, <2>6 DEF SetupInv, OneHolder, Setup!Minted
  <2>9. UsedIsGone'
    BY <2>1, <2>6 DEF SetupInv, UsedIsGone, Setup!Minted
  <2>10. OneEach' /\ OneWriter'
    BY <2>1, <2>6 DEF SetupInv, OneEach, OneWriter
  <2> QED BY <2>7, <2>8, <2>9, <2>10 DEF SetupInv
<1> QED BY <1>1, <1>2

\* And written: nothing was registered meanwhile, nor with this token before.
LEMMA SetupWriteKeeps ==
  ASSUME SetupInv, NEW r \in Requests, Setup!Write(r)
  PROVE  SetupInv'
<1> DEFINE t == Setup!Token(r)
           k == request[r].credential
<1>1. /\ t \in Setup!Tokens /\ k \in Credentials /\ request[r] # Nobody /\ registered[t] = {}
      /\ t \in Setup!Minted \ tokens
      /\ request[r].loaded = account
  BY DEF Setup!Write, Setup!Awaits, SetupInv, SetupTyped, SetupWork, OneHolder, UsedIsGone, OneWriter, Setup!Token
<1>2. /\ account' = account \cup {k}
      /\ registered' = [registered EXCEPT ![t] = {k}]
      /\ request' = [request EXCEPT ![r] = Nobody]
      /\ UNCHANGED <<clock, mints, tokens, retired, refused>>
  BY <1>1 DEF Setup!Write, Setup!Respond
<1>3. \A s \in Requests : request[s] # Nobody /\ Setup!Token(s) = t => s = r
  BY <1>1 DEF SetupInv, OneHolder
<1>4. \A s \in Requests : Setup!Awaits(s, "disk") => s = r
  BY DEF Setup!Write, SetupInv, OneWriter
<1> HIDE DEF t, k
<1>5. SetupTyped'
  BY <1>1, <1>2 DEF SetupInv, SetupTyped, Setup!Minted
<1>6. OneHolder' /\ OneWriter'
  BY <1>1, <1>2, <1>4 DEF SetupInv, SetupTyped, OneHolder, OneWriter, Setup!Awaits, Setup!Token, Setup!Minted
<1>7. UsedIsGone'
  BY <1>1, <1>2, <1>3 DEF SetupInv, SetupTyped, UsedIsGone, Setup!Token, Setup!Minted
<1>8. OneEach'
  BY <1>1, <1>2 DEF SetupInv, SetupTyped, OneEach
<1> QED BY <1>5, <1>6, <1>7, <1>8 DEF SetupInv

\* So it is kept by every step.
LEMMA SetupInvStep ==
  ASSUME SetupBounds, SetupInv, [Setup!Next]_(Setup!vars)
  PROVE  SetupInv'
<1>1. CASE UNCHANGED Setup!vars
  BY <1>1 DEF Setup!vars, SetupInv, SetupTyped, OneHolder, UsedIsGone, OneEach, OneWriter, Setup!Awaits, Setup!Token, Setup!Minted
<1>2. CASE Setup!TokensRest
  BY <1>2 DEF Setup!TokensRest, SetupInv, SetupTyped, OneHolder, UsedIsGone, OneEach, OneWriter, Setup!Awaits, Setup!Token, Setup!Minted
<1>3. CASE Setup!Tick
  <2>1. clock \in 0 .. MaxNow /\ clock' = clock + 1 /\ clock' \in 0 .. MaxNow /\ TokenTTL \in Int
    BY <1>3 DEF Setup!Tick, SetupInv, SetupTyped, SetupBounds
  <2> QED BY <1>3, <2>1 DEF Setup!Tick, SetupInv, SetupTyped, OneHolder, UsedIsGone, OneEach, OneWriter, Setup!Awaits, Setup!Token, Setup!Minted
<1> QED BY <1>1, <1>2, <1>3, SetupIssueKeeps, SetupConsumeKeeps, SetupGateKeeps, SetupLoadKeeps, SetupWriteKeeps DEF Setup!Next, Setup!Handle

\* However many finishes and retirements race a token, it registers one
\* passkey at most, is never redeemable afterwards, and the account keeps what
\* was registered (consume, restore, mutate).
THEOREM OnePasskey ==
  ASSUME SetupBounds
  PROVE  Setup!Spec => []OnePasskeyPerToken
<1>1. SetupInv /\ [Setup!Next]_(Setup!vars) => SetupInv'
  BY SetupInvStep
<1>2. SetupInv => OnePasskeyPerToken
  <2> SUFFICES ASSUME SetupInv PROVE OnePasskeyPerToken
    OBVIOUS
  <2>1. \A t \in Setup!Minted : Setup!Cardinality(registered[t]) <= 1
    <3> SUFFICES ASSUME NEW t \in Setup!Minted PROVE Setup!Cardinality(registered[t]) \in {0, 1}
      OBVIOUS
    <3>1. registered[t] = {} \/ \E k \in Credentials : registered[t] = {k}
      BY DEF SetupInv, SetupTyped, OneEach
    <3> QED BY <3>1, SmallSets
  <2>2. \A t \in Setup!Minted : registered[t] # {} \/ t \in retired => ~Setup!InPlay(t)
    BY DEF SetupInv, SetupTyped, UsedIsGone, Setup!InPlay
  <2>3. UNION {registered[t] : t \in Setup!Tokens} \subseteq account
    BY DEF SetupInv, OneEach
  <2>4. Setup!TypeOK
    BY DEF SetupInv, SetupTyped, SetupMints, SetupWork, Setup!TypeOK
  <2> QED BY <2>1, <2>2, <2>3, <2>4 DEF OnePasskeyPerToken, Setup!OnePasskeyPerToken
<1> QED BY SetupInitInv, <1>1, <1>2, PTL DEF Setup!Spec

-----------------------------------------------------------------------------
(* Which tokens go, and why.                                               *)

\* The tokens of a Burrow among some.
Own(live, b) == {t \in live : mints[t].burrow = b}

\* No code outlives one that is minted now.
Dated == \A t \in Setup!Minted : mints[t].expiresAt <= clock + TokenTTL

Capped == \A b \in Minters : Cardinality(Own(tokens, b)) <= MaxTokens

\* The newest code of a Burrow, unless it is used, retired, expired or refused.
Newest(t) ==
  /\ t \notin refused /\ ~Setup!Expired(t) /\ registered[t] = {} /\ t \notin retired
  /\ \A u \in Setup!Minted \ {t} :
       mints[u].burrow = mints[t].burrow => mints[u].expiresAt < mints[t].expiresAt

TokenInv ==
  SetupInv /\ Dated /\ Capped /\ \A t \in Setup!Minted : Newest(t) => Setup!InPlay(t)

\* A token makes room: its Burrow is at the cap, with a token as young.
MakesRoom(t) ==
  /\ Cardinality(Own(tokens, mints[t].burrow)') = MaxTokens
  /\ \E u \in tokens' : /\ u # t /\ mints'[u].burrow = mints[t].burrow
                        /\ mints'[u].expiresAt >= mints[t].expiresAt

\* The tokens are finitely many, and each is dated.
LEMMA TokensAreFinite ==
  ASSUME SetupInv
  PROVE  /\ IsFiniteSet(Setup!Minted)
         /\ \A S : S \subseteq Setup!Minted => IsFiniteSet(S) /\ Cardinality(S) \in Nat
<1>1. Setup!Minted = 1 .. Len(mints) /\ Len(mints) \in Nat
  BY DEF SetupInv, SetupTyped, Setup!Minted
<1>2. IsFiniteSet(Setup!Minted)
  BY <1>1, FS_Interval
<1>3. ASSUME NEW S, S \subseteq Setup!Minted PROVE IsFiniteSet(S) /\ Cardinality(S) \in Nat
  <2>1. IsFiniteSet(S)
    BY <1>2, <1>3, FS_Subset
  <2> QED BY <2>1, FS_CardinalityType
<1> QED BY <1>2, <1>3

\* What trimming keeps: the other Burrows' tokens, fewer than the cap of the
\* Burrow's own, and the young before the old (#trimBurrow).
LEMMA TrimmedKeeps ==
  ASSUME SetupBounds, SetupInv, NEW live, live \subseteq Setup!Minted, NEW b, NEW left \in Setup!Trimmed(live, b)
  PROVE  /\ left \subseteq live
         /\ \A t \in live : mints[t].burrow # b => t \in left
         /\ Cardinality(Own(left, b)) \in 0 .. MaxTokens - 1
         /\ \A t \in live \ left :
              /\ Cardinality(Own(left, b)) = MaxTokens - 1
              /\ \E u \in left : mints[u].burrow = b /\ mints[u].expiresAt >= mints[t].expiresAt
<1> DEFINE own == Own(live, b)
<1>1. PICK keep \in SUBSET own :
        /\ left = (live \ own) \cup keep
        /\ Setup!Cardinality(keep) = IF Setup!Cardinality(own) < MaxTokens THEN Setup!Cardinality(own) ELSE MaxTokens - 1
        /\ \A t \in keep, u \in own \ keep : mints[t].expiresAt >= mints[u].expiresAt
  BY DEF Setup!Trimmed, Own
<1>2. Cardinality(keep) = IF Cardinality(own) < MaxTokens THEN Cardinality(own) ELSE MaxTokens - 1
  BY <1>1, SameCardinality
<1>3. Own(left, b) = keep
  BY <1>1 DEF Own
<1>4. IsFiniteSet(own) /\ Cardinality(own) \in Nat /\ Cardinality(keep) \in Nat
  <2>1. own \subseteq Setup!Minted /\ keep \subseteq Setup!Minted
    BY DEF Own
  <2> HIDE DEF own
  <2> QED BY <2>1, TokensAreFinite
<1>5. left \subseteq live /\ \A t \in live : mints[t].burrow # b => t \in left
  BY <1>1 DEF Own
<1>6. \A t \in live \ left : t \in own \ keep
  BY <1>1 DEF Own
<1>7. \A t \in keep : t \in left /\ mints[t].burrow = b
  BY <1>1 DEF Own
<1> HIDE DEF own
<1>8. Cardinality(keep) \in 0 .. MaxTokens - 1
  BY <1>2, <1>4 DEF SetupBounds
<1>9. ASSUME NEW t \in own \ keep
      PROVE  Cardinality(keep) = MaxTokens - 1 /\ \E u \in keep : mints[u].expiresAt >= mints[t].expiresAt
  <2>1. Cardinality(keep) # Cardinality(own)
    <3>1. keep \in SUBSET own /\ keep # own
      BY <1>9
    <3> QED BY <3>1, <1>4, FS_Subset
  <2>2. Cardinality(keep) = MaxTokens - 1
    BY <1>2, <2>1
  <2>3. Cardinality(keep) # 0
    BY <2>2 DEF SetupBounds
  <2>4. keep # {}
    BY <2>3, FS_EmptySet
  <2> QED BY <2>2, <2>4, <1>1
<1> QED BY <1>3, <1>5, <1>6, <1>7, <1>8, <1>9

\* A token more: the cap is kept, and a token that goes is displaced.
LEMMA Joined ==
  ASSUME SetupBounds, SetupInv, SetupInv', NEW live, live \subseteq tokens, NEW b, NEW left \in Setup!Trimmed(live, b),
         NEW t, t \notin live, tokens' = left \cup {t}, mints'[t].burrow = b,
         \A u \in Setup!Minted : mints'[u] = mints[u]
  PROVE  /\ Own(tokens, b)' = Own(left, b) \cup {t}
         /\ Cardinality(Own(tokens, b)') \in 1 .. MaxTokens
         /\ \A u \in live \ tokens' : MakesRoom(u)
<1>1. live \subseteq Setup!Minted
  BY DEF SetupInv, SetupTyped
<1>2. /\ left \subseteq live
      /\ \A u \in live : mints[u].burrow # b => u \in left
      /\ Cardinality(Own(left, b)) \in 0 .. MaxTokens - 1
      /\ \A u \in live \ left :
           /\ Cardinality(Own(left, b)) = MaxTokens - 1
           /\ \E w \in left : mints[w].burrow = b /\ mints[w].expiresAt >= mints[u].expiresAt
  BY <1>1, TrimmedKeeps
<1>3. \A u \in left : mints'[u] = mints[u]
  BY <1>1, <1>2
<1>4. Own(tokens, b)' = Own(left, b) \cup {t}
  BY <1>3 DEF Own
<1>5. t \notin Own(left, b)
  BY <1>2 DEF Own
<1>6. IsFiniteSet(Own(left, b))
  BY <1>1, <1>2, TokensAreFinite DEF Own
<1>7. Cardinality(Own(tokens, b)') = Cardinality(Own(left, b)) + 1
  BY <1>4, <1>5, <1>6, FS_AddElement
<1>8. ASSUME NEW u \in live \ tokens' PROVE MakesRoom(u)
  <2>1. u \in live \ left /\ mints[u].burrow = b
    BY <1>2
  <2>2. Cardinality(Own(tokens, b)') = MaxTokens
    BY <1>2, <1>7, <2>1 DEF SetupBounds
  <2>3. PICK w \in left : mints[w].burrow = b /\ mints[w].expiresAt >= mints[u].expiresAt
    BY <1>2, <2>1
  <2>4. w \in tokens' /\ w # u /\ mints'[w] = mints[w]
    BY <2>1, <2>3, <1>3
  <2>5. \E x \in tokens' : x # u /\ mints'[x].burrow = mints[u].burrow /\ mints'[x].expiresAt >= mints[u].expiresAt
    BY <2>1, <2>3, <2>4
  <2>6. mints'[u].burrow = b
    BY <1>1, <2>1
  <2>7. Own(tokens, mints[u].burrow)' = Own(tokens, b)'
    BY <2>6 DEF Own
  <2> QED BY <2>2, <2>5, <2>7 DEF MakesRoom
<1>9. Cardinality(Own(tokens, b)') \in 1 .. MaxTokens
  BY <1>2, <1>7 DEF SetupBounds
<1> QED BY <1>4, <1>8, <1>9

\* Tokens, Burrows and registrations only go one way.
LEMMA SetupGrows ==
  ASSUME SetupBounds, SetupInv, [Setup!Next]_(Setup!vars)
  PROVE  /\ clock' \in Int /\ clock <= clock' /\ refused \subseteq refused' /\ retired \subseteq retired'
         /\ \A t \in Setup!Tokens : registered[t] \subseteq registered'[t]
         /\ \A t \in Setup!Minted : t \in Setup!Minted' /\ mints'[t] = mints[t]
         /\ \A t \in Setup!Minted' \ Setup!Minted : t \in tokens' /\ mints'[t].expiresAt = clock + TokenTTL
<1>1. clock \in Int
  BY DEF SetupInv, SetupTyped, SetupBounds
<1>2. CASE UNCHANGED Setup!vars
  BY <1>1, <1>2 DEF Setup!vars, Setup!Minted
<1>3. ASSUME NEW b \in Minters, Setup!Issue(b)
      PROVE  /\ \A t \in Setup!Minted : t \in Setup!Minted' /\ mints'[t] = mints[t]
             /\ \A t \in Setup!Minted' \ Setup!Minted : t \in tokens' /\ mints'[t].expiresAt = clock + TokenTTL
  <2> DEFINE new == [burrow |-> b, expiresAt |-> clock + TokenTTL]
  <2>1. mints \in Seq(SetupMints) /\ mints' = Append(mints, new) /\ Len(mints') \in tokens'
    BY <1>3 DEF Setup!Issue, SetupInv, SetupTyped
  <2>2. new.expiresAt = clock + TokenTTL
    OBVIOUS
  <2> HIDE DEF new
  <2>3. /\ Len(mints) \in Nat /\ Len(mints') = Len(mints) + 1 /\ mints'[Len(mints')] = new
        /\ Setup!Minted = 1 .. Len(mints) /\ Setup!Minted' = 1 .. Len(mints) + 1
        /\ \A i \in 1 .. Len(mints) : mints'[i] = mints[i]
    BY <2>1 DEF Setup!Minted
  <2> QED BY <2>1, <2>2, <2>3
<1>4. ASSUME NEW b \in Minters, Setup!Issue(b)
      PROVE  UNCHANGED <<clock, retired, registered, refused>>
  BY <1>4 DEF Setup!Issue
<1>5. CASE UNCHANGED <<clock, mints, registered>> /\ refused \subseteq refused' /\ retired \subseteq retired'
  BY <1>1, <1>5 DEF Setup!Minted
<1>6. ASSUME NEW r \in Requests, Setup!Write(r)
      PROVE  /\ UNCHANGED <<clock, mints, retired, refused>>
             /\ \A t \in Setup!Tokens : registered[t] \subseteq registered'[t]
  BY <1>6 DEF Setup!Write, SetupInv, SetupTyped
<1>7. ASSUME NEW r \in Requests, Setup!Handle(r)
      PROVE  UNCHANGED <<clock, mints>> /\ refused \subseteq refused' /\ retired \subseteq retired' /\ (UNCHANGED registered \/ Setup!Write(r))
  BY <1>7 DEF Setup!Handle, Setup!GateRefuses, Setup!GatePasses, Setup!Fails, Setup!Checked, Setup!Load, Setup!Write
<1>8. CASE Setup!Tick
  <2>1. clock' = clock + 1 /\ UNCHANGED <<mints, registered, retired, refused>>
    BY <1>8 DEF Setup!Tick
  <2> QED BY <1>1, <2>1 DEF Setup!Minted
<1>9. CASE \E b \in Minters : Setup!Issue(b)
  BY <1>1, <1>3, <1>4, <1>9
<1>10. CASE Setup!TokensRest
  BY <1>5, <1>10 DEF Setup!TokensRest
<1>11. CASE \E r \in Requests, kind \in {"finish", "retire"}, t \in Setup!Tokens, k \in Credentials :
              Setup!Consume(r, kind, t, k)
  BY <1>5, <1>11 DEF Setup!Consume
<1>12. CASE \E r \in Requests : Setup!Handle(r)
  BY <1>1, <1>5, <1>6, <1>7, <1>12 DEF Setup!Minted
<1> QED BY <1>2, <1>8, <1>9, <1>10, <1>11, <1>12 DEF Setup!Next

\* The cap holds for every Burrow that got no token and for the one that did.
LEMMA CapKept ==
  ASSUME SetupBounds, SetupInv, Capped,
         \A c \in Minters : Own(tokens, c)' \subseteq Own(tokens, c) \/ Cardinality(Own(tokens, c)') <= MaxTokens
  PROVE  Capped'
<1> SUFFICES ASSUME NEW c \in Minters, Own(tokens, c)' \subseteq Own(tokens, c)
             PROVE  Cardinality(Own(tokens, c)') <= MaxTokens
  BY DEF Capped
<1>1. Own(tokens, c) \subseteq Setup!Minted
  BY DEF Own, SetupInv, SetupTyped
<1>2. Own(tokens, c)' \subseteq Setup!Minted
  BY <1>1
<1>3. /\ IsFiniteSet(Own(tokens, c)) /\ Cardinality(Own(tokens, c)) \in Nat /\ Cardinality(Own(tokens, c)') \in Nat
  BY <1>1, <1>2, TokensAreFinite
<1>4. Cardinality(Own(tokens, c)') <= Cardinality(Own(tokens, c))
  BY <1>3, FS_Subset
<1>5. Cardinality(Own(tokens, c)) <= MaxTokens
  BY DEF Capped
<1> QED BY <1>3, <1>4, <1>5 DEF SetupBounds

\* A token that goes, and how: by use, by age, refused because its
\* Burrow has no row, or displaced.
Ends(t) ==
  \/ registered'[t] # {} \/ t \in retired' \/ Setup!Expired(t)
  \/ (mints[t].burrow \notin rows /\ t \in refused') \/ MakesRoom(t)

\* "No request" is told from a request.
SetupApart == Nobody \notin SetupWork

\* What every step does to the tokens.
Kept == Capped' /\ \A t \in Setup!Minted : Setup!InPlay(t) => Setup!InPlay(t)' \/ Ends(t)

\* A new code.
LEMMA IssueKept ==
  ASSUME SetupBounds, TokenInv, SetupInv', NEW b \in Minters, Setup!Issue(b)
  PROVE  Kept
<1> DEFINE t == Len(mints')
<1>1. PICK left \in Setup!Trimmed(Setup!Unexpired, b) : tokens' = left \cup {t}
  BY DEF Setup!Issue
<1>2. SetupInv /\ Setup!Unexpired \subseteq tokens /\ tokens \subseteq Setup!Minted /\ request' = request
  BY DEF TokenInv, SetupInv, SetupTyped, Setup!Unexpired, Setup!Issue
<1>3. \A u \in Setup!Minted : mints'[u] = mints[u]
  BY <1>2, SetupGrows DEF Setup!Next
<1>4. t \notin Setup!Unexpired /\ mints'[t].burrow = b
  <2> DEFINE new == [burrow |-> b, expiresAt |-> clock + TokenTTL]
  <2>1. mints \in Seq(SetupMints) /\ mints' = Append(mints, new) /\ new.burrow = b
    BY <1>2 DEF Setup!Issue, SetupInv, SetupTyped
  <2> HIDE DEF new
  <2>2. Len(mints) \in Nat /\ Len(mints') = Len(mints) + 1 /\ mints'[Len(mints')] = new /\ Setup!Minted = 1 .. Len(mints)
    BY <2>1 DEF Setup!Minted
  <2> QED BY <1>2, <2>1, <2>2
<1> HIDE DEF t
<1>5. /\ Cardinality(Own(tokens, b)') \in 1 .. MaxTokens
      /\ \A u \in Setup!Unexpired \ tokens' : MakesRoom(u)
  BY <1>1, <1>2, <1>3, <1>4, Joined
<1>6. left \subseteq tokens
  BY <1>2, <1>1, TrimmedIsPart
<1>7. \A c \in Minters : c # b => Own(tokens, c)' \subseteq Own(tokens, c)
  BY <1>1, <1>2, <1>3, <1>4, <1>6 DEF Own
<1>8. Capped'
  BY <1>2, <1>5, <1>7, CapKept DEF TokenInv, SetupBounds
<1>9. ASSUME NEW u \in Setup!Minted, Setup!InPlay(u) PROVE Setup!InPlay(u)' \/ Ends(u)
  <2>1. CASE u \in tokens
    BY <2>1, <1>5 DEF Ends, Setup!InPlay, Setup!Unexpired
  <2>2. CASE u \notin tokens
    BY <2>2, <1>2, <1>9 DEF Setup!InPlay, Setup!Token
  <2> QED BY <2>1, <2>2
<1> QED BY <1>8, <1>9 DEF Kept

\* A token is put back.
LEMMA PutBackKept ==
  ASSUME SetupBounds, TokenInv, SetupInv', NEW r \in Requests, request[r] # Nobody,
         Setup!Respond(r), Setup!PutBack(r), UNCHANGED mints
  PROVE  Kept
<1> PICK t : t = Setup!Token(r)
  OBVIOUS
<1> PICK b : b = mints[t].burrow
  OBVIOUS
<1>1. SetupInv /\ tokens \subseteq Setup!Minted /\ t \in Setup!Minted \ tokens
  BY DEF TokenInv, SetupInv, SetupTyped, OneHolder
<1>2. tokens' \in Setup!Restored(t) /\ request' = [request EXCEPT ![r] = Nobody]
      /\ request \in [Requests -> {Nobody} \cup SetupWork]
  BY DEF Setup!PutBack, Setup!Respond, TokenInv, SetupInv, SetupTyped
<1>3. \A s \in Requests : s = r \/ request'[s] = request[s]
  BY <1>2
<1>4. \A u \in Setup!Minted : u # t /\ (\E s \in Requests : request[s] # Nobody /\ Setup!Token(s) = u) => Setup!InPlay(u)'
  BY <1>3 DEF Setup!InPlay, Setup!Token
<1>5. CASE Setup!Expired(t)
  <2>1. tokens' = tokens
    BY <1>2, <1>5 DEF Setup!Restored
  <2>2. \A c \in Minters : Own(tokens, c)' = Own(tokens, c)
    BY <2>1 DEF Own
  <2>3. Capped'
    BY <1>1, <2>2, CapKept DEF TokenInv
  <2>4. ASSUME NEW u \in Setup!Minted, Setup!InPlay(u) PROVE Setup!InPlay(u)' \/ Ends(u)
    BY <1>4, <1>5, <2>1, <2>4 DEF Setup!InPlay, Ends
  <2> QED BY <2>3, <2>4 DEF Kept
<1>6. CASE ~Setup!Expired(t)
  <2> DEFINE live == Setup!Unexpired \ {t}
  <2>1. PICK left \in Setup!Trimmed(live, b) : tokens' = left \cup {t}
    BY <1>2, <1>6 DEF Setup!Restored
  <2>2. live \subseteq tokens /\ t \notin live /\ \A u \in tokens : u \in live \/ Setup!Expired(u)
    BY <1>1 DEF Setup!Unexpired
  <2> HIDE DEF live
  <2>3. mints'[t].burrow = b /\ \A u \in Setup!Minted : mints'[u] = mints[u]
    OBVIOUS
  <2>4. /\ Cardinality(Own(tokens, b)') \in 1 .. MaxTokens
        /\ \A u \in live \ tokens' : MakesRoom(u)
    BY <1>1, <2>1, <2>2, <2>3, Joined
  <2>5. left \subseteq tokens
    BY <2>1, <2>2, TrimmedIsPart
  <2>6. \A c \in Minters : c # b => Own(tokens, c)' \subseteq Own(tokens, c)
    BY <2>1, <2>3, <2>5 DEF Own
  <2>7. Capped'
    BY <1>1, <2>4, <2>6, CapKept DEF TokenInv, SetupBounds
  <2>8. ASSUME NEW u \in Setup!Minted, Setup!InPlay(u) PROVE Setup!InPlay(u)' \/ Ends(u)
    <3>1. CASE u = t
      BY <3>1, <2>1 DEF Setup!InPlay
    <3>2. CASE u \in tokens
      BY <3>2, <2>2, <2>4 DEF Ends, Setup!InPlay
    <3>3. CASE u # t /\ u \notin tokens
      BY <3>3, <2>8, <1>4 DEF Setup!InPlay
    <3> QED BY <3>1, <3>2, <3>3
  <2> QED BY <2>7, <2>8 DEF Kept
<1> QED BY <1>5, <1>6

\* And every other step.
LEMMA StepKept ==
  ASSUME SetupBounds, SetupApart, TokenInv, SetupInv', [Setup!Next]_(Setup!vars)
  PROVE  Kept
<1>1. SetupInv /\ request \in [Requests -> {Nobody} \cup SetupWork]
  BY DEF TokenInv, SetupInv, SetupTyped
<1>2. ASSUME tokens' \subseteq tokens, UNCHANGED mints PROVE Capped'
  <2>1. \A c \in Minters : Own(tokens, c)' \subseteq Own(tokens, c)
    BY <1>2 DEF Own
  <2> QED BY <1>1, <2>1, CapKept DEF TokenInv
<1>3. CASE UNCHANGED <<tokens, mints, request>>
  BY <1>2, <1>3 DEF Kept, Setup!InPlay, Setup!Token
<1>4. ASSUME NEW r \in Requests, NEW kind \in {"finish", "retire"}, NEW t \in Setup!Tokens, NEW k \in Credentials,
             Setup!Consume(r, kind, t, k)
      PROVE  Kept
  <2> DEFINE work == [kind |-> kind, token |-> t, credential |-> k, awaits |-> "gate", loaded |-> {}]
  <2>1. /\ work.token = t /\ work \in SetupWork /\ request[r] = Nobody /\ tokens' = tokens \ {t} /\ UNCHANGED mints
        /\ request' = IF Setup!Expired(t) THEN request ELSE [request EXCEPT ![r] = work]
    BY <1>4 DEF Setup!Consume, Setup!Spent, SetupWork
  <2> HIDE DEF work
  <2>2. \A s \in Requests : request[s] # Nobody => request'[s] = request[s]
    BY <1>1, <2>1
  <2>3. Setup!Expired(t) \/ request'[r] = work
    BY <1>1, <2>1
  <2>4. Setup!Expired(t) \/ Setup!InPlay(t)'
    BY <2>1, <2>3 DEF Setup!InPlay, Setup!Token, SetupApart
  <2>5. ASSUME NEW u \in Setup!Minted, Setup!InPlay(u) PROVE Setup!InPlay(u)' \/ Ends(u)
    <3>1. CASE u = t
      BY <3>1, <2>4 DEF Ends
    <3>2. CASE u # t
      BY <3>2, <2>1, <2>2, <2>5 DEF Setup!InPlay, Setup!Token
    <3> QED BY <3>1, <3>2
  <2> QED BY <1>2, <2>1, <2>5 DEF Kept
<1>5. ASSUME NEW r \in Requests, request[r] # Nobody, Setup!Respond(r), UNCHANGED <<tokens, mints>>,
             Ends(Setup!Token(r))
      PROVE  Kept
  <2>1. \A s \in Requests : s = r \/ request'[s] = request[s]
    BY <1>1, <1>5 DEF Setup!Respond
  <2> QED BY <1>2, <1>5, <2>1 DEF Kept, Setup!InPlay, Setup!Token
<1>6. ASSUME NEW r \in Requests, NEW what \in {"checks", "mutex"}, request[r] # Nobody, Setup!Proceed(r, what), UNCHANGED <<tokens, mints>>
      PROVE  Kept
  <2>1. \A s \in Requests : request[s] # Nobody => request'[s] # Nobody /\ request'[s].token = request[s].token
    <3>1. request[r] \in SetupWork /\ request' = [request EXCEPT ![r].awaits = what]
      BY <1>1, <1>6 DEF Setup!Proceed
    <3>2. request'[r] = [request[r] EXCEPT !.awaits = what]
      BY <1>1, <3>1
    <3>3. request'[r] \in SetupWork /\ request'[r].token = request[r].token
      BY <3>1, <3>2 DEF SetupWork
    <3>4. \A s \in Requests : s = r \/ request'[s] = request[s]
      BY <1>1, <3>1
    <3> QED BY <3>3, <3>4 DEF SetupApart
  <2> QED BY <1>2, <1>6, <2>1 DEF Kept, Setup!InPlay, Setup!Token
<1>7. ASSUME NEW b \in Minters, Setup!Issue(b) PROVE Kept
  BY <1>7, IssueKept
<1>8. CASE Setup!TokensRest
  BY <1>3, <1>8 DEF Setup!TokensRest
<1>9. CASE Setup!Tick
  BY <1>3, <1>9 DEF Setup!Tick
<1>10. ASSUME NEW r \in Requests, Setup!GateRefuses(r) PROVE Kept
  BY <1>5, <1>10 DEF Setup!GateRefuses, Setup!Awaits, Setup!Revoked, Ends
<1>11. ASSUME NEW r \in Requests, Setup!GatePasses(r) PROVE Kept
  BY <1>5, <1>6, <1>11 DEF Setup!GatePasses, Setup!Awaits, Ends
<1>12. ASSUME NEW r \in Requests, Setup!Checked(r) PROVE Kept
  BY <1>6, <1>12 DEF Setup!Checked, Setup!Awaits
<1>13. ASSUME NEW r \in Requests, Setup!Fails(r) PROVE Kept
  BY <1>13, PutBackKept DEF Setup!Fails
<1>14. ASSUME NEW r \in Requests, Setup!Load(r), request[r].credential \in account PROVE Kept
  BY <1>14, PutBackKept DEF Setup!Load, Setup!Awaits
<1>15. ASSUME NEW r \in Requests, Setup!Load(r), request[r].credential \notin account PROVE Kept
  <2>1. request[r] \in SetupWork /\ request' = [request EXCEPT ![r].awaits = "disk", ![r].loaded = account]
    BY <1>1, <1>15 DEF Setup!Load, Setup!Awaits
  <2>2. request'[r] = [request[r] EXCEPT !.awaits = "disk", !.loaded = account]
    BY <1>1, <2>1
  <2>3. request'[r].token = request[r].token /\ request'[r].awaits = "disk" /\ request'[r].loaded = account
        /\ account \subseteq Credentials
    BY <2>1, <2>2, <1>1 DEF SetupWork, SetupInv, SetupTyped
  <2>4. request'[r] \in SetupWork
    <3>1. request[r] \in SetupWork /\ account \in SUBSET Credentials
      BY <2>1, <2>3
    <3>2. [request[r] EXCEPT !.awaits = "disk", !.loaded = account] \in SetupWork
      BY <3>1 DEF SetupWork
    <3> QED BY <2>2, <3>2
  <2>5. \A s \in Requests : s = r \/ request'[s] = request[s]
    BY <1>1, <2>1
  <2>6. UNCHANGED <<tokens, mints>>
    BY <1>15 DEF Setup!Load
  <2>7. \A s \in Requests : request[s] # Nobody => request'[s] # Nobody /\ request'[s].token = request[s].token
    BY <2>3, <2>4, <2>5 DEF SetupApart
  <2> QED BY <1>2, <2>6, <2>7 DEF Kept, Setup!InPlay, Setup!Token
<1>16. ASSUME NEW r \in Requests, Setup!Write(r) PROVE Kept
  <2>1. request[r] # Nobody /\ Setup!Respond(r) /\ UNCHANGED <<tokens, mints>>
    BY <1>16 DEF Setup!Write, Setup!Awaits
  <2>2. registered'[Setup!Token(r)] # {}
    BY <1>1, <1>16, <2>1 DEF Setup!Write, Setup!Token, SetupInv, SetupTyped, SetupWork
  <2> QED BY <1>5, <2>1, <2>2 DEF Ends
<1>17. CASE UNCHANGED Setup!vars
  BY <1>3, <1>17 DEF Setup!vars
<1> QED BY <1>4, <1>7, <1>8, <1>9, <1>10, <1>11, <1>12, <1>13, <1>14, <1>15, <1>16, <1>17 DEF Setup!Next, Setup!Handle

\* So the newest code of a Burrow, and the cap, are kept by every step.
LEMMA TokenInvStep ==
  ASSUME SetupBounds, SetupApart, TokenInv, [Setup!Next]_(Setup!vars)
  PROVE  TokenInv'
<1>1. SetupInv /\ SetupInv'
  BY SetupInvStep DEF TokenInv
<1>2. Capped' /\ \A t \in Setup!Minted : Setup!InPlay(t) => Setup!InPlay(t)' \/ Ends(t)
  BY <1>1, StepKept DEF Kept
<1>3. /\ clock \in Int /\ clock' \in Int /\ TokenTTL \in Int /\ clock <= clock'
      /\ refused \subseteq refused' /\ retired \subseteq retired'
      /\ \A t \in Setup!Tokens : registered[t] \subseteq registered'[t]
      /\ \A t \in Setup!Minted : t \in Setup!Minted' /\ mints'[t] = mints[t]
      /\ \A t \in Setup!Minted' \ Setup!Minted : t \in tokens' /\ mints'[t].expiresAt = clock + TokenTTL
  BY <1>1, SetupGrows DEF SetupInv, SetupTyped, SetupBounds
<1>4. \A t \in Setup!Minted : mints[t] \in SetupMints /\ mints[t].expiresAt \in Int /\ t \in Setup!Tokens
  <2> SUFFICES ASSUME NEW t \in Setup!Minted
               PROVE  mints[t] \in SetupMints /\ mints[t].expiresAt \in Int /\ t \in Setup!Tokens
    OBVIOUS
  <2>1. mints[t] \in SetupMints /\ t \in Setup!Tokens
    BY <1>1 DEF SetupInv, SetupTyped, Setup!Minted
  <2>2. mints[t].expiresAt \in TokenTTL .. MaxNow + TokenTTL
    BY <2>1 DEF SetupMints
  <2> QED BY <2>1, <2>2 DEF SetupBounds
<1>5. Dated'
  <2>1. ASSUME NEW d \in Int, d <= clock + TokenTTL PROVE d <= clock' + TokenTTL
    <3>1. PICK c \in Int : c = clock'
      BY <1>3
    <3>2. clock <= c
      BY <1>3, <3>1
    <3>3. d <= c + TokenTTL
      BY <1>3, <2>1, <3>2
    <3> QED BY <3>1, <3>3
  <2>2. clock + TokenTTL \in Int /\ clock + TokenTTL <= clock + TokenTTL
    BY <1>3
  <2>3. ASSUME NEW t \in Setup!Minted' PROVE mints'[t].expiresAt <= clock' + TokenTTL
    <3>1. CASE t \in Setup!Minted
      BY <3>1, <1>3, <1>4, <2>1 DEF TokenInv, Dated
    <3>2. CASE t \notin Setup!Minted
      BY <3>2, <1>3, <2>1, <2>2
    <3> QED BY <3>1, <3>2
  <2> QED BY <2>3 DEF Dated
<1>6. ASSUME NEW t \in Setup!Minted', Newest(t)' PROVE Setup!InPlay(t)'
  <2>1. CASE t \notin Setup!Minted
    BY <2>1, <1>3 DEF Setup!InPlay
  <2>2. CASE t \in Setup!Minted
    <3>1. /\ t \notin refused' /\ ~Setup!Expired(t)' /\ registered'[t] = {} /\ t \notin retired'
          /\ \A u \in Setup!Minted' \ {t} : mints'[u].burrow = mints[t].burrow => mints'[u].expiresAt < mints[t].expiresAt
      BY <1>3, <1>6, <2>2 DEF Newest
    <3>2. ~Setup!Expired(t)
      <4>1. ~(clock' >= mints[t].expiresAt)
        BY <1>3, <2>2, <3>1 DEF Setup!Expired
      <4>2. PICK c \in Int : c = clock'
        BY <1>3
      <4>3. ~(clock >= mints[t].expiresAt)
        BY <1>3, <1>4, <2>2, <4>1, <4>2
      <4> QED BY <4>3 DEF Setup!Expired
    <3>3. \A u \in Setup!Minted \ {t} : mints[u].burrow = mints[t].burrow => mints[u].expiresAt < mints[t].expiresAt
      BY <1>3, <3>1
    <3>4. Newest(t)
      BY <1>3, <1>4, <2>2, <3>1, <3>2, <3>3 DEF Newest
    <3>5. Setup!InPlay(t)
      BY <3>4, <2>2 DEF TokenInv
    <3>6. ~MakesRoom(t)
      <4> SUFFICES ASSUME NEW u \in tokens', u # t, mints'[u].burrow = mints[t].burrow,
                          mints'[u].expiresAt >= mints[t].expiresAt
                   PROVE  FALSE
        BY DEF MakesRoom
      <4>1. u \in Setup!Minted'
        BY <1>1 DEF SetupInv, SetupTyped
      <4>2. mints'[u].expiresAt < mints[t].expiresAt
        BY <3>1, <4>1
      <4>3. mints'[u].expiresAt \in Int /\ mints[t].expiresAt \in Int
        BY <1>3, <1>4, <2>2, <4>1
      <4> QED BY <4>2, <4>3
    <3>7. Setup!InPlay(t)' \/ Ends(t)
      BY <1>2, <2>2, <3>5
    <3> QED BY <3>1, <3>2, <3>6, <3>7, <1>3 DEF Ends
  <2> QED BY <2>1, <2>2
<1> QED BY <1>1, <1>2, <1>5, <1>6 DEF TokenInv

\* Nothing is minted yet.
LEMMA TokenInitInv == SetupBounds /\ Setup!Init => TokenInv
<1> SUFFICES ASSUME SetupBounds, Setup!Init PROVE TokenInv
  OBVIOUS
<1>1. SetupInv
  BY SetupInitInv
<1>2. Setup!Minted = {} /\ tokens = {}
  BY EmptySeq DEF Setup!Init, Setup!Minted
<1>3. \A b \in Minters : Own(tokens, b) = {}
  BY <1>2 DEF Own
<1>4. Capped
  BY <1>3, FS_EmptySet DEF Capped, SetupBounds
<1> QED BY <1>1, <1>2, <1>4 DEF TokenInv, Dated

\* However many old tokens come back, a Burrow stays at its cap and the code it
\* showed last stays redeemable until it is used, retired, expired or refused,
\* though burrows.json comes and goes
\* (restore, #trimBurrow).
THEOREM NewestCodeStays ==
  ASSUME SetupBounds, SetupApart
  PROVE  Setup!Spec => []NewestCodeSurvives
<1>1. TokenInv /\ [Setup!Next]_(Setup!vars) => TokenInv'
  BY TokenInvStep
<1>2. TokenInv => NewestCodeSurvives
  <2> SUFFICES ASSUME TokenInv, NEW b \in Minters
               PROVE  LET own == {t \in Setup!Minted : mints[t].burrow = b} IN
                      /\ Setup!Cardinality(own \cap tokens) <= MaxTokens
                      /\ \A t \in own :
                           /\ t \notin refused /\ ~Setup!Expired(t) /\ registered[t] = {} /\ t \notin retired
                           /\ \A u \in own \ {t} : mints[u].expiresAt < mints[t].expiresAt
                           => Setup!InPlay(t)
    BY DEF NewestCodeSurvives, Setup!NewestCodeSurvives
  <2> DEFINE own == {t \in Setup!Minted : mints[t].burrow = b}
  <2>1. own \cap tokens = Own(tokens, b)
    BY DEF Own, TokenInv, SetupInv, SetupTyped
  <2>2. Setup!Cardinality(own \cap tokens) <= MaxTokens
    BY <2>1, SameCardinality DEF TokenInv, Capped
  <2>3. ASSUME NEW t \in own, t \notin refused, ~Setup!Expired(t), registered[t] = {}, t \notin retired,
               \A u \in own \ {t} : mints[u].expiresAt < mints[t].expiresAt
        PROVE  Setup!InPlay(t)
    BY <2>3 DEF TokenInv, Newest
  <2> QED BY <2>2, <2>3
<1> QED BY TokenInitInv, <1>1, <1>2, PTL DEF Setup!Spec

\* A finish that fails costs no token: what goes was used or retired, expired,
\* made room at the cap, or was refused because its Burrow had no row in what
\* the gate read of burrows.json (restore, setup/finish).
THEOREM TokensGoForCause ==
  ASSUME SetupBounds, SetupApart
  PROVE  Setup!Spec => TokensEndForCause
<1> DEFINE Cause ==
      \A t \in Setup!Minted : Setup!InPlay(t) /\ ~Setup!InPlay(t)' =>
        \/ registered'[t] # {} \/ t \in retired' \/ Setup!Expired(t)
        \/ mints[t].burrow \notin rows
        \/ Setup!Cardinality({u \in tokens' : mints'[u].burrow = mints[t].burrow}) = MaxTokens
<1>1. TokenInv /\ [Setup!Next]_(Setup!vars) => TokenInv'
  BY TokenInvStep
<1>2. TokenInv /\ [Setup!Next]_(Setup!vars) => [Cause]_(Setup!vars)
  <2> SUFFICES ASSUME TokenInv, [Setup!Next]_(Setup!vars), NEW t \in Setup!Minted, Setup!InPlay(t), ~Setup!InPlay(t)'
               PROVE  \/ registered'[t] # {} \/ t \in retired' \/ Setup!Expired(t)
                      \/ mints[t].burrow \notin rows
                      \/ Setup!Cardinality({u \in tokens' : mints'[u].burrow = mints[t].burrow}) = MaxTokens
    OBVIOUS
  <2>1. SetupInv /\ SetupInv'
    BY SetupInvStep DEF TokenInv
  <2>2. Ends(t)
    BY <2>1, StepKept DEF Kept
  <2>3. mints'[t] = mints[t]
    BY <2>1, SetupGrows
  <2>4. Own(tokens, mints[t].burrow)' = {u \in tokens' : mints'[u].burrow = mints[t].burrow}
    BY <2>3 DEF Own
  <2> QED BY <2>2, <2>4, SameCardinality DEF Ends, MakesRoom
<1> QED BY TokenInitInv, <1>1, <1>2, PTL DEF Setup!Spec, TokensEndForCause, Setup!TokensEndForCause

-----------------------------------------------------------------------------
(* Enrolment offers (EnrollOffer).                                         *)

OfferSteps == {"gate", "read", "claim", "compare", "release", "invalidate", "write"}
OfferTurns == [credential : Nat, claim : Nat \cup {Nothing}, away : BOOLEAN, next : OfferSteps]
OfferRows == [credential : Nat, away : BOOLEAN]

\* What every step may rely on, whatever the bounds.
OfferTyped ==
  /\ offers \in Nat /\ offer \in Nat \cup {Nothing}
  /\ turn \in {Nothing} \cup OfferTurns
  /\ enrollments \in Seq(OfferRows)

\* Once a Burrow was recorded burrows.json is there, or an editor has it.
FileStays == enrollments # <<>> => present \/ editor # Offer!Idle

\* An offer is read, claimed, compared and spent by a turn that found no
\* burrows.json: no Burrow was recorded, or an editor had it away.
TurnIsSound ==
  turn # Nothing =>
    /\ turn.next \in {"read", "claim", "compare", "release"} => turn.credential # Offer!Password
    /\ turn.next \in {"read", "claim", "compare", "write"} =>
         turn.credential = Offer!Password \/ enrollments = <<>> \/ turn.away

\* An offer that enrolled a Burrow, or is about to, was spent; a spent one is
\* neither on disk nor in a claim that may be put back.
SpentIsGone ==
  /\ offer \notin spent
  /\ turn # Nothing =>
       /\ turn.claim # Nothing => turn.claim # offer
       /\ turn.next \in {"compare", "release"} => turn.claim \notin spent
       /\ turn.next = "write" /\ turn.credential # Offer!Password =>
            /\ turn.credential \in spent
            /\ \A i \in DOMAIN enrollments : enrollments[i].credential # turn.credential
  /\ \A i \in DOMAIN enrollments : enrollments[i].credential # Offer!Password => enrollments[i].credential \in spent

\* Offers are numbered as written: what was written is no newer.
Numbered ==
  /\ offer # Nothing => offer \in 1 .. offers
  /\ spent \subseteq 1 .. offers
  /\ turn # Nothing /\ turn.claim # Nothing => turn.claim \in 1 .. offers

OfferInv == OfferTyped /\ FileStays /\ TurnIsSound /\ Numbered /\ SpentIsGone /\ Offer!OfferEnrollsFirstOnly

\* "No file" and "no turn" are told from an offer and a turn.
OfferApart == Nothing \notin Nat \cup OfferTurns

\* It holds when the Relay starts.
LEMMA OfferInitInv == Offer!Init => OfferInv
BY EmptySeq DEF Offer!Init, Offer!FileInit, OfferInv, OfferTyped, FileStays, TurnIsSound, Numbered, SpentIsGone, Offer!OfferEnrollsFirstOnly

\* No edit and no enrolment leaves the Relay without the file, but for what an
\* editor will put back.
LEMMA FileIsKept ==
  ASSUME \/ Offer!EnrollRead \/ Offer!EnrollFails \/ Offer!FileVanishes \/ Offer!FileReturns \/ UNCHANGED Offer!file
         \/ \E b \in Burrows : Offer!EnrollWrite(b) \/ Offer!Revoke(b)
  PROVE  present \/ editor # Offer!Idle => present' \/ editor' # Offer!Idle
<1>1. CASE Offer!FileVanishes
  <2>1. editor' # Offer!Idle
    BY <1>1 DEF Offer!FileVanishes, Offer!Idle
  <2> QED BY <2>1
<1>2. CASE Offer!FileReturns \/ \E b \in Burrows : Offer!EnrollWrite(b)
  BY <1>2 DEF Offer!FileReturns, Offer!EnrollWrite, Offer!Replace
<1>3. CASE Offer!EnrollRead \/ Offer!EnrollFails \/ UNCHANGED Offer!file \/ \E b \in Burrows : Offer!Revoke(b)
  BY <1>3 DEF Offer!EnrollRead, Offer!EnrollFails, Offer!file, Offer!Revoke
<1> QED BY <1>1, <1>2, <1>3

\* A step that enrols nobody and only leaves the file to others.
Rests == present \/ editor # Offer!Idle => present' \/ editor' # Offer!Idle

\* burrows.json is edited, or a turn reads it.
LEMMA OfferFileKeeps ==
  ASSUME OfferInv, Rests, UNCHANGED <<offers, offer, turn, enrollments, spent>>
  PROVE  OfferInv'
BY DEF Rests, OfferInv, OfferTyped, FileStays, TurnIsSound, Numbered, SpentIsGone, Offer!OfferEnrollsFirstOnly

\* "No file" was never spent.
LEMMA SpentAreOffers == OfferApart /\ Numbered => Nothing \notin spent
<1> SUFFICES ASSUME OfferApart, Numbered, Nothing \in spent PROVE FALSE
  OBVIOUS
<1>1. Nothing \in 1 .. offers
  BY DEF Numbered
<1>2. Nothing \in Nat
  BY <1>1
<1> QED BY <1>2 DEF OfferApart

\* A turn ends without an enrolment, and a claim it held is lost or was spent.
LEMMA OfferRefuseKeeps ==
  ASSUME OfferInv, Rests, turn # Nothing, turn' = Nothing, UNCHANGED <<offers, offer, enrollments>>,
         \/ UNCHANGED spent
         \/ spent' = spent \cup ({turn.claim} \ {Nothing})
  PROVE  OfferInv'
<1>1. OfferTyped' /\ FileStays' /\ TurnIsSound' /\ Offer!OfferEnrollsFirstOnly'
  BY DEF Rests, OfferInv, OfferTyped, FileStays, TurnIsSound, Offer!OfferEnrollsFirstOnly
<1>2. Numbered'
  BY DEF OfferInv, Numbered
<1>3. SpentIsGone'
  BY DEF OfferInv, SpentIsGone
<1> QED BY <1>1, <1>2, <1>3 DEF OfferInv

\* The installer.
LEMMA OfferInstallKeeps ==
  ASSUME OfferApart, OfferInv, Offer!Install
  PROVE  OfferInv'
<1>1. /\ offers' = offers + 1 /\ offer' = offers + 1 /\ offers \in Nat
      /\ UNCHANGED <<turn, enrollments, spent>> /\ UNCHANGED Offer!file
  BY DEF Offer!Install, OfferInv, OfferTyped
<1>2. Rests
  BY <1>1 DEF Rests, Offer!file
<1>3. OfferTyped' /\ FileStays' /\ TurnIsSound' /\ Offer!OfferEnrollsFirstOnly'
  BY <1>1, <1>2 DEF Rests, OfferInv, OfferTyped, FileStays, TurnIsSound, Offer!OfferEnrollsFirstOnly
<1>4. Numbered'
  BY <1>1 DEF OfferInv, Numbered
<1>5. offer' \notin spent /\ (turn # Nothing /\ turn.claim # Nothing => turn.claim # offer')
  BY <1>1 DEF OfferInv, Numbered
<1>6. SpentIsGone'
  BY <1>1, <1>5 DEF OfferInv, SpentIsGone
<1> QED BY <1>3, <1>4, <1>6 DEF OfferInv

\* A turn begins.
LEMMA OfferEnterKeeps ==
  ASSUME OfferApart, OfferInv, NEW credential \in {Offer!Password} \cup 1 .. offers, Offer!Enter(credential)
  PROVE  OfferInv'
<1> DEFINE begun == [credential |-> credential, next |-> "gate", claim |-> Nothing, away |-> FALSE]
<1>1. /\ begun \in OfferTurns /\ begun.claim = Nothing /\ begun.next = "gate"
      /\ turn' = begun /\ UNCHANGED <<offers, offer, enrollments, spent>> /\ UNCHANGED Offer!file
  BY DEF Offer!Enter, Offer!store, OfferTurns, OfferSteps, OfferInv, OfferTyped, Offer!Password
<1> HIDE DEF begun
<1>2. Rests
  BY <1>1 DEF Rests, Offer!file
<1>3. OfferTyped' /\ FileStays' /\ TurnIsSound' /\ Offer!OfferEnrollsFirstOnly'
  BY <1>1, <1>2 DEF Rests, OfferInv, OfferTyped, FileStays, TurnIsSound, Offer!OfferEnrollsFirstOnly
<1>4. Numbered' /\ SpentIsGone'
  BY <1>1 DEF OfferInv, Numbered, SpentIsGone
<1> QED BY <1>3, <1>4 DEF OfferInv

\* The turn goes on with the same claim: what it has to know for its next step.
LEMMA OfferThenKeeps ==
  ASSUME OfferApart, OfferInv, turn # Nothing, NEW what \in OfferSteps, NEW away \in BOOLEAN,
         turn' = [turn EXCEPT !.next = what, !.away = away],
         UNCHANGED <<offers, enrollments>>, UNCHANGED Offer!file,
         what \in {"read", "claim", "compare", "release"} => turn.credential # Offer!Password,
         what \in {"read", "claim", "compare", "write"} =>
           turn.credential = Offer!Password \/ enrollments = <<>> \/ away,
         what \in {"compare", "release"} => turn.claim \notin spent',
         what = "write" /\ turn.credential # Offer!Password =>
           /\ turn.credential \in spent'
           /\ \A i \in DOMAIN enrollments : enrollments[i].credential # turn.credential,
         \/ UNCHANGED <<offer, spent>>
         \/ offer' = Nothing /\ spent' = spent \cup ({offer} \ {Nothing})
         \/ offer' = offer /\ turn.claim # Nothing /\ spent' = spent \cup {turn.claim}
  PROVE  OfferInv'
<1>1. turn \in OfferTurns /\ turn' \in OfferTurns
  BY DEF OfferInv, OfferTyped, OfferTurns
<1>2. turn'.credential = turn.credential /\ turn'.claim = turn.claim /\ turn'.next = what /\ turn'.away = away
  BY <1>1 DEF OfferTurns
<1>3. Rests
  BY DEF Rests, Offer!file
<1>4. spent \subseteq spent' /\ offer' \in {offer, Nothing}
  OBVIOUS
<1>5. OfferTyped' /\ FileStays' /\ Offer!OfferEnrollsFirstOnly'
  BY <1>1, <1>3, <1>4 DEF Rests, OfferInv, OfferTyped, FileStays, Offer!OfferEnrollsFirstOnly
<1>6. TurnIsSound'
  BY <1>2 DEF TurnIsSound
<1>7. Numbered'
  BY <1>2, <1>4 DEF OfferInv, Numbered
<1>8. Nothing \notin spent'
  BY SpentAreOffers DEF OfferInv
<1>9. offer' \notin spent'
  BY <1>8 DEF OfferInv, SpentIsGone
<1>10. SpentIsGone'
  BY <1>2, <1>4, <1>9 DEF OfferInv, SpentIsGone
<1> QED BY <1>5, <1>6, <1>7, <1>10 DEF OfferInv

\* The gate, and the looks at the offer that leave it where it is.
LEMMA OfferLookKeeps ==
  ASSUME OfferApart, OfferInv, Offer!Gate \/ Offer!Verify \/ Offer!Compare \/ Offer!CompareFails
  PROVE  OfferInv'
<1>1. turn \in OfferTurns /\ turn # Nothing /\ enrollments \in Seq(OfferRows)
  BY DEF Offer!Gate, Offer!Verify, Offer!Compare, Offer!CompareFails, Offer!At, OfferInv, OfferTyped
<1>2. \A what \in OfferSteps : [turn EXCEPT !.next = what] = [turn EXCEPT !.next = what, !.away = turn.away]
  BY <1>1 DEF OfferTurns
<1>3. turn.away \in BOOLEAN
  BY <1>1 DEF OfferTurns
<1>4. UNCHANGED <<offers, enrollments>> /\ UNCHANGED Offer!file /\ offer' = offer
  BY DEF Offer!Gate, Offer!Verify, Offer!Compare, Offer!CompareFails, Offer!store
<1>5. CASE Offer!Gate
  <2> DEFINE what == IF turn.credential = Offer!Password THEN IF Offer!First THEN "invalidate" ELSE "write"
                     ELSE IF Offer!First THEN "read" ELSE "invalidate"
             away == editor # Offer!Idle
  <2>1. turn' = [turn EXCEPT !.next = what, !.away = away] /\ UNCHANGED spent
    BY <1>5 DEF Offer!Gate
  <2>2. what \in OfferSteps /\ away \in BOOLEAN
    BY DEF OfferSteps
  <2>3. /\ what \in {"read", "invalidate", "write"}
        /\ what = "read" => turn.credential # Offer!Password /\ (enrollments = <<>> \/ away)
        /\ what = "write" => turn.credential = Offer!Password
    BY DEF Offer!First, OfferInv, FileStays
  <2> HIDE DEF what, away
  <2> QED BY <1>1, <1>4, <2>1, <2>2, <2>3, OfferThenKeeps
<1>6. CASE Offer!Verify
  <2>1. turn.next = "read" /\ turn' = [turn EXCEPT !.next = "claim"] /\ UNCHANGED spent /\ "claim" \in OfferSteps
    BY <1>6 DEF Offer!Verify, Offer!At, Offer!Then, OfferSteps
  <2>2. turn' = [turn EXCEPT !.next = "claim", !.away = turn.away]
    BY <1>2, <2>1
  <2>3. turn.credential # Offer!Password /\ (turn.credential = Offer!Password \/ enrollments = <<>> \/ turn.away)
    BY <1>1, <2>1 DEF OfferInv, TurnIsSound
  <2> QED BY <1>1, <1>3, <1>4, <2>1, <2>2, <2>3, OfferThenKeeps
<1>7. CASE Offer!Compare /\ Offer!Holds
  <2>1. /\ turn.next = "compare" /\ turn' = [turn EXCEPT !.next = "write"] /\ spent' = spent \cup {turn.credential}
        /\ turn.claim = turn.credential /\ "write" \in OfferSteps
    BY <1>7 DEF Offer!Compare, Offer!Holds, Offer!At, Offer!Then, OfferSteps
  <2>2. turn' = [turn EXCEPT !.next = "write", !.away = turn.away]
    BY <1>2, <2>1
  <2>3. /\ turn.credential = Offer!Password \/ enrollments = <<>> \/ turn.away
        /\ turn.credential # Offer!Password /\ turn.credential \notin spent
    BY <1>1, <2>1 DEF OfferInv, TurnIsSound, SpentIsGone
  <2>4. turn.claim # Nothing
    BY <1>1, <2>1 DEF OfferApart, OfferTurns
  <2>5. turn.credential \in spent' /\ \A i \in DOMAIN enrollments : enrollments[i].credential # turn.credential
    BY <2>1, <2>3 DEF OfferInv, SpentIsGone
  <2> QED BY <1>1, <1>3, <1>4, <2>1, <2>2, <2>3, <2>4, <2>5, OfferThenKeeps
<1>8. CASE (Offer!Compare /\ ~Offer!Holds) \/ Offer!CompareFails
  <2>1. turn.next = "compare" /\ turn' = [turn EXCEPT !.next = "release"] /\ UNCHANGED spent /\ "release" \in OfferSteps
    BY <1>8 DEF Offer!Compare, Offer!CompareFails, Offer!At, Offer!Then, OfferSteps
  <2>2. turn' = [turn EXCEPT !.next = "release", !.away = turn.away]
    BY <1>2, <2>1
  <2>3. turn.credential # Offer!Password /\ turn.claim \notin spent
    BY <1>1, <2>1 DEF OfferInv, TurnIsSound, SpentIsGone
  <2> QED BY <1>1, <1>3, <1>4, <2>1, <2>2, <2>3, OfferThenKeeps
<1> QED BY <1>5, <1>6, <1>7, <1>8

\* The offer is moved into a claim, put back or removed.
LEMMA OfferMoveKeeps ==
  ASSUME OfferApart, OfferInv, Offer!Claim \/ Offer!Release \/ Offer!Invalidate
  PROVE  OfferInv'
<1>1. turn \in OfferTurns /\ turn # Nothing
  BY DEF Offer!Claim, Offer!Release, Offer!Invalidate, Offer!At, OfferInv, OfferTyped
<1>2. UNCHANGED <<offers, enrollments>> /\ UNCHANGED Offer!file
  BY DEF Offer!Claim, Offer!Release, Offer!Invalidate, Offer!store
<1>3. Rests
  BY <1>2 DEF Rests, Offer!file
<1>4. CASE Offer!Claim
  <2>1. /\ turn.next = "claim" /\ offer # Nothing /\ offer' = Nothing /\ UNCHANGED spent
        /\ turn' = [turn EXCEPT !.next = "compare", !.claim = offer]
    BY <1>4 DEF Offer!Claim, Offer!At
  <2>2. offer \in Nat /\ offer \in 1 .. offers /\ offer \notin spent
    BY <2>1 DEF OfferInv, OfferTyped, Numbered, SpentIsGone
  <2>3. turn'.credential = turn.credential /\ turn'.claim = offer /\ turn'.next = "compare" /\ turn'.away = turn.away
        /\ turn' \in OfferTurns
    BY <1>1, <2>1, <2>2 DEF OfferTurns, OfferSteps
  <2>4. OfferTyped' /\ FileStays' /\ Offer!OfferEnrollsFirstOnly'
    BY <1>2, <1>3, <2>1, <2>3 DEF Rests, OfferInv, OfferTyped, FileStays, Offer!OfferEnrollsFirstOnly
  <2>5. TurnIsSound'
    BY <1>1, <1>2, <2>1, <2>3 DEF OfferInv, TurnIsSound
  <2>6. Numbered'
    BY <1>2, <2>1, <2>2, <2>3 DEF OfferInv, Numbered
  <2>7. Nothing \notin spent
    BY SpentAreOffers DEF OfferInv
  <2>8. SpentIsGone'
    BY <1>2, <2>1, <2>2, <2>3, <2>7 DEF OfferInv, SpentIsGone
  <2> QED BY <2>4, <2>5, <2>6, <2>8 DEF OfferInv
<1>5. CASE Offer!Release
  <2>1. turn.next = "release" /\ offer' \in {offer, turn.claim} /\ turn' = Nothing /\ UNCHANGED spent
    BY <1>5 DEF Offer!Release, Offer!At, Offer!Refuse, Offer!Published
  <2>2. offer' \notin spent
    BY <1>1, <2>1 DEF OfferInv, SpentIsGone
  <2>3. offer' # Nothing => offer' \in 1 .. offers
    BY <1>1, <2>1 DEF OfferInv, Numbered
  <2>4. offer' \in Nat \cup {Nothing}
    BY <1>1, <2>1 DEF OfferInv, OfferTyped, OfferTurns
  <2>5. OfferTyped' /\ FileStays' /\ TurnIsSound' /\ Offer!OfferEnrollsFirstOnly'
    BY <1>2, <1>3, <2>1, <2>4 DEF Rests, OfferInv, OfferTyped, FileStays, TurnIsSound, Offer!OfferEnrollsFirstOnly
  <2>6. Numbered' /\ SpentIsGone'
    BY <1>2, <2>1, <2>2, <2>3 DEF OfferInv, Numbered, SpentIsGone
  <2> QED BY <2>5, <2>6 DEF OfferInv
<1>6. CASE Offer!Invalidate /\ turn.credential = Offer!Password
  <2>1. turn' = [turn EXCEPT !.next = "write"] /\ "write" \in OfferSteps
        /\ offer' = Nothing /\ spent' = spent \cup ({offer} \ {Nothing})
    BY <1>6 DEF Offer!Invalidate, Offer!At, Offer!Then, OfferSteps
  <2>2. turn' = [turn EXCEPT !.next = "write", !.away = turn.away] /\ turn.away \in BOOLEAN
    BY <1>1, <2>1 DEF OfferTurns
  <2> QED BY <1>1, <1>2, <1>6, <2>1, <2>2, OfferThenKeeps
<1>7. CASE Offer!Invalidate /\ turn.credential # Offer!Password
  <2>1. turn' = Nothing /\ offer' = Nothing /\ spent' = spent \cup ({offer} \ {Nothing})
    BY <1>7 DEF Offer!Invalidate, Offer!Refuse
  <2>2. OfferTyped' /\ FileStays' /\ TurnIsSound' /\ Offer!OfferEnrollsFirstOnly'
    BY <1>2, <1>3, <2>1 DEF Rests, OfferInv, OfferTyped, FileStays, TurnIsSound, Offer!OfferEnrollsFirstOnly
  <2>3. Numbered'
    BY <1>2, <2>1 DEF OfferInv, Numbered
  <2>4. Nothing \notin spent'
    <3>1. Nothing \notin spent
      BY SpentAreOffers DEF OfferInv
    <3> QED BY <2>1, <3>1
  <2>5. SpentIsGone'
    BY <1>2, <2>1, <2>4 DEF OfferInv, SpentIsGone
  <2> QED BY <2>2, <2>3, <2>5 DEF OfferInv
<1> QED BY <1>4, <1>5, <1>6, <1>7

\* The row is written: the first one by whatever turn, a later one by the
\* password, or by an offer while an editor had the file away.
LEMMA OfferWriteKeeps ==
  ASSUME OfferApart, OfferInv, Offer!Write
  PROVE  OfferInv'
<1> DEFINE row == [credential |-> turn.credential, away |-> turn.away]
<1>1. /\ turn \in OfferTurns /\ turn # Nothing /\ turn.next = "write" /\ turn' = Nothing
      /\ enrollments' = Append(enrollments, row) /\ UNCHANGED <<offers, offer, spent>>
      /\ \E b \in Burrows : Offer!EnrollWrite(b)
  BY DEF Offer!Write, Offer!At, Offer!Refuse, OfferInv, OfferTyped
<1>2. row \in OfferRows /\ row.credential = turn.credential /\ row.away = turn.away
  BY <1>1 DEF OfferTurns, OfferRows
<1>3. /\ turn.credential = Offer!Password \/ enrollments = <<>> \/ turn.away
      /\ turn.credential # Offer!Password =>
           /\ turn.credential \in spent
           /\ \A i \in DOMAIN enrollments : enrollments[i].credential # turn.credential
  BY <1>1 DEF OfferInv, TurnIsSound, SpentIsGone
<1>4. present'
  BY <1>1 DEF Offer!EnrollWrite, Offer!Replace
<1> HIDE DEF row
<1>5. enrollments \in Seq(OfferRows)
  BY DEF OfferInv, OfferTyped
<1>6. /\ enrollments' \in Seq(OfferRows) /\ Len(enrollments) \in Nat
      /\ DOMAIN enrollments = 1 .. Len(enrollments) /\ DOMAIN enrollments' = 1 .. Len(enrollments) + 1
      /\ \A i \in DOMAIN enrollments : enrollments'[i] = enrollments[i]
      /\ enrollments'[Len(enrollments) + 1] = row
  BY <1>1, <1>2, <1>5, AppendProperties
<1> DEFINE n == Len(enrollments) + 1
<1>7. /\ \A i \in DOMAIN enrollments' : i \in DOMAIN enrollments \/ i = n
      /\ \A i \in DOMAIN enrollments : i # n
      /\ n \in DOMAIN enrollments' /\ enrollments = <<>> => n = 1
  BY <1>5, <1>6, EmptySeq
<1>8. enrollments'[n] = row
  BY <1>6
<1> HIDE DEF n
<1>9. OfferTyped' /\ FileStays' /\ TurnIsSound' /\ Numbered'
  BY <1>1, <1>4, <1>6 DEF OfferInv, OfferTyped, FileStays, TurnIsSound, Numbered
<1>10. SpentIsGone'
  BY <1>1, <1>2, <1>3, <1>6, <1>7, <1>8 DEF OfferInv, SpentIsGone
<1>11. ASSUME NEW i \in DOMAIN enrollments', enrollments'[i].credential # Offer!Password
       PROVE  /\ i = 1 \/ enrollments'[i].away
              /\ \A k \in DOMAIN enrollments' : enrollments'[k].credential = enrollments'[i].credential => k = i
  <2>1. CASE i = n
    <3>1. turn.credential # Offer!Password
      BY <1>2, <1>8, <1>11, <2>1
    <3>2. i = 1 \/ enrollments'[i].away
      BY <1>2, <1>3, <1>7, <1>8, <2>1, <3>1
    <3>3. ASSUME NEW k \in DOMAIN enrollments', enrollments'[k].credential = enrollments'[i].credential PROVE k = i
      BY <1>2, <1>3, <1>6, <1>7, <1>8, <2>1, <3>1, <3>3
    <3> QED BY <3>2, <3>3
  <2>2. CASE i \in DOMAIN enrollments
    <3>1. enrollments'[i] = enrollments[i] /\ enrollments[i].credential # Offer!Password
      BY <1>6, <1>11, <2>2
    <3>2. /\ i = 1 \/ enrollments[i].away
          /\ \A k \in DOMAIN enrollments : enrollments[k].credential = enrollments[i].credential => k = i
      BY <2>2, <3>1 DEF OfferInv, Offer!OfferEnrollsFirstOnly
    <3>3. ASSUME NEW k \in DOMAIN enrollments', enrollments'[k].credential = enrollments'[i].credential PROVE k = i
      <4>1. CASE k = n
        BY <1>2, <1>3, <1>8, <2>2, <3>1, <3>3, <4>1
      <4>2. CASE k \in DOMAIN enrollments
        BY <1>6, <3>1, <3>2, <3>3, <4>2
      <4> QED BY <1>7, <4>1, <4>2
    <3> QED BY <3>1, <3>2, <3>3
  <2> QED BY <1>7, <2>1, <2>2
<1>12. Offer!OfferEnrollsFirstOnly'
  BY <1>11 DEF Offer!OfferEnrollsFirstOnly
<1> QED BY <1>9, <1>10, <1>12 DEF OfferInv

\* So it is kept by every step.
LEMMA OfferInvStep == OfferApart /\ OfferInv /\ [Offer!Next]_(Offer!vars) => OfferInv'
<1> SUFFICES ASSUME OfferApart, OfferInv, [Offer!Next]_(Offer!vars) PROVE OfferInv'
  OBVIOUS
<1>1. CASE UNCHANGED Offer!vars
  BY <1>1, FileIsKept, OfferFileKeeps DEF Offer!vars, Rests
<1>2. CASE /\ Offer!FileVanishes \/ Offer!FileReturns \/ \E b \in Burrows : Offer!Revoke(b)
           /\ Offer!OffersRest
  BY <1>2, FileIsKept, OfferFileKeeps DEF Rests, Offer!OffersRest
<1>3. CASE Offer!Read
  BY <1>3, FileIsKept, OfferFileKeeps DEF Rests, Offer!Read
<1>4. CASE Offer!Install
  BY <1>4, OfferInstallKeeps
<1>5. ASSUME Offer!Forget PROVE Rests
  BY <1>5, FileIsKept DEF Rests, Offer!Forget
<1>6. CASE Offer!Crash \/ Offer!WriteFails
  BY <1>5, <1>6, OfferRefuseKeeps DEF Offer!Crash, Offer!WriteFails, Offer!Refuse, Offer!At
<1>7. CASE Offer!Reject \/ Offer!ClaimFails \/ Offer!InvalidateFails
  BY <1>7, FileIsKept, OfferRefuseKeeps DEF Rests, Offer!Reject, Offer!ClaimFails, Offer!InvalidateFails, Offer!Refuse, Offer!At, Offer!store
<1>8. CASE \E credential \in {Offer!Password} \cup 1 .. offers : Offer!Enter(credential)
  BY <1>8, OfferEnterKeeps
<1>9. CASE Offer!Gate \/ Offer!Verify \/ Offer!Compare \/ Offer!CompareFails
  BY <1>9, OfferLookKeeps
<1>10. CASE Offer!Claim \/ Offer!Release \/ Offer!Invalidate
  BY <1>10, OfferMoveKeeps
<1>11. CASE Offer!Write
  BY <1>11, OfferWriteKeeps
<1> QED BY <1>1, <1>2, <1>3, <1>4, <1>6, <1>7, <1>8, <1>9, <1>10, <1>11 DEF Offer!Next

\* What the state is made of.
LEMMA OfferTypes ==
  ASSUME MaxOffers \in Nat, MaxCrashes \in Nat, OfferInv, Offer!TypeOK, [Offer!Next]_(Offer!vars)
  PROVE  Offer!TypeOK'
<1> DEFINE Claims == Offer!Offers \cup {Nothing}
           Paid == {Offer!Password} \cup Offer!Offers
           Row == [credential : Paid, away : BOOLEAN]
           Turn == [credential : Paid, claim : Claims, away : BOOLEAN,
                    next : {"gate", "read", "claim", "compare", "release", "invalidate", "write"}]
<1>1. /\ offers \in 0 .. MaxOffers /\ offer \in Claims /\ turn \in {Nothing} \cup Turn
      /\ enrollments \in Seq(Row)
      /\ spent \subseteq Offer!Offers /\ crashes \in 0 .. MaxCrashes
  BY DEF Offer!TypeOK
<1>2. SUFFICES /\ offers' \in 0 .. MaxOffers /\ offer' \in Claims /\ turn' \in {Nothing} \cup Turn
               /\ enrollments' \in Seq(Row)
               /\ spent' \subseteq Offer!Offers /\ crashes' \in 0 .. MaxCrashes
  BY DEF Offer!TypeOK, Offer!Offers, Offer!Password
<1> USE DEF Offer!store, Offer!At, Offer!Then, Offer!Refuse
<1>3. CASE UNCHANGED Offer!vars
  BY <1>1, <1>3 DEF Offer!vars
<1>4. CASE Offer!Install
  BY <1>1, <1>4 DEF Offer!Install, Offer!Offers
<1>5. CASE Offer!Crash
  BY <1>1, <1>5 DEF Offer!Crash
<1>6. ASSUME NEW credential \in {Offer!Password} \cup 1 .. offers, Offer!Enter(credential) PROVE turn' \in Turn
  <2>1. credential \in Paid
    BY <1>1 DEF Offer!Offers
  <2> QED BY <2>1, <1>6 DEF Offer!Enter
<1>7. CASE \E credential \in {Offer!Password} \cup 1 .. offers : Offer!Enter(credential)
  BY <1>1, <1>6, <1>7 DEF Offer!Enter
<1>8. CASE Offer!Gate \/ Offer!Verify \/ Offer!Reject \/ Offer!ClaimFails \/ Offer!CompareFails \/ Offer!InvalidateFails
           \/ Offer!WriteFails \/ Offer!Read \/ Offer!OffersRest
  BY <1>1, <1>8 DEF Offer!Gate, Offer!Verify, Offer!Reject, Offer!ClaimFails, Offer!CompareFails, Offer!InvalidateFails,
     Offer!WriteFails, Offer!Read, Offer!OffersRest
<1>9. CASE Offer!Claim
  BY <1>1, <1>9 DEF Offer!Claim
<1>10. CASE Offer!Compare
  <2>1. turn.credential \in Offer!Offers
    BY <1>1, <1>10 DEF Offer!Compare, OfferInv, TurnIsSound
  <2> QED BY <1>1, <1>10, <2>1 DEF Offer!Compare
<1>11. CASE Offer!Release
  BY <1>1, <1>11 DEF Offer!Release, Offer!Published
<1>12. CASE Offer!Invalidate
  BY <1>1, <1>12 DEF Offer!Invalidate
<1>13. CASE Offer!Write
  <2>1. [credential |-> turn.credential, away |-> turn.away] \in Row
    BY <1>1, <1>13 DEF Offer!Write
  <2>2. Append(enrollments, [credential |-> turn.credential, away |-> turn.away]) \in Seq(Row)
    BY <1>1, <2>1, AppendProperties
  <2> QED BY <1>1, <1>13, <2>2 DEF Offer!Write
<1> QED BY <1>3, <1>4, <1>5, <1>7, <1>8, <1>9, <1>10, <1>11, <1>12, <1>13 DEF Offer!Next

\* An offer enrols one Burrow at most, and the first or none: no crash, no
\* deleted row and no later offer opens the enrolment again, except while an
\* editor has burrows.json away (BurrowStore.enroll, redeemEnrollToken).
THEOREM OffersEnrollFirst ==
  ASSUME OfferApart, MaxOffers \in Nat, MaxCrashes \in Nat
  PROVE  Offer!Spec => []OfferEnrollsFirstOnly
<1>1. Offer!Init => OfferInv /\ Offer!TypeOK
  BY OfferInitInv, EmptySeq DEF Offer!Init, Offer!TypeOK
<1>2. OfferInv /\ Offer!TypeOK /\ [Offer!Next]_(Offer!vars) => OfferInv' /\ Offer!TypeOK'
  BY OfferInvStep, OfferTypes
<1>3. OfferInv /\ Offer!TypeOK => OfferEnrollsFirstOnly
  BY DEF OfferInv, OfferEnrollsFirstOnly
<1> QED BY <1>1, <1>2, <1>3, PTL DEF Offer!Spec

-----------------------------------------------------------------------------
\* Where an offer may be: a claim is taken once, stands alone if it is the
\* newest, and is on record as spent before the row is written.
ClaimIsSound ==
  turn # Nothing =>
    /\ turn.next \in {"gate", "read", "claim", "invalidate"} => turn.claim = Nothing
    /\ turn.claim = offers => offer = Nothing
    /\ turn.next = "write" /\ turn.claim = offers => offers \in spent

Whereabouts == OfferInv /\ ClaimIsSound /\ Offer!NewestOfferSurvives

\* No step leaves the newest offer without a place.
LEMMA WhereaboutsHold ==
  ASSUME OfferApart, Whereabouts, [Offer!Next]_(Offer!vars)
  PROVE  Whereabouts'
<1> SUFFICES ClaimIsSound' /\ Offer!NewestOfferSurvives'
  BY OfferInvStep DEF Whereabouts
<1>1. /\ OfferTyped /\ ClaimIsSound /\ Offer!NewestOfferSurvives
      /\ offer # Nothing => offer <= offers
      /\ turn # Nothing /\ turn.claim # Nothing => turn.claim <= offers
  BY DEF Whereabouts, OfferInv, OfferTyped, Numbered
<1> USE DEF OfferApart, OfferTyped, OfferTurns, ClaimIsSound, Offer!NewestOfferSurvives, Offer!store, Offer!At, Offer!Then, Offer!Refuse
<1>2. CASE UNCHANGED <<offers, offer, turn, spent>>
  BY <1>1, <1>2
<1>3. CASE Offer!Install
  BY <1>1, <1>3 DEF Offer!Install
<1>4. CASE Offer!Crash
  BY <1>1, <1>4 DEF Offer!Crash
<1>5. CASE UNCHANGED Offer!vars \/ Offer!OffersRest \/ Offer!Read
  BY <1>2, <1>5 DEF Offer!vars, Offer!OffersRest, Offer!Read
<1>6. ASSUME NEW credential \in {Offer!Password} \cup 1 .. offers, Offer!Enter(credential)
      PROVE  ClaimIsSound' /\ Offer!NewestOfferSurvives'
  BY <1>1, <1>6 DEF Offer!Enter
<1>7. CASE Offer!Gate
  BY <1>1, <1>7 DEF Offer!Gate
<1>8. CASE Offer!Reject \/ Offer!ClaimFails \/ Offer!InvalidateFails
  BY <1>1, <1>8 DEF Offer!Reject, Offer!ClaimFails, Offer!InvalidateFails
<1>9. ASSUME NEW what \in OfferSteps, turn # Nothing, turn' = [turn EXCEPT !.next = what]
       PROVE  /\ turn \in OfferTurns /\ turn' # Nothing
              /\ turn'.next = what /\ turn'.claim = turn.claim
  BY <1>1, <1>9 DEF OfferSteps
<1>10. CASE Offer!Verify
  <2>1. /\ turn.next = "read" /\ turn # Nothing /\ "claim" \in OfferSteps /\ turn' = [turn EXCEPT !.next = "claim"]
        /\ UNCHANGED <<offers, offer, spent>>
    BY <1>10 DEF Offer!Verify, OfferSteps
  <2> QED BY <1>1, <1>9, <2>1
<1>11. CASE Offer!Claim
  <2>1. /\ turn \in OfferTurns /\ turn.next = "claim" /\ offer # Nothing /\ offer' = Nothing
        /\ turn' = [turn EXCEPT !.next = "compare", !.claim = offer]
        /\ UNCHANGED <<offers, spent>>
    BY <1>1, <1>11 DEF Offer!Claim
  <2>2. turn'.next = "compare" /\ turn'.claim = offer /\ turn' # Nothing
    BY <1>1, <2>1 DEF OfferSteps
  <2> QED BY <1>1, <2>1, <2>2
<1>12. CASE (Offer!Compare /\ ~Offer!Holds) \/ Offer!CompareFails
  <2>1. /\ turn # Nothing /\ "release" \in OfferSteps /\ turn' = [turn EXCEPT !.next = "release"]
        /\ UNCHANGED <<offers, offer, spent>>
    BY <1>12 DEF Offer!Compare, Offer!CompareFails, OfferSteps
  <2> QED BY <1>1, <1>9, <2>1
<1>13. CASE Offer!Compare /\ Offer!Holds
  <2>1. /\ turn # Nothing /\ "write" \in OfferSteps /\ turn' = [turn EXCEPT !.next = "write"]
        /\ turn.claim = turn.credential /\ spent' = spent \cup {turn.credential}
        /\ UNCHANGED <<offers, offer>>
    BY <1>13 DEF Offer!Compare, Offer!Holds, OfferSteps
  <2> QED BY <1>1, <1>9, <2>1
<1>14. CASE Offer!Release
  BY <1>1, <1>14 DEF Offer!Release, Offer!Published
<1>15. CASE Offer!Invalidate
  BY <1>1, <1>15 DEF Offer!Invalidate
<1>16. CASE Offer!Write
  BY <1>1, <1>16 DEF Offer!Write
<1>17. CASE Offer!WriteFails
  BY <1>1, <1>17 DEF Offer!WriteFails
<1> QED BY <1>3, <1>4, <1>5, <1>6, <1>7, <1>8, <1>10, <1>11, <1>12, <1>13, <1>14, <1>15, <1>16, <1>17 DEF Offer!Next

\* No race of enrolments with the installer costs it the offer it just wrote
\* (claimHolds, the link of releaseClaim).
THEOREM NewestIsKept ==
  ASSUME OfferApart
  PROVE  Offer!Spec => []NewestOfferSurvives
<1>1. Offer!Init => Whereabouts
  BY OfferInitInv DEF OfferApart, Offer!Init, Whereabouts, ClaimIsSound, Offer!NewestOfferSurvives
<1>2. Whereabouts /\ [Offer!Next]_(Offer!vars) => Whereabouts'
  BY WhereaboutsHold
<1>3. Whereabouts => NewestOfferSurvives
  BY DEF Whereabouts, NewestOfferSurvives
<1> QED BY <1>1, <1>2, <1>3, PTL DEF Offer!Spec

-----------------------------------------------------------------------------
(* The three together (MCAdmission).                                       *)

\* A behaviour is one of the sessions, of the setup tokens or of the offers,
\* with the others at rest: what is proved of a part holds where it moves.
THEOREM PartsAreKept ==
  MCSpec => Spec /\ (part = "setup" => Setup!Spec) /\ (part = "offer" => Offer!Spec)
<1>1. MCInit => Init /\ Setup!Init /\ Offer!Init
  BY DEF MCInit
<1>2. InSessions => UNCHANGED <<part, Setup!vars, Offer!vars>>
  BY DEF InSessions, Only, file, setups, enrolling, Setup!vars, Setup!file, Offer!vars, Offer!file
<1>3. InSetup => part = "setup" /\ (part = "setup")' /\ UNCHANGED vars
  BY DEF InSetup, Only
<1>4. InOffer => part = "offer" /\ (part = "offer")' /\ UNCHANGED vars
  BY DEF InOffer, Only
<1>5. MCNext => (InSessions /\ Next) \/ (InSetup /\ Setup!Next) \/ (InOffer /\ Offer!Next)
  <2> USE DEF Setup!Tokens, Offer!Password
  <2> SUFFICES ASSUME MCNext PROVE (InSessions /\ Next) \/ (InSetup /\ Setup!Next) \/ (InOffer /\ Offer!Next)
    OBVIOUS
  <2>1. CASE \E credential \in 0 .. MaxOffers : InOffer /\ credential <= offers /\ Offer!Enter(credential)
    <3>1. PICK credential \in 0 .. MaxOffers : InOffer /\ credential <= offers /\ Offer!Enter(credential)
      BY <2>1
    <3>2. credential \in {Offer!Password} \cup 1 .. offers
      BY <3>1
    <3> QED BY <3>1, <3>2 DEF Offer!Next
  <2>2. CASE InSetup
    BY <2>2 DEF MCNext, Setup!Next, Setup!Handle, InSessions, InSetup, InOffer, Only
  <2>3. CASE InSessions
    BY <2>3 DEF MCNext, Next, InSessions, InSetup, InOffer, Only
  <2>4. CASE InOffer
    BY <2>1, <2>4 DEF MCNext, Offer!Next, InSessions, InSetup, InOffer, Only
  <2> QED BY <2>2, <2>3, <2>4 DEF MCNext
<1> DEFINE moved == <<part, vars, file, setups, enrolling>>
<1>6. UNCHANGED moved => UNCHANGED part /\ UNCHANGED vars /\ UNCHANGED Setup!vars /\ UNCHANGED Offer!vars
  BY DEF file, setups, enrolling, Setup!vars, Setup!file, Offer!vars, Offer!file
<1>7. [MCNext]_moved => [Next]_vars
  BY <1>3, <1>4, <1>5, <1>6
<1>8. part = "setup" /\ [MCNext]_moved => (part = "setup")' /\ [Setup!Next]_(Setup!vars)
  BY <1>2, <1>3, <1>4, <1>5, <1>6
<1>9. part = "offer" /\ [MCNext]_moved => (part = "offer")' /\ [Offer!Next]_(Offer!vars)
  BY <1>2, <1>3, <1>4, <1>5, <1>6
<1> QED BY <1>1, <1>7, <1>8, <1>9, PTL DEF MCSpec, Spec, Setup!Spec, Offer!Spec
=============================================================================
