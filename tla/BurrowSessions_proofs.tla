------------------------ MODULE BurrowSessions_proofs -----------------------
(* What a Burrow holds for its phones came over the socket it has, within    *)
(* the caps, one session to a phone and one handler to a session, for any    *)
(* number of clients, phones, handshakes and any caps.                       *)
EXTENDS BurrowSessions, FiniteSetTheorems, WellFoundedInduction, TLAPS

Bounds ==
  /\ MaxClients \in Nat /\ MaxPhones \in Nat /\ MaxInits \in Nat /\ MaxTime \in Nat /\ MaxEpochs \in Nat
  /\ ChallengeTTL \in Nat /\ IdleTimeout \in Nat
  /\ MaxSessions \in Nat \ {0} /\ MaxPending \in Nat \ {0}
\* None is nothing else.
Apart ==
  /\ None \notin Ids /\ None \notin Codes
  /\ None \notin [kind : {"init", "issued", "proof"}, id : Ids, valid : BOOLEAN]
  /\ None \notin [client : Clients, phone : Phones, epoch : 0 .. MaxEpochs]
Sane == Bounds /\ Apart

\* Handshakes are numbered without a gap, and one of the epoch that is says the
\* socket is up.
Numbered ==
  /\ \E k \in 0 .. MaxInits : \A i \in Ids : peer[i] # None <=> i <= k
  /\ \A i \in Ids :
       /\ peer[i] = None => api[i] = "none" /\ told[i] = None
       /\ peer[i] # None => peer[i].epoch <= epoch /\ (peer[i].epoch = epoch => status = "up")

\* An entry is of its client and of this epoch; a pending one has no handler
\* and has heard nothing.
EntriesAreSound ==
  /\ \A c \in Pending :
       LET i == connection[c] IN
       /\ peer[i] # None /\ peer[i].client = c /\ peer[i].epoch = epoch
       /\ api[i] = "none" /\ told[i] = None
  /\ \A c \in Sessions :
       LET i == established[c] IN peer[i] # None /\ peer[i].client = c /\ peer[i].epoch = epoch

\* A handshake under way is no entry yet.
StepIsSound ==
  step # None =>
    /\ peer[step.id] # None
    /\ step.kind \in {"init", "issued"} =>
         api[step.id] = "none" /\ told[step.id] = None /\ \A c \in Clients : connection[c] # step.id

Inv == TypeOK /\ Numbered /\ EntriesAreSound /\ StepIsSound /\ ApiFollowsSession /\ OneSessionPerPhone

-----------------------------------------------------------------------------
\* A Burrow starts with nothing.
LEMMA InitInv == Sane /\ Init => Inv
<1> SUFFICES ASSUME Sane, Init PROVE Inv
  OBVIOUS
<1>1. Pending = {} /\ Sessions = {}
  BY DEF Init, Pending, Sessions
<1>2. TypeOK
  <2>1. 0 \in 0 .. MaxTime /\ 0 \in 0 .. MaxEpochs /\ 0 \in 0 .. MaxTime + ChallengeTTL
    BY DEF Sane, Bounds
  <2> QED BY <2>1 DEF Init, TypeOK
<1>3. Numbered
  <2>1. 0 \in 0 .. MaxInits /\ \A i \in Ids : peer[i] # None <=> i <= 0
    BY DEF Sane, Bounds, Init, Ids
  <2> QED BY <2>1 DEF Init, Numbered
<1>4. Cardinality(Pending) <= MaxPending /\ Cardinality(Sessions) <= MaxSessions
  BY <1>1, FS_EmptySet DEF Sane, Bounds
<1>5. ApiFollowsSession
  BY DEF Init, ApiFollowsSession, Sane, Apart
<1>6. EntriesAreSound /\ StepIsSound /\ OneSessionPerPhone
  BY <1>1, <1>4 DEF Init, EntriesAreSound, StepIsSound, OneSessionPerPhone
<1> QED BY <1>2, <1>3, <1>5, <1>6 DEF Inv

\* A set of deadlines has its soonest.
LEMMA MinIsIn ==
  ASSUME NEW S \in SUBSET Nat, S # {}
  PROVE  Min(S) \in S
<1>1. IsWellFoundedOn(OpToRel(<, Nat), Nat)
  BY NatLessThanWellFounded
<1>2. PICK x \in S : \A y \in S : ~ (<<y, x>> \in OpToRel(<, Nat))
  BY <1>1, WFMin
<1>3. \A y \in S : ~ (y < x)
  BY <1>2 DEF OpToRel
<1>4. \A y \in S : x <= y
  BY <1>3
<1> QED BY <1>4 DEF Min

\* The reaper's timer is a time.
LEMMA Armed ==
  ASSUME Sane, NEW old \in 0 .. MaxTime + ChallengeTTL + IdleTimeout \cup {None}, ArmReaper(old),
         connection' \in [Clients -> Ids \cup {None}], established' \in [Clients -> Ids \cup {None}],
         activity' \in [Ids -> 0 .. MaxTime], expiresAt \in [Ids -> 0 .. MaxTime + ChallengeTTL]
  PROVE  reaperAt' \in 0 .. MaxTime + ChallengeTTL + IdleTimeout \cup {None}
<1> DEFINE due == Deadlines(connection', established', activity')
<1>1. \A t \in due : t \in 0 .. MaxTime + ChallengeTTL + IdleTimeout
  BY DEF Deadlines, Sane, Bounds
<1>2. due # {} => Min(due) \in due
  BY <1>1, MinIsIn
<1> HIDE DEF due
<1>3. reaperAt' \in due \cup {old, None}
  BY <1>2 DEF ArmReaper, due
<1> QED BY <1>1, <1>3

\* The entries are finitely many.
LEMMA Finite ==
  ASSUME Sane
  PROVE  IsFiniteSet(Pending) /\ IsFiniteSet(Sessions)
<1>1. IsFiniteSet(Clients)
  BY FS_Interval DEF Sane, Bounds, Clients
<1>2. Pending \in SUBSET Clients /\ Sessions \in SUBSET Clients
  BY DEF Pending, Sessions
<1> QED BY <1>1, <1>2, FS_Subset

\* Entries only go: those that stay are what they were, and so are the caps.
LEMMA ForgetKeeps ==
  ASSUME Sane, Inv, NEW cs \in SUBSET Clients, NEW ss \in SUBSET Clients, Forget(cs, ss)
  PROVE  /\ connection' \in [Clients -> Ids \cup {None}] /\ established' \in [Clients -> Ids \cup {None}]
         /\ api' \in [Ids -> {"none", "live", "disposed"}] /\ issued' \in SUBSET issued
         /\ \A c \in Clients : connection'[c] = IF c \in cs THEN None ELSE connection[c]
         /\ \A c \in Clients : established'[c] = IF c \in ss THEN None ELSE established[c]
         /\ Pending' = Pending \ cs /\ Sessions' = Sessions \ ss
         /\ \A i \in Ids : api'[i] = "none" <=> api[i] = "none"
         /\ \A i \in Ids : api'[i] = "live" <=> \E c \in Clients : established'[c] = i
         /\ Cardinality(Pending') <= MaxPending /\ Cardinality(Sessions') <= MaxSessions
<1>1. /\ connection' \in [Clients -> Ids \cup {None}] /\ established' \in [Clients -> Ids \cup {None}]
      /\ api' \in [Ids -> {"none", "live", "disposed"}] /\ issued' \in SUBSET issued
      /\ \A c \in Clients : connection'[c] = IF c \in cs THEN None ELSE connection[c]
      /\ \A c \in Clients : established'[c] = IF c \in ss THEN None ELSE established[c]
  BY DEF Forget, Inv, TypeOK
<1>2. Pending' = Pending \ cs /\ Sessions' = Sessions \ ss
  BY <1>1 DEF Pending, Sessions
<1>3. \A i \in Ids : api'[i] = IF \E c \in ss : established[c] = i THEN "disposed" ELSE api[i]
  BY DEF Forget
<1>4. \A i \in Ids : api'[i] = "none" <=> api[i] = "none"
  BY <1>3 DEF Inv, ApiFollowsSession
<1>5. \A i \in Ids, c, d \in Clients : established[c] = i /\ established[d] = i => c = d
  BY DEF Inv, EntriesAreSound, Sessions, Sane, Apart
<1>6. \A i \in Ids : api'[i] = "live" <=> \E c \in Clients : established'[c] = i
  BY <1>1, <1>3, <1>5 DEF Inv, ApiFollowsSession, Sane, Apart
<1>7. Cardinality(Pending') <= Cardinality(Pending) /\ Cardinality(Sessions') <= Cardinality(Sessions)
  BY <1>2, Finite, FS_Subset
<1>8. /\ Cardinality(Pending) \in Nat /\ Cardinality(Sessions) \in Nat
      /\ Cardinality(Pending') \in Nat /\ Cardinality(Sessions') \in Nat
  BY <1>2, Finite, FS_CardinalityType, FS_Subset
<1>9. Cardinality(Pending') <= MaxPending /\ Cardinality(Sessions') <= MaxSessions
  BY <1>7, <1>8 DEF Inv, OneSessionPerPhone, Sane, Bounds
<1> QED BY <1>1, <1>2, <1>4, <1>6, <1>9

\* When entries only go, on the same socket, what is left is as sound as it was.
LEMMA RestIsSound ==
  ASSUME Sane, Inv, NEW cs \in SUBSET Clients, NEW ss \in SUBSET Clients, Forget(cs, ss),
         epoch' = epoch, \A i \in Ids : peer[i] # None => peer'[i] = peer[i],
         \A c \in Pending \ cs : told'[connection[c]] = told[connection[c]]
  PROVE  EntriesAreSound' /\ ApiFollowsSession' /\ OneSessionPerPhone'
<1>1. /\ \A c \in Clients : connection'[c] = IF c \in cs THEN None ELSE connection[c]
      /\ \A c \in Clients : established'[c] = IF c \in ss THEN None ELSE established[c]
      /\ Pending' = Pending \ cs /\ Sessions' = Sessions \ ss
      /\ \A i \in Ids : api'[i] = "none" <=> api[i] = "none"
      /\ \A i \in Ids : api'[i] = "live" <=> \E c \in Clients : established'[c] = i
      /\ Cardinality(Pending') <= MaxPending /\ Cardinality(Sessions') <= MaxSessions
  BY ForgetKeeps
<1>2. /\ \A c \in Pending : c \in Clients /\ connection[c] \in Ids
      /\ \A c \in Sessions : c \in Clients /\ established[c] \in Ids /\ peer[established[c]] # None
  BY DEF Inv, TypeOK, EntriesAreSound, Pending, Sessions
<1>3. EntriesAreSound'
  BY <1>1, <1>2 DEF Inv, EntriesAreSound
<1>4. \A c, d \in Sessions' : (Phone(c) = Phone(d))' => c = d
  BY <1>1, <1>2 DEF Inv, OneSessionPerPhone, Phone
<1> QED BY <1>1, <1>3, <1>4 DEF ApiFollowsSession, OneSessionPerPhone

-----------------------------------------------------------------------------
\* The socket goes: everything goes with it, and the epoch moves.
LEMMA DropKeeps ==
  ASSUME Sane, Inv, Close \/ Stop
  PROVE  Inv'
<1>1. DropTransientState /\ status' \in {"down", "stopped"}
  BY DEF Close, Stop
<1>2. /\ connection' \in [Clients -> Ids \cup {None}] /\ established' \in [Clients -> Ids \cup {None}]
      /\ api' \in [Ids -> {"none", "live", "disposed"}] /\ issued' \in SUBSET issued
      /\ \A c \in Clients : connection'[c] = None /\ established'[c] = None
      /\ \A i \in Ids : api'[i] = "none" <=> api[i] = "none"
      /\ \A i \in Ids : api'[i] = "live" <=> \E c \in Clients : established'[c] = i
      /\ Cardinality(Pending') <= MaxPending /\ Cardinality(Sessions') <= MaxSessions
  BY <1>1, ForgetKeeps DEF DropTransientState
<1>3. TypeOK'
  BY <1>1, <1>2 DEF DropTransientState, Inv, TypeOK, Sane, Bounds
<1>4. \A i \in Ids : peer[i] # None => peer[i].epoch \in 0 .. MaxEpochs
  BY DEF Inv, TypeOK, Sane, Apart
<1>5. Numbered'
  <2>1. \A i \in Ids : peer[i] # None => peer[i].epoch <= epoch' /\ peer[i].epoch # epoch'
    BY <1>1, <1>4 DEF DropTransientState, Inv, Numbered, TypeOK, Sane, Bounds
  <2> QED BY <1>1, <1>2, <2>1 DEF DropTransientState, Inv, Numbered
<1>6. Pending' = {} /\ Sessions' = {}
  BY <1>2 DEF Pending, Sessions
<1>7. EntriesAreSound' /\ ApiFollowsSession' /\ OneSessionPerPhone'
  BY <1>2, <1>6 DEF EntriesAreSound, ApiFollowsSession, OneSessionPerPhone
<1>8. StepIsSound'
  BY <1>1, <1>2 DEF DropTransientState, Inv, StepIsSound, TypeOK, Sane, Apart
<1> QED BY <1>3, <1>5, <1>7, <1>8 DEF Inv

\* What the reaper and a client that left take away leaves the rest sound, and
\* only those it takes are told.
LEMMA SweepKeeps ==
  ASSUME Sane, Inv, NEW gone \in SUBSET Clients, ForgetAndReap(gone),
         epoch' = epoch, \A i \in Ids : peer[i] # None => peer'[i] = peer[i]
  PROVE  /\ connection' \in [Clients -> Ids \cup {None}] /\ established' \in [Clients -> Ids \cup {None}]
         /\ api' \in [Ids -> {"none", "live", "disposed"}] /\ issued' \in SUBSET issued
         /\ told' \in [Ids -> Codes \cup {None}]
         /\ \A c \in Clients : connection'[c] \in {connection[c], None}
         /\ \A i \in Ids : api'[i] = "none" <=> api[i] = "none"
         /\ \A i \in Ids : told'[i] # told[i] => \E c \in Pending : connection[c] = i
         /\ EntriesAreSound' /\ ApiFollowsSession' /\ OneSessionPerPhone'
<1> DEFINE cs == gone \cup LateConnections
           ss == gone \cup LateSessions
<1>1. cs \in SUBSET Clients /\ ss \in SUBSET Clients /\ LateConnections \subseteq Pending
  BY DEF LateConnections, LateSessions, Pending, Sessions
<1>2. Forget(cs, ss) /\ Tell(LateConnections \ gone, "presence-rejected")
  BY DEF ForgetAndReap
<1> HIDE DEF cs, ss
<1>3. /\ connection' \in [Clients -> Ids \cup {None}] /\ established' \in [Clients -> Ids \cup {None}]
      /\ api' \in [Ids -> {"none", "live", "disposed"}] /\ issued' \in SUBSET issued
      /\ \A c \in Clients : connection'[c] \in {connection[c], None}
      /\ \A i \in Ids : api'[i] = "none" <=> api[i] = "none"
  BY <1>1, <1>2, ForgetKeeps
<1>4. told' \in [Ids -> Codes \cup {None}]
  BY <1>2 DEF Tell, Codes, Inv, TypeOK
<1>5. \A i \in Ids : told'[i] # told[i] => \E c \in LateConnections \ gone : connection[c] = i
  BY <1>2 DEF Tell
<1>6. \A c \in Pending \ cs : told'[connection[c]] = told[connection[c]]
  <2>1. \A c, d \in Pending : connection[c] = connection[d] => c = d
    BY DEF Inv, EntriesAreSound
  <2> QED BY <1>1, <1>5, <2>1 DEF cs, Pending, Inv, TypeOK
<1>7. EntriesAreSound' /\ ApiFollowsSession' /\ OneSessionPerPhone'
  BY <1>1, <1>2, <1>6, RestIsSound
<1> QED BY <1>1, <1>3, <1>4, <1>5, <1>7

\* The timer, the socket that opens, a client that leaves.
LEMMA ReapKeeps ==
  ASSUME Sane, Inv, Opens \/ ReaperFires \/ \E c \in Clients : ClientGone(c)
  PROVE  Inv'
<1>1. PICK gone \in SUBSET Clients, old \in {reaperAt, None} :
        /\ ForgetAndReap(gone) /\ ArmReaper(old)
        /\ status' \in {status, "up"} /\ UNCHANGED <<now, epoch, step, peer, expiresAt, activity>>
  BY DEF Opens, ReaperFires, ClientGone, Reap
<1>2. /\ connection' \in [Clients -> Ids \cup {None}] /\ established' \in [Clients -> Ids \cup {None}]
      /\ api' \in [Ids -> {"none", "live", "disposed"}] /\ issued' \in SUBSET issued
      /\ told' \in [Ids -> Codes \cup {None}]
      /\ \A c \in Clients : connection'[c] \in {connection[c], None}
      /\ \A i \in Ids : api'[i] = "none" <=> api[i] = "none"
      /\ \A i \in Ids : told'[i] # told[i] => \E c \in Pending : connection[c] = i
      /\ EntriesAreSound' /\ ApiFollowsSession' /\ OneSessionPerPhone'
  BY <1>1, SweepKeeps
<1>3. TypeOK'
  <2>1. reaperAt' \in 0 .. MaxTime + ChallengeTTL + IdleTimeout \cup {None}
    BY <1>1, <1>2, Armed DEF Inv, TypeOK
  <2> QED BY <1>1, <1>2, <2>1 DEF Inv, TypeOK
<1>4. \A i \in Ids : told'[i] # told[i] => peer[i] # None
  BY <1>2 DEF Inv, EntriesAreSound
<1>5. Numbered'
  BY <1>1, <1>2, <1>4 DEF Inv, Numbered
<1>6. StepIsSound'
  <2>1. step # None => step.id \in Ids
    BY DEF Inv, TypeOK
  <2> QED BY <1>1, <1>2, <2>1 DEF Inv, StepIsSound, Pending, Sane, Apart
<1> QED BY <1>2, <1>3, <1>5, <1>6 DEF Inv

-----------------------------------------------------------------------------
\* A handshake takes the next number.
LEMMA NextIsFree ==
  ASSUME Sane, Inv, NEW i \in Ids, i = NextNumber({j \in Ids : peer[j] # None})
  PROVE  peer[i] = None /\ \A j \in Ids : peer[j] # None <=> j < i
<1>1. PICK k \in 0 .. MaxInits : \A j \in Ids : peer[j] # None <=> j <= k
  BY DEF Inv, Numbered
<1> DEFINE S == {j \in Ids : peer[j] # None} \cup {0}
<1>2. k \in S /\ \A j \in S : j \in Nat /\ k >= j
  BY <1>1 DEF Ids, Sane, Bounds
<1>3. Max(S) \in S /\ \A j \in S : Max(S) >= j
  BY <1>2 DEF Max
<1> DEFINE m == Max(S)
<1>4. i = m + 1
  BY DEF NextNumber
<1> HIDE DEF S, m
<1>5. m \in Nat /\ k \in Nat /\ k >= m /\ m >= k
  BY <1>2, <1>3 DEF m
<1>6. i = k + 1 /\ k \in Nat
  BY <1>4, <1>5
<1>7. \A j \in Ids : j \in Nat /\ (j <= k <=> j < i)
  BY <1>6 DEF Ids, Sane, Bounds
<1> QED BY <1>1, <1>6, <1>7

\* A handshake begins.
LEMMA BeginKeeps ==
  ASSUME Sane, Inv, NEW c \in Clients, NEW p \in Phones, InitBegins(c, p)
  PROVE  Inv'
<1>1. PICK i \in Ids :
        /\ i = NextNumber({j \in Ids : peer[j] # None})
        /\ peer' = [peer EXCEPT ![i] = [client |-> c, phone |-> p, epoch |-> epoch]]
        /\ step' = [kind |-> "init", id |-> i, valid |-> FALSE]
  BY DEF InitBegins
<1>2. /\ status = "up" /\ ForgetAndReap({}) /\ ArmReaper(reaperAt)
      /\ UNCHANGED <<status, now, epoch, expiresAt, activity>>
  BY DEF InitBegins, Idle, Reap
<1>3. peer[i] = None /\ \A j \in Ids : peer[j] # None <=> j < i
  BY <1>1, NextIsFree
<1>4. [client |-> c, phone |-> p, epoch |-> epoch] # None /\ epoch \in 0 .. MaxEpochs
  BY DEF Inv, TypeOK, Sane, Apart
<1>5. \A j \in Ids : peer[j] # None => peer'[j] = peer[j]
  BY <1>1, <1>3 DEF Inv, TypeOK
<1>6. /\ connection' \in [Clients -> Ids \cup {None}] /\ established' \in [Clients -> Ids \cup {None}]
      /\ api' \in [Ids -> {"none", "live", "disposed"}] /\ issued' \in SUBSET issued
      /\ told' \in [Ids -> Codes \cup {None}]
      /\ \A d \in Clients : connection'[d] \in {connection[d], None}
      /\ \A j \in Ids : api'[j] = "none" <=> api[j] = "none"
      /\ \A j \in Ids : told'[j] # told[j] => \E d \in Pending : connection[d] = j
      /\ EntriesAreSound' /\ ApiFollowsSession' /\ OneSessionPerPhone'
  BY <1>2, <1>5, SweepKeeps
<1>7. TypeOK'
  <2>1. reaperAt' \in 0 .. MaxTime + ChallengeTTL + IdleTimeout \cup {None}
    BY <1>2, <1>6, Armed DEF Inv, TypeOK
  <2>2. peer' \in [Ids -> [client : Clients, phone : Phones, epoch : 0 .. MaxEpochs] \cup {None}]
    BY <1>1, <1>4 DEF Inv, TypeOK
  <2> QED BY <1>1, <1>2, <1>6, <2>1, <2>2 DEF Inv, TypeOK
<1>8. \A j \in Ids : told'[j] # told[j] => peer[j] # None
  BY <1>6 DEF Inv, EntriesAreSound
<1>9. \A j \in Ids : peer'[j] = IF j = i THEN [client |-> c, phone |-> p, epoch |-> epoch] ELSE peer[j]
  BY <1>1 DEF Inv, TypeOK
<1>10. Numbered'
  <2>1. i \in 0 .. MaxInits /\ \A j \in Ids : peer'[j] # None <=> j <= i
    BY <1>3, <1>4, <1>9 DEF Ids, Sane, Bounds
  <2>2. \A j \in Ids : peer'[j] = None => api'[j] = "none" /\ told'[j] = None
    BY <1>4, <1>6, <1>8, <1>9 DEF Inv, Numbered
  <2>3. \A j \in Ids : peer'[j] # None =>
          peer'[j].epoch <= epoch' /\ (peer'[j].epoch = epoch' => status' = "up")
    BY <1>2, <1>4, <1>9 DEF Inv, Numbered
  <2> QED BY <2>1, <2>2, <2>3 DEF Numbered
<1>11. StepIsSound'
  <2>1. peer'[i] # None /\ api'[i] = "none" /\ told'[i] = None
    BY <1>3, <1>4, <1>6, <1>8, <1>9 DEF Inv, Numbered
  <2>2. \A d \in Clients : connection'[d] # i
    BY <1>3, <1>6 DEF Inv, EntriesAreSound, Pending, Sane, Apart
  <2> QED BY <1>1, <2>1, <2>2 DEF StepIsSound
<1> QED BY <1>6, <1>7, <1>10, <1>11 DEF Inv

\* Its answer is written, or not.
LEMMA IssueKeeps ==
  ASSUME Sane, Inv, Issue \/ InitFails
  PROVE  Inv'
<1>1. CASE Issue
  <2>1. step' \in [kind : {"init", "issued", "proof"}, id : Ids, valid : BOOLEAN]
        /\ step'.id = step.id /\ step'.kind = "issued"
    BY <1>1 DEF Issue, Inv, TypeOK
  <2>2. now + ChallengeTTL \in 0 .. MaxTime + ChallengeTTL
    BY DEF Inv, TypeOK, Sane, Bounds
  <2>3. TypeOK'
    BY <1>1, <2>1, <2>2 DEF Issue, Inv, TypeOK
  <2>4. StepIsSound'
    BY <1>1, <2>1 DEF Issue, Inv, StepIsSound
  <2> QED BY <1>1, <2>3, <2>4 DEF Issue, Inv, Numbered, EntriesAreSound, ApiFollowsSession, OneSessionPerPhone,
                                  Pending, Sessions, Phone
<1>2. CASE InitFails
  BY <1>2 DEF InitFails, held, Inv, TypeOK, Numbered, EntriesAreSound, StepIsSound, ApiFollowsSession,
              OneSessionPerPhone, Pending, Sessions, Phone
<1> QED BY <1>1, <1>2

\* A handshake that is done takes its client's place, or an older one's.
LEMMA InitDoneKeeps ==
  ASSUME Sane, Inv, InitDone
  PROVE  Inv'
<1> DEFINE i == step.id
           c == peer[i].client
           others == Pending \ {c}
<1>1. i \in Ids /\ peer[i] # None /\ c \in Clients /\ peer[i].epoch = epoch
      /\ api[i] = "none" /\ told[i] = None /\ step' = None /\ \A d \in Clients : connection[d] # i
  BY DEF InitDone, SameSocket, Inv, TypeOK, StepIsSound, Sane, Apart
<1>2. PICK out \in Displaced(others) :
        /\ connection' = [d \in Clients |-> IF d = c THEN i ELSE IF d \in out THEN None ELSE connection[d]]
        /\ issued' = issued \ {connection[d] : d \in out \cup {c}}
  BY DEF InitDone
<1>3. ArmReaper(reaperAt) /\ UNCHANGED <<status, now, epoch, peer, expiresAt, established, activity, api, told>>
  BY DEF InitDone
<1>4. \/ out = {} /\ Cardinality(others) < MaxPending
      \/ \E d \in others : out = {d}
  BY DEF Displaced
<1> HIDE DEF i, c, others
<1>5. connection' \in [Clients -> Ids \cup {None}] /\ issued' \in SUBSET issued
  BY <1>1, <1>2 DEF Inv, TypeOK
<1>6. Pending' = (others \ out) \cup {c}
  BY <1>1, <1>2, <1>4 DEF Pending, others, Sane, Apart
<1>7. Cardinality(Pending') <= MaxPending
  <2>1. IsFiniteSet(others) /\ IsFiniteSet(Pending) /\ Cardinality(others) <= Cardinality(Pending)
    BY Finite, FS_Subset DEF others
  <2>2. Cardinality(others) \in Nat /\ Cardinality(Pending) \in Nat
    BY <2>1, FS_CardinalityType
  <2>3. Cardinality(others \ out) < MaxPending /\ IsFiniteSet(others \ out) /\ Cardinality(others \ out) \in Nat
    <3>1. CASE out = {}
      <4>1. others \ out = others
        BY <3>1
      <4> QED BY <1>4, <2>1, <2>2, <3>1, <4>1
    <3>2. CASE \E d \in others : out = {d}
      <4>1. PICK d \in others : out = {d}
        BY <3>2
      <4>2. IsFiniteSet(others \ out) /\ Cardinality(others \ out) = Cardinality(others) - 1
        BY <2>1, <4>1, FS_RemoveElement
      <4>3. Cardinality(others \ out) \in Nat
        BY <4>2, FS_CardinalityType
      <4> QED BY <2>1, <2>2, <4>2, <4>3 DEF Inv, OneSessionPerPhone, Sane, Bounds
    <3> QED BY <1>4, <3>1, <3>2
  <2>4. Cardinality(Pending') \in {Cardinality(others \ out), Cardinality(others \ out) + 1}
    BY <1>6, <2>3, FS_AddElement
  <2> QED BY <2>3, <2>4 DEF Sane, Bounds
<1>8. TypeOK'
  <2>1. reaperAt' \in 0 .. MaxTime + ChallengeTTL + IdleTimeout \cup {None}
    BY <1>3, <1>5, Armed DEF Inv, TypeOK
  <2> QED BY <1>1, <1>3, <1>5, <2>1 DEF Inv, TypeOK
<1>9. EntriesAreSound'
  <2>1. \A d \in Pending' : IF d = c THEN connection'[d] = i ELSE d \in Pending /\ connection'[d] = connection[d]
    BY <1>1, <1>2, <1>6 DEF Pending, others
  <2> QED BY <1>1, <1>3, <2>1 DEF Inv, EntriesAreSound, Sessions, c
<1> QED BY <1>1, <1>3, <1>7, <1>8, <1>9 DEF Inv, Numbered, StepIsSound, ApiFollowsSession, OneSessionPerPhone,
                                            Sessions, Phone

-----------------------------------------------------------------------------
\* What the actions that let go of one entry leave behind.
LEMMA LetGoKeeps ==
  ASSUME Sane, Inv, NEW cs \in SUBSET Clients, NEW ss \in SUBSET Clients, Forget(cs, ss), UNCHANGED quiet,
         step' \in {step, None}, told' \in [Ids -> Codes \cup {None}],
         \A i \in Ids : told'[i] # told[i] => \E c \in cs : connection[c] = i
  PROVE  Inv'
<1>1. /\ connection' \in [Clients -> Ids \cup {None}] /\ established' \in [Clients -> Ids \cup {None}]
      /\ api' \in [Ids -> {"none", "live", "disposed"}] /\ issued' \in SUBSET issued
      /\ \A c \in Clients : connection'[c] \in {connection[c], None}
      /\ \A i \in Ids : api'[i] = "none" <=> api[i] = "none"
  BY ForgetKeeps
<1>2. TypeOK'
  BY <1>1 DEF quiet, Inv, TypeOK
<1>3. \A c \in Pending \ cs : told'[connection[c]] = told[connection[c]]
  <2>1. \A c, d \in Clients : connection[c] = connection[d] /\ connection[c] # None => c = d
    BY DEF Inv, EntriesAreSound, Pending
  <2> QED BY <2>1 DEF Pending, Inv, TypeOK
<1>4. EntriesAreSound' /\ ApiFollowsSession' /\ OneSessionPerPhone'
  BY <1>3, RestIsSound DEF quiet
<1>5. \A i \in Ids : told'[i] # told[i] => peer[i] # None
  BY DEF Inv, EntriesAreSound, Pending, Sane, Apart
<1>6. Numbered'
  BY <1>1, <1>5 DEF quiet, Inv, Numbered
<1>7. StepIsSound'
  <2>1. step # None => step.id \in Ids
    BY DEF Inv, TypeOK
  <2> QED BY <1>1, <2>1 DEF quiet, Inv, StepIsSound, Sane, Apart
<1> QED BY <1>2, <1>4, <1>6, <1>7 DEF Inv

\* A pending connection is refused, in words or without.
LEMMA PendingKeeps ==
  ASSUME Sane, Inv,
         \/ \E c \in Clients : Undecryptable(c) \/ NotARequest(c)
         \/ Refuse \/ Busy
  PROVE  Inv'
<1>1. ASSUME NEW c \in Clients, Undecryptable(c) PROVE Inv'
  BY <1>1, LetGoKeeps DEF Undecryptable, Inv, TypeOK
<1>2. ASSUME NEW c \in Clients, NEW code \in Codes, Forget({c}, {}), Tell({c}, code), UNCHANGED quiet,
             step' \in {step, None}
      PROVE  Inv'
  <2>1. told' \in [Ids -> Codes \cup {None}] /\ \A i \in Ids : told'[i] # told[i] => connection[c] = i
    BY <1>2 DEF Tell, Inv, TypeOK
  <2> QED BY <1>2, <2>1, LetGoKeeps
<1>3. ASSUME NEW c \in Clients, NotARequest(c) PROVE Inv'
  BY <1>2, <1>3 DEF NotARequest, Codes, quiet
<1>4. CASE Refuse \/ Busy
  <2>1. Checked \in Clients
    BY <1>4 DEF Refuse, Busy, Checked, Inv, TypeOK, StepIsSound, Sane, Apart
  <2>2. PICK code \in Codes : Forget({Checked}, {}) /\ Tell({Checked}, code)
    BY <1>4 DEF Refuse, Busy, Codes
  <2>3. UNCHANGED quiet /\ step' = None
    BY <1>4 DEF Refuse, Busy
  <2> QED BY <1>2, <2>1, <2>2, <2>3
<1> QED BY <1>1, <1>3, <1>4

\* Its request is taken up, or found to be about an entry that is gone.
LEMMA RequestKeeps ==
  ASSUME Sane, Inv, (\E c \in Clients : Request(c)) \/ ProofMoot
  PROVE  Inv'
<1>1. ASSUME NEW c \in Clients, Request(c) PROVE Inv'
  <2>1. connection[c] \in Ids /\ peer[connection[c]] # None
    BY <1>1 DEF Request, Pending, Inv, TypeOK, EntriesAreSound
  <2>2. step' \in [kind : {"init", "issued", "proof"}, id : Ids, valid : BOOLEAN]
    BY <1>1, <2>1 DEF Request
  <2>3. step'.kind = "proof" /\ step'.id = connection[c]
    BY <1>1 DEF Request
  <2>4. TypeOK'
    BY <1>1, <2>2 DEF Request, quiet, Inv, TypeOK
  <2>5. StepIsSound'
    BY <1>1, <2>1, <2>3 DEF Request, quiet, StepIsSound
  <2> QED BY <1>1, <2>4, <2>5 DEF Request, quiet, Inv, Numbered, EntriesAreSound, ApiFollowsSession,
                                  OneSessionPerPhone, Pending, Sessions, Phone
<1>2. CASE ProofMoot
  BY <1>2 DEF ProofMoot, quiet, held, Inv, TypeOK, Numbered, EntriesAreSound, StepIsSound, ApiFollowsSession,
              OneSessionPerPhone, Pending, Sessions, Phone
<1> QED BY <1>1, <1>2

\* Time passes, a frame arrives, or a session ends.
LEMMA SessionKeeps ==
  ASSUME Sane, Inv,
         \/ Tick
         \/ \E c \in Clients : Frame(c) \/ UndecryptableFrame(c)
         \/ \E i \in Ids : Poisoned(i)
  PROVE  Inv'
<1>1. CASE Tick
  <2>1. now' \in 0 .. MaxTime
    BY <1>1 DEF Tick, Inv, TypeOK, Sane, Bounds
  <2> QED BY <1>1, <2>1 DEF Tick, held, Inv, TypeOK, Numbered, EntriesAreSound, StepIsSound, ApiFollowsSession,
                            OneSessionPerPhone, Pending, Sessions, Phone
<1>2. ASSUME NEW c \in Clients, Frame(c) PROVE Inv'
  BY <1>2 DEF Frame, held, Inv, TypeOK, Numbered, EntriesAreSound, StepIsSound, ApiFollowsSession,
              OneSessionPerPhone, Pending, Sessions, Phone
<1>3. ASSUME NEW c \in Clients, EndSession(c) PROVE Inv'
  BY <1>3, LetGoKeeps DEF EndSession, Inv, TypeOK
<1>4. ASSUME NEW i \in Ids, Poisoned(i) PROVE Inv'
  <2>1. peer[i].client \in Clients
    BY <1>4 DEF Poisoned, Inv, ApiFollowsSession, EntriesAreSound, Sessions, Sane, Apart
  <2> QED BY <1>3, <1>4, <2>1 DEF Poisoned
<1> QED BY <1>1, <1>2, <1>3, <1>4 DEF UndecryptableFrame

\* A promotion gives its client the session, and ends those it replaces.
LEMMA PromoteKeeps ==
  ASSUME Sane, Inv, Promote
  PROVE  Inv'
<1> DEFINE i == step.id
           c == Checked
           p == peer[i].phone
           over == Replaced(c, p)
<1>1. /\ i \in Ids /\ peer[i] # None /\ c = peer[i].client /\ c \in Clients /\ connection[c] = i /\ step' = None
  BY DEF Promote, Checked, StillPending, Inv, TypeOK, StepIsSound, Sane, Apart
<1>2. c \in Pending /\ peer[i].epoch = epoch /\ api[i] = "none" /\ told[i] = None
  BY <1>1 DEF Pending, Inv, EntriesAreSound, Sane, Apart
<1>3. /\ connection' = [connection EXCEPT ![c] = None]
      /\ established' = [d \in Clients |-> IF d = c THEN i ELSE IF d \in over THEN None ELSE established[d]]
      /\ api' = [j \in Ids |-> IF j = i THEN "live"
                               ELSE IF \E d \in over : established[d] = j THEN "disposed" ELSE api[j]]
      /\ activity' = [activity EXCEPT ![i] = now] /\ told' = [told EXCEPT ![i] = "ok"]
      /\ UNCHANGED <<status, now, epoch, peer, issued, expiresAt>> /\ ArmReaper(reaperAt) /\ ~Full(c, p)
  BY DEF Promote
<1>4. over \in SUBSET Sessions /\ (c \in Sessions => c \in over) /\ \A d \in Sessions : Phone(d) = p => d \in over
  BY DEF Replaced, Incumbent
<1>5. (\E d \in Sessions : d \in over /\ Phone(d) = p) \/ Cardinality(Sessions \ {c}) < MaxSessions
  <2>1. Cardinality(Sessions \ {c}) \in Nat
    BY Finite, FS_RemoveElement, FS_CardinalityType
  <2> QED BY <1>3, <1>4, <2>1 DEF Full, Incumbent, Sane, Bounds
<1> HIDE DEF i, c, p, over
<1>6. TypeOK'
  <2>1. /\ connection' \in [Clients -> Ids \cup {None}] /\ established' \in [Clients -> Ids \cup {None}]
        /\ activity' \in [Ids -> 0 .. MaxTime] /\ api' \in [Ids -> {"none", "live", "disposed"}]
        /\ told' \in [Ids -> Codes \cup {None}]
    BY <1>1, <1>3 DEF Inv, TypeOK, Codes
  <2>2. reaperAt' \in 0 .. MaxTime + ChallengeTTL + IdleTimeout \cup {None}
    BY <1>3, <2>1, Armed DEF Inv, TypeOK
  <2> QED BY <1>1, <1>3, <2>1, <2>2 DEF Inv, TypeOK
<1>7. Pending' = Pending \ {c} /\ Sessions' = (Sessions \ over) \cup {c}
  BY <1>1, <1>3, <1>4 DEF Pending, Sessions, Inv, TypeOK, Sane, Apart
<1>8. \A d \in Clients : /\ d # c => connection'[d] = connection[d]
                         /\ established'[d] = IF d = c THEN i ELSE IF d \in over THEN None ELSE established[d]
  BY <1>3 DEF Inv, TypeOK
<1>9. \A j \in Ids \ {i} : told'[j] = told[j] /\ (api'[j] = "none" <=> api[j] = "none")
  BY <1>3, <1>4 DEF Inv, TypeOK, ApiFollowsSession, Sessions
<1>10. EntriesAreSound'
  <2>1. \A d \in Pending' : d \in Pending /\ d # c /\ connection'[d] = connection[d] /\ connection[d] \in Ids \ {i}
    BY <1>1, <1>7, <1>8 DEF Pending, Inv, TypeOK, EntriesAreSound
  <2>2. \A d \in Sessions' : IF d = c THEN established'[d] = i ELSE d \in Sessions /\ established'[d] = established[d]
    BY <1>4, <1>7, <1>8 DEF Sessions
  <2> QED BY <1>1, <1>2, <1>3, <1>9, <2>1, <2>2 DEF Inv, EntriesAreSound
<1>11. Numbered'
  BY <1>1, <1>3, <1>9 DEF Inv, Numbered
<1>12. ApiFollowsSession'
  <2>1. \A d, e \in Clients : established[d] = established[e] /\ established[d] # None => d = e
    BY DEF Inv, EntriesAreSound, Sessions
  <2>2. \A d \in Clients : established[d] # i
    BY <1>1, <1>2 DEF Inv, ApiFollowsSession
  <2>3. \A j \in Ids \ {i} : api'[j] = "live" <=> \E d \in Clients : established'[d] = j
    <3> SUFFICES ASSUME NEW j \in Ids \ {i} PROVE api'[j] = "live" <=> \E d \in Clients : established'[d] = j
      OBVIOUS
    <3>1. j # None
      BY DEF Sane, Apart
    <3>2. api'[j] = IF \E d \in over : established[d] = j THEN "disposed" ELSE api[j]
      BY <1>3
    <3>3. \A d \in Clients : established'[d] = j <=> d # c /\ d \notin over /\ established[d] = j
      BY <1>8, <3>1
    <3>4. established[c] = j => c \in over
      BY <1>1, <1>4, <3>1 DEF Sessions
    <3>5. over \subseteq Clients
      BY <1>4 DEF Sessions
    <3> QED BY <2>1, <3>1, <3>2, <3>3, <3>4, <3>5 DEF Inv, ApiFollowsSession
  <2> QED BY <1>1, <1>3, <1>8, <2>3 DEF ApiFollowsSession
<1>13. OneSessionPerPhone'
  <2>1. \A d, e \in Sessions' : (Phone(d) = Phone(e))' => d = e
    <3>1. \A d \in Sessions' : d = c \/ d \in Sessions \ over
      BY <1>7
    <3>2. \A d \in Sessions' : Phone(d)' = IF d = c THEN p ELSE Phone(d)
      BY <1>3, <1>7, <1>8, <3>1 DEF Phone, Sessions, p
    <3> QED BY <1>4, <3>1, <3>2 DEF Inv, OneSessionPerPhone
  <2>2. Cardinality(Pending') <= MaxPending
    <3>1. Cardinality(Pending') <= Cardinality(Pending) /\ Cardinality(Pending') \in Nat /\ Cardinality(Pending) \in Nat
      BY <1>7, Finite, FS_RemoveElement, FS_Subset, FS_CardinalityType
    <3> QED BY <3>1 DEF Inv, OneSessionPerPhone, Sane, Bounds
  <2>3. Cardinality(Sessions') <= MaxSessions
    <3>1. PICK out : Sessions \ over \subseteq Sessions \ {out} /\ Cardinality(Sessions \ {out}) < MaxSessions
      <4>1. CASE Cardinality(Sessions \ {c}) < MaxSessions
        <5>1. Sessions \ over \subseteq Sessions \ {c}
          BY <1>4
        <5> QED BY <4>1, <5>1
      <4>2. ASSUME NEW d \in Sessions, d \in over PROVE \E out :
              Sessions \ over \subseteq Sessions \ {out} /\ Cardinality(Sessions \ {out}) < MaxSessions
        <5>1. Cardinality(Sessions \ {d}) = Cardinality(Sessions) - 1 /\ Cardinality(Sessions) \in Nat
          BY Finite, FS_RemoveElement, FS_CardinalityType
        <5>2. Cardinality(Sessions \ {d}) < MaxSessions
          BY <5>1 DEF Inv, OneSessionPerPhone, Sane, Bounds
        <5>3. Sessions \ over \subseteq Sessions \ {d}
          BY <4>2
        <5> QED BY <5>2, <5>3
      <4> QED BY <1>5, <4>1, <4>2
    <3>2. /\ IsFiniteSet(Sessions \ {out}) /\ IsFiniteSet(Sessions \ over)
          /\ Cardinality(Sessions \ over) <= Cardinality(Sessions \ {out})
      BY <3>1, Finite, FS_RemoveElement, FS_Subset
    <3>3. Cardinality(Sessions \ {out}) \in Nat /\ Cardinality(Sessions \ over) \in Nat
      BY <3>2, FS_CardinalityType
    <3>4. Cardinality(Sessions') \in {Cardinality(Sessions \ over), Cardinality(Sessions \ over) + 1}
      BY <1>7, <3>2, FS_AddElement
    <3> QED BY <3>1, <3>2, <3>3, <3>4 DEF Sane, Bounds
  <2> QED BY <2>1, <2>2, <2>3 DEF OneSessionPerPhone
<1>14. StepIsSound'
  BY <1>1 DEF StepIsSound
<1> QED BY <1>6, <1>10, <1>11, <1>12, <1>13, <1>14 DEF Inv

-----------------------------------------------------------------------------
\* Whatever happens.
LEMMA InvStep == Sane /\ Inv /\ [Next]_vars => Inv'
<1> SUFFICES ASSUME Sane, Inv, [Next]_vars PROVE Inv'
  OBVIOUS
<1>1. CASE UNCHANGED vars
  BY <1>1 DEF vars, Inv, TypeOK, Numbered, EntriesAreSound, StepIsSound, ApiFollowsSession,
              OneSessionPerPhone, Pending, Sessions, Phone
<1>2. CASE Next
  BY <1>2, DropKeeps, ReapKeeps, BeginKeeps, IssueKeeps, InitDoneKeeps, PendingKeeps, RequestKeeps, PromoteKeeps,
     SessionKeeps DEF Next
<1> QED BY <1>1, <1>2

\* Whatever a Burrow holds for a phone came over the socket it has now, through
\* every close, stop and reconnect in the middle of a handshake or a proof
\* (#onConnectionInit's epoch, #dropTransientState).
THEOREM HeldIsOfThisSocket ==
  ASSUME Sane
  PROVE  Spec => []NothingOutlivesItsSocket
<1>1. Inv => NothingOutlivesItsSocket
  BY DEF Inv, NothingOutlivesItsSocket, Numbered, EntriesAreSound, Pending, Sessions, TypeOK
<1> QED BY <1>1, InitInv, InvStep, PTL DEF Spec

\* A phone holds one session and the caps hold, whatever the caps, promotions at
\* the cap included (promoteConnection, evictOldestConnectionIfFull).
THEOREM SessionsWithinCaps ==
  ASSUME Sane
  PROVE  Spec => []OneSessionPerPhone
<1>1. Inv => OneSessionPerPhone
  BY DEF Inv
<1> QED BY <1>1, InitInv, InvStep, PTL DEF Spec

\* A remote-api handler lives exactly as long as an entry holds its session
\* (the paths to api.dispose).
THEOREM HandlerFollowsSession ==
  ASSUME Sane
  PROVE  Spec => []ApiFollowsSession
<1>1. Inv => ApiFollowsSession
  BY DEF Inv
<1> QED BY <1>1, InitInv, InvStep, PTL DEF Spec

\* What is said to connections, and which sessions end for another.
ToldOnce ==
  \A i \in Ids : /\ told[i] # None => told'[i] = told[i]
                 /\ told'[i] = "ok" /\ told[i] = None => api'[i] = "live"
EndsItsOwn ==
  \A c, d \in Clients :
    /\ established'[d] # established[d] /\ established'[d] # None
    /\ established[c] # None /\ established'[c] # established[c]
    => c = d \/ Phone(c) = peer[established'[d]].phone

\* A refusal is the first word its connection hears.
LEMMA TellSaysOnce ==
  ASSUME Sane, Inv, NEW cs \in SUBSET Pending, NEW code, code # "ok", Tell(cs, code)
  PROVE  ToldOnce
<1>1. \A i \in Ids : told'[i] # told[i] => told'[i] = code /\ told[i] = None
  BY DEF Tell, Inv, EntriesAreSound
<1> QED BY <1>1 DEF ToldOnce, Sane, Apart, Codes

\* Only a promotion says "ok" and only it installs a session.
LEMMA OthersRefuse ==
  ASSUME Sane, Inv, Next, ~Promote
  PROVE  ToldOnce /\ \A c \in Clients : established'[c] \in {established[c], None}
<1>1. UNCHANGED told => ToldOnce
  BY DEF ToldOnce, Sane, Apart, Codes
<1>2. ASSUME NEW cs \in SUBSET Clients, NEW ss \in SUBSET Clients, Forget(cs, ss)
      PROVE  \A c \in Clients : established'[c] \in {established[c], None}
  BY <1>2, ForgetKeeps
<1>3. ASSUME NEW gone \in SUBSET Clients, ForgetAndReap(gone)
      PROVE  ToldOnce /\ \A c \in Clients : established'[c] \in {established[c], None}
  <2>1. /\ LateConnections \ gone \in SUBSET Pending
        /\ gone \cup LateConnections \in SUBSET Clients /\ gone \cup LateSessions \in SUBSET Clients
    BY DEF LateConnections, LateSessions, Pending, Sessions
  <2> QED BY <1>2, <1>3, <2>1, TellSaysOnce DEF ForgetAndReap
<1>4. CASE Close \/ Stop
  BY <1>1, <1>2, <1>4 DEF Close, Stop, DropTransientState
<1>5. CASE Opens \/ ReaperFires \/ \E c \in Clients, p \in Phones : InitBegins(c, p)
  BY <1>3, <1>5 DEF Opens, ReaperFires, InitBegins, Reap
<1>6. ASSUME NEW c \in Clients, ClientGone(c)
      PROVE  ToldOnce /\ \A d \in Clients : established'[d] \in {established[d], None}
  BY <1>3, <1>6 DEF ClientGone
<1>7. CASE Tick \/ Issue \/ InitFails \/ InitDone \/ ProofMoot \/ \E c \in Clients : Request(c) \/ Frame(c)
  BY <1>1, <1>7 DEF Tick, Issue, InitFails, InitDone, ProofMoot, Request, Frame, quiet, held
<1>8. ASSUME NEW c \in Clients, Undecryptable(c) \/ NotARequest(c)
      PROVE  ToldOnce /\ \A d \in Clients : established'[d] \in {established[d], None}
  BY <1>1, <1>2, <1>8, TellSaysOnce DEF Undecryptable, NotARequest, Pending
<1>9. CASE Refuse \/ Busy
  <2>1. Checked \in Pending
    BY <1>9 DEF Refuse, Busy, Checked, StillPending, Pending, Inv, TypeOK, StepIsSound, Sane, Apart
  <2> QED BY <1>2, <1>9, <2>1, TellSaysOnce DEF Refuse, Busy, Pending
<1>10. ASSUME NEW c \in Clients, EndSession(c)
       PROVE  ToldOnce /\ \A d \in Clients : established'[d] \in {established[d], None}
  BY <1>1, <1>2, <1>10 DEF EndSession
<1>11. ASSUME NEW i \in Ids, Poisoned(i) PROVE peer[i].client \in Clients /\ EndSession(peer[i].client)
  BY <1>11 DEF Poisoned, Inv, ApiFollowsSession, EntriesAreSound, Sessions, Sane, Apart
<1> QED BY <1>4, <1>5, <1>6, <1>7, <1>8, <1>9, <1>10, <1>11 DEF Next, UndecryptableFrame

\* A promotion is the first word its connection hears, and ends the sessions of
\* its phone and of its client only.
LEMMA PromotionIsHonest ==
  ASSUME Sane, Inv, Promote
  PROVE  ToldOnce /\ EndsItsOwn
<1> DEFINE i == step.id
           c == Checked
           p == peer[i].phone
<1>1. /\ i \in Ids /\ c \in Clients /\ connection[c] = i
  BY DEF Promote, Checked, StillPending, Inv, TypeOK, StepIsSound, Sane, Apart
<1>2. told[i] = None
  BY <1>1 DEF Pending, Inv, EntriesAreSound, Sane, Apart
<1>3. /\ established' = [d \in Clients |-> IF d = c THEN i ELSE IF d \in Replaced(c, p) THEN None ELSE established[d]]
      /\ told' = [told EXCEPT ![i] = "ok"] /\ api'[i] = "live"
  BY <1>1 DEF Promote
<1> HIDE DEF i, c, p
<1>4. ToldOnce
  BY <1>1, <1>2, <1>3 DEF ToldOnce, Inv, TypeOK, Sane, Apart, Codes
<1>5. \A d \in Clients : established'[d] # established[d] =>
        d = c \/ (d \in Sessions /\ Phone(d) = p /\ established'[d] = None)
  BY <1>1, <1>3 DEF Replaced, Incumbent
<1>6. established'[c] = i /\ p = peer[i].phone
  BY <1>1, <1>3 DEF p
<1> QED BY <1>4, <1>5, <1>6 DEF EndsItsOwn

\* What a connection hears is said once and holds; "ok" comes with a session,
\* and making room ends no session but of the same phone or relay client
\* (promoteConnection, denyConnection, the record compared after the await).
THEOREM OutcomesAreKept ==
  ASSUME Sane
  PROVE  Spec => OutcomesHold
<1>1. Inv /\ [Next]_vars => [ToldOnce /\ EndsItsOwn]_vars
  <2> SUFFICES ASSUME Inv, Next PROVE ToldOnce /\ EndsItsOwn
    OBVIOUS
  <2>1. CASE Promote
    BY <2>1, PromotionIsHonest
  <2>2. CASE ~Promote
    BY <2>2, OthersRefuse DEF EndsItsOwn
  <2> QED BY <2>1, <2>2
<1>2. [ToldOnce /\ EndsItsOwn]_vars =>
        [/\ \A i \in Ids :
               /\ told[i] # None => told'[i] = told[i]
               /\ told'[i] = "ok" /\ told[i] = None => api'[i] = "live"
         /\ \A c, d \in Clients :
               /\ established'[d] # established[d] /\ established'[d] # None
               /\ established[c] # None /\ established'[c] # established[c]
               => c = d \/ Phone(c) = peer[established'[d]].phone]_vars
  BY DEF ToldOnce, EndsItsOwn
<1> QED BY <1>1, <1>2, InitInv, InvStep, PTL DEF Spec, OutcomesHold
=============================================================================
