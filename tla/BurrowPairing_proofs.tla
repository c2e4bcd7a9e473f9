------------------------- MODULE BurrowPairing_proofs -----------------------
(* What a phone is told of its pairing is what the store says, for any       *)
(* number of clients, codes, mints and teardowns and any caps.               *)
EXTENDS BurrowPairing, SequenceTheorems, FiniteSetTheorems, WellFoundedInduction, TLAPS

Jobs == [client : Clients, invite : Ids]
Rows == [invite : Ids, requestedAt : Nat, approval : BOOLEAN, attempted : BOOLEAN, committing : BOOLEAN]
Steps == [kind : {"init", "proof"}, client : Clients, invite : Ids, epoch : Nat]
Writes == [client : Clients, invite : Ids, next : SUBSET Ids]

\* None is nothing else.
Apart == None \notin Rows \cup Steps \cup Writes \cup Denials \cup {"ok", "reserved", "consumed", "expired", "dropped"} \cup Nat

\* What the steps rely on, whatever the bounds.
Typed ==
  /\ now \in Nat /\ epoch \in Nat
  /\ invite \in [Ids -> {"unminted", "live", "reserved", "gone"}]
  /\ step \in Steps \cup {None} /\ pairing \in [Clients -> Rows \cup {None}]
  /\ saves \in Seq(Jobs) /\ saving \in Writes \cup {None}
  /\ acl \in SUBSET Ids /\ disk = acl
  /\ told \in [Ids -> Denials \cup {"ok", None}]

\* A code that went to a phone never goes to another.
Used(i) == invite[i] \in {"reserved", "gone"}
CodesAreSound ==
  /\ step # None /\ step.kind = "init" => invite[step.invite] \in {"live", "gone"}
  /\ \A c \in Pending :
       /\ Used(pairing[c].invite) /\ pairing[c].invite \notin disk
       /\ told[pairing[c].invite] = None
       /\ \A d \in Pending : pairing[c].invite = pairing[d].invite => c = d
  /\ \A i \in Ids : i \in disk \/ told[i] # None => Used(i)

\* One approval of a code is queued or written, once, and its ceremony, while
\* there is one, shows which.
SavesAreSound ==
  /\ \A n \in 1 .. Len(saves) :
       /\ Used(saves[n].invite) /\ saves[n].invite \notin disk
       /\ \A m \in 1 .. Len(saves) : saves[m].invite = saves[n].invite => m = n
       /\ \A c \in Pending : pairing[c].invite = saves[n].invite => c = saves[n].client /\ pairing[c].attempted
  /\ saving # None =>
       /\ Used(saving.invite) /\ saving.invite \notin disk /\ saving.next = acl \cup {saving.invite}
       /\ told[saving.invite] = None
       /\ \A n \in 1 .. Len(saves) : saves[n].invite # saving.invite
       /\ \A c \in Pending : pairing[c].invite = saving.invite =>
            c = saving.client /\ pairing[c].attempted /\ pairing[c].committing

Inv == Typed /\ CodesAreSound /\ SavesAreSound /\ AnswerMatchesAccess

-----------------------------------------------------------------------------
\* A Burrow starts with nothing.
LEMMA InitInv == Apart /\ Init => Inv
<1> SUFFICES ASSUME Apart, Init PROVE Inv
  OBVIOUS
<1>1. Pending = {} /\ Len(saves) = 0
  BY EmptySeq DEF Init, Pending
<1>2. Typed
  BY EmptySeq DEF Init, Typed
<1> QED BY <1>1, <1>2 DEF Init, Inv, CodesAreSound, SavesAreSound, AnswerMatchesAccess, Apart

\* How codes move: on, and to a phone only where a step says so.
Forward ==
  /\ invite' \in [Ids -> {"unminted", "live", "reserved", "gone"}]
  /\ \A i \in Ids :
       /\ Used(i) => Used(i)'
       /\ invite'[i] = "reserved" => invite[i] = "reserved"
       /\ invite[i] = "live" => invite'[i] \in {"live", "gone"}

\* The handler that awaits is done, is where it was, or took up a frame.
Resumes ==
  \/ step' \in {step, None}
  \/ step' \in Steps /\ (step'.kind = "init" => invite'[step'.invite] \in {"live", "gone"})

\* Retiring codes only moves them on.
LEMMA RetireMoves ==
  ASSUME Inv, NEW cs, NEW code, NEW is, NEW label, Retire(cs, code, is, label)
  PROVE  Forward
<1>1. \A i \in Spent(cs) \cup (is \cap Held) : i \in Ids /\ invite[i] \in {"live", "reserved"}
  BY DEF Spent, Held
<1> QED BY <1>1 DEF Retire, Forward, Used, Inv, Typed

\* Ceremonies may end with these answers, and each phone hears its own.
Answers(cs, code) == \A c \in cs : Sent(code[c]) => code[c] \in Denials \cup {"ok"}
Heard(cs, code) ==
  /\ pairing' = [c \in Clients |-> IF c \in cs THEN None ELSE pairing[c]]
  /\ told' \in [Ids -> Denials \cup {"ok", None}]
  /\ \A i \in Ids : told'[i] # told[i] =>
       \E c \in cs : pairing[c].invite = i /\ Sent(code[c]) /\ told'[i] = code[c]

\* A ceremony that ends with an answer gives its own phone that answer.
LEMMA Answered ==
  ASSUME Apart, Inv, NEW cs \in SUBSET Pending, NEW code, Ceremonies(cs, code), Answers(cs, code)
  PROVE  Heard(cs, code)
<1>1. \A c, d \in cs : pairing[c].invite = pairing[d].invite => c = d
  BY DEF Inv, CodesAreSound
<1>2. ASSUME NEW i \in Ids, NEW c \in cs, pairing[c].invite = i
      PROVE  (CHOOSE d \in cs : pairing[d].invite = i) = c
  BY <1>1, <1>2
<1>3. \A i \in Ids : \/ told'[i] = told[i]
                     \/ \E c \in cs : pairing[c].invite = i /\ Sent(code[c]) /\ told'[i] = code[c]
  BY <1>2 DEF Ceremonies
<1>4. told' \in [Ids -> Denials \cup {"ok", None}]
  <2>1. \A i \in Ids : told'[i] \in Denials \cup {"ok", None}
    BY <1>3 DEF Inv, Typed, Answers
  <2> QED BY <2>1 DEF Ceremonies
<1> QED BY <1>3, <1>4 DEF Ceremonies, Heard

\* Ceremonies end; what is written, queued and told stays in step, whether or
\* not a write ends with them.
LEMMA EndingKeeps ==
  ASSUME Apart, Inv, NEW cs \in SUBSET Pending, Forward,
         pairing' = [c \in Clients |-> IF c \in cs THEN None ELSE pairing[c]],
         now' \in Nat, epoch' \in Nat, Resumes,
         saves' = saves \/ (saves # <<>> /\ saves' = Tail(saves)),
         \/ saving' = saving /\ disk' = disk /\ acl' = acl
         \/ /\ saving # None /\ saving' = None
            /\ disk' = acl' /\ acl' \in {acl, acl \cup {saving.invite}}
            /\ \A c \in Pending : pairing[c].invite = saving.invite => c \in cs,
         told' \in [Ids -> Denials \cup {"ok", None}],
         \A i \in Ids : told'[i] # told[i] =>
           /\ \E c \in cs : pairing[c].invite = i
           /\ told'[i] = "ok" => i \in disk'
           /\ told'[i] \in Denials => i \notin disk' /\ (saving' # None => saving'.invite # i)
  PROVE  Inv'
<1>1. Pending' = Pending \ cs /\ \A c \in Pending' : pairing'[c] = pairing[c] /\ pairing[c].invite \in Ids
  BY DEF Pending, Inv, Typed, Apart, Rows
<1>2. PICK k \in {0, 1} : \A n \in 1 .. Len(saves') : n + k \in 1 .. Len(saves) /\ saves'[n] = saves[n + k]
  <2>1. CASE saves' = saves
    <3>1. \A n \in 1 .. Len(saves') : n + 0 \in 1 .. Len(saves) /\ saves'[n] = saves[n + 0]
      BY <2>1
    <3> QED BY <3>1
  <2>2. CASE saves # <<>> /\ saves' = Tail(saves)
    <3>1. saves \in Seq(Jobs)
      BY DEF Inv, Typed
    <3>2. \A n \in 1 .. Len(saves') : n + 1 \in 1 .. Len(saves) /\ saves'[n] = saves[n + 1]
      BY <2>2, <3>1
    <3> QED BY <3>2
  <2> QED BY <2>1, <2>2
<1>3. saves' \in Seq(Jobs)
  <2>1. saves \in Seq(Jobs)
    BY DEF Inv, Typed
  <2> QED BY <2>1, HeadTailProperties
<1>4. Typed'
  <2>1. pairing' \in [Clients -> Rows \cup {None}]
    BY DEF Inv, Typed
  <2>2. acl' \in SUBSET Ids /\ disk' = acl' /\ saving' \in Writes \cup {None}
    BY DEF Inv, Typed, Writes
  <2> QED BY <1>3, <2>1, <2>2 DEF Inv, Typed, Forward, Resumes
<1>5. disk \subseteq disk' /\ \A i \in disk' \ disk : saving # None /\ saving' = None /\ i = saving.invite
  BY DEF Inv, Typed
<1>6. CodesAreSound'
  <2>1. step' # None /\ step'.kind = "init" => invite'[step'.invite] \in {"live", "gone"}
    <3>1. step # None => step.invite \in Ids
      BY DEF Inv, Typed, Steps
    <3> QED BY <3>1 DEF Inv, CodesAreSound, Forward, Used, Resumes
  <2>2. \A c \in Pending' : /\ invite'[pairing'[c].invite] \in {"reserved", "gone"} /\ pairing'[c].invite \notin disk'
                            /\ told'[pairing'[c].invite] = None
    <3>1. \A c \in Pending' : c \in Pending \ cs /\ pairing'[c].invite = pairing[c].invite /\ pairing[c].invite \in Ids
      BY <1>1
    <3>2. \A c \in Pending \ cs, d \in cs : pairing[c].invite # pairing[d].invite
      BY DEF Inv, CodesAreSound
    <3>3. \A c \in Pending' : told'[pairing'[c].invite] = None
      BY <3>1, <3>2 DEF Inv, CodesAreSound
    <3>4. \A c \in Pending' : pairing'[c].invite \notin disk'
      BY <1>5, <3>1 DEF Inv, CodesAreSound
    <3>5. \A c \in Pending' : invite'[pairing'[c].invite] \in {"reserved", "gone"}
      BY <3>1 DEF Inv, CodesAreSound, Forward, Used
    <3> QED BY <3>3, <3>4, <3>5
  <2>3. \A c, d \in Pending' : pairing'[c].invite = pairing'[d].invite => c = d
    BY <1>1 DEF Inv, CodesAreSound
  <2>4. \A i \in Ids : i \in disk' \/ told'[i] # None => Used(i)'
    <3>1. \A i \in Ids : i \in disk' \/ told'[i] # None => Used(i)
      BY <1>5 DEF Inv, Typed, CodesAreSound, SavesAreSound
    <3> QED BY <3>1 DEF Forward
  <2> QED BY <2>1, <2>2, <2>3, <2>4 DEF CodesAreSound, Used
<1>7. SavesAreSound'
  <2>1. \A n \in 1 .. Len(saves') :
          /\ invite'[saves'[n].invite] \in {"reserved", "gone"} /\ saves'[n].invite \notin disk'
          /\ \A m \in 1 .. Len(saves') : saves'[m].invite = saves'[n].invite => m = n
          /\ \A c \in Pending' : pairing'[c].invite = saves'[n].invite => c = saves'[n].client /\ pairing'[c].attempted
    <3> SUFFICES ASSUME NEW n \in 1 .. Len(saves')
                 PROVE  /\ invite'[saves'[n].invite] \in {"reserved", "gone"} /\ saves'[n].invite \notin disk'
                        /\ \A m \in 1 .. Len(saves') : saves'[m].invite = saves'[n].invite => m = n
                        /\ \A c \in Pending' : pairing'[c].invite = saves'[n].invite =>
                             c = saves'[n].client /\ pairing'[c].attempted
      OBVIOUS
    <3>1. n + k \in 1 .. Len(saves) /\ saves'[n] = saves[n + k] /\ saves[n + k].invite \in Ids
      <4>1. saves \in Seq(Jobs)
        BY DEF Inv, Typed
      <4>2. n + k \in 1 .. Len(saves) /\ saves'[n] = saves[n + k]
        BY <1>2
      <4>3. saves[n + k] \in Jobs
        BY <4>1, <4>2
      <4> QED BY <4>2, <4>3 DEF Jobs
    <3>2. /\ Used(saves[n + k].invite) /\ saves[n + k].invite \notin disk
          /\ \A m \in 1 .. Len(saves) : saves[m].invite = saves[n + k].invite => m = n + k
          /\ \A c \in Pending : pairing[c].invite = saves[n + k].invite => c = saves[n + k].client /\ pairing[c].attempted
          /\ saving # None => saves[n + k].invite # saving.invite
      BY <3>1 DEF Inv, SavesAreSound
    <3>3. invite'[saves[n + k].invite] \in {"reserved", "gone"} /\ saves'[n].invite \notin disk'
      BY <1>5, <3>1, <3>2 DEF Forward, Used
    <3>4. \A m \in 1 .. Len(saves') : saves'[m].invite = saves'[n].invite => m = n
      <4> SUFFICES ASSUME NEW m \in 1 .. Len(saves'), saves'[m].invite = saves'[n].invite PROVE m = n
        OBVIOUS
      <4>1. m + k \in 1 .. Len(saves) /\ saves'[m] = saves[m + k]
        BY <1>2
      <4>2. m + k = n + k
        BY <3>1, <3>2, <4>1
      <4> QED BY <4>2
    <3> QED BY <1>1, <3>1, <3>2, <3>3, <3>4 DEF Used
  <2>2. ASSUME saving' # None
        PROVE  /\ invite'[saving'.invite] \in {"reserved", "gone"} /\ saving'.invite \notin disk' /\ saving'.next = acl' \cup {saving'.invite}
               /\ told'[saving'.invite] = None
               /\ \A n \in 1 .. Len(saves') : saves'[n].invite # saving'.invite
               /\ \A c \in Pending' : pairing'[c].invite = saving'.invite =>
                    c = saving'.client /\ pairing'[c].attempted /\ pairing'[c].committing
    <3>1. saving' = saving /\ saving.invite \in Ids /\ disk' = disk /\ acl' = acl
      BY <2>2 DEF Inv, Typed, Writes
    <3>2. /\ Used(saving.invite) /\ saving.invite \notin disk /\ saving.next = acl \cup {saving.invite}
          /\ told[saving.invite] = None
          /\ \A n \in 1 .. Len(saves) : saves[n].invite # saving.invite
          /\ \A c \in Pending : pairing[c].invite = saving.invite =>
               c = saving.client /\ pairing[c].attempted /\ pairing[c].committing
      BY <2>2, <3>1 DEF Inv, SavesAreSound
    <3>3. told'[saving.invite] = None
      BY <2>2, <3>1, <3>2 DEF Apart
    <3>4. invite'[saving.invite] \in {"reserved", "gone"}
      BY <3>1, <3>2 DEF Forward, Used
    <3> QED BY <1>1, <1>2, <3>1, <3>2, <3>3, <3>4 DEF Used
  <2> QED BY <2>1, <2>2 DEF SavesAreSound, Used
<1>8. AnswerMatchesAccess'
  <2>1. \A i \in Ids : /\ told'[i] = "ok" => i \in disk'
                       /\ told'[i] \in Denials => i \notin disk'
    <3> SUFFICES ASSUME NEW i \in Ids PROVE /\ told'[i] = "ok" => i \in disk'
                                            /\ told'[i] \in Denials => i \notin disk'
      OBVIOUS
    <3>1. CASE told'[i] = told[i]
      BY <1>5, <3>1 DEF Inv, AnswerMatchesAccess, SavesAreSound, Apart
    <3> QED BY <3>1
  <2> QED BY <1>4, <2>1 DEF AnswerMatchesAccess, Typed
<1> QED BY <1>4, <1>6, <1>7, <1>8 DEF Inv

\* Ceremonies end without a write: those that are told are told why not.
LEMMA RefusalKeeps ==
  ASSUME Apart, Inv, NEW cs \in SUBSET Pending, NEW code, Ceremonies(cs, code), Forward,
         \A c \in cs : Sent(code[c]) => code[c] \in Denials /\ ~pairing[c].committing,
         now' \in Nat, epoch' \in Nat, Resumes,
         saves' = saves \/ (saves # <<>> /\ saves' = Tail(saves)),
         UNCHANGED <<saving, acl, disk>>
  PROVE  Inv'
<1>1. Heard(cs, code)
  <2>1. Answers(cs, code)
    BY DEF Answers
  <2> QED BY <2>1, Answered
<1>2. \A i \in Ids : told'[i] # told[i] =>
        /\ \E c \in cs : pairing[c].invite = i
        /\ told'[i] = "ok" => i \in disk'
        /\ told'[i] \in Denials => i \notin disk' /\ (saving' # None => saving'.invite # i)
  <2>1. "ok" \notin Denials
    BY DEF Denials
  <2> QED BY <1>1, <2>1 DEF Heard, Inv, CodesAreSound, SavesAreSound
<1> QED BY <1>1, <1>2, EndingKeeps DEF Heard

\* Nothing of it happens.
LEMMA StillKeeps ==
  ASSUME Apart, Inv, UNCHANGED <<invite, pairing, told, saving, acl, disk>>,
         now' \in Nat, epoch' \in Nat, Resumes,
         saves' = saves \/ (saves # <<>> /\ saves' = Tail(saves))
  PROVE  Inv'
<1>1. {} \in SUBSET Pending /\ pairing' = [c \in Clients |-> IF c \in {} THEN None ELSE pairing[c]]
  BY DEF Inv, Typed
<1>2. Forward
  BY DEF Forward, Used, Inv, Typed
<1>3. told' \in [Ids -> Denials \cup {"ok", None}]
  BY DEF Inv, Typed
<1> QED BY <1>1, <1>2, <1>3, EndingKeeps

\* What ends late is told so, unless its write is under way.
LEMMA LateKeeps ==
  ASSUME Apart, Inv, NEW cs \in SUBSET Pending, NEW code, NEW is, NEW label,
         Ceremonies(cs \cup LateClients, Expiry(cs, code)), Retire(cs \cup LateClients, Expiry(cs, code), is, label),
         \A c \in cs : Sent(code) => code \in Denials /\ ~pairing[c].committing,
         now' \in Nat, epoch' \in Nat, Resumes, UNCHANGED <<saves, saving, acl, disk>>
  PROVE  Inv'
<1> DEFINE all == cs \cup LateClients
           each == Expiry(cs, code)
<1>1. all \in SUBSET Pending
  BY DEF LateClients
<1>2. \A c \in all : Sent(each[c]) => each[c] \in Denials /\ ~pairing[c].committing
  BY DEF Expiry, Denial, Denials, Sent
<1> HIDE DEF all, each
<1>3. Ceremonies(all, each)
  BY DEF all, each
<1>4. Forward
  BY RetireMoves DEF all, each
<1> QED BY <1>1, <1>2, <1>3, <1>4, RefusalKeeps

\* One ceremony ends with a denial, or without a word.
LEMMA EndKeeps ==
  ASSUME Apart, Inv, NEW c \in Pending, NEW code, End(c, code),
         Sent(code) => code \in Denials /\ ~pairing[c].committing,
         now' \in Nat, epoch' \in Nat, Resumes,
         saves' = saves \/ (saves # <<>> /\ saves' = Tail(saves)), UNCHANGED <<saving, acl, disk>>
  PROVE  Inv'
<1> DEFINE each == [d \in {c} |-> code]
<1>1. Ceremonies({c}, each) /\ Retire({c}, each, {}, None)
  BY DEF End
<1>2. \A d \in {c} : Sent(each[d]) => each[d] \in Denials /\ ~pairing[d].committing
  OBVIOUS
<1> HIDE DEF each
<1>3. Forward
  BY <1>1, RetireMoves
<1> QED BY <1>1, <1>2, <1>3, RefusalKeeps

-----------------------------------------------------------------------------
\* The socket, the timer, the clock, and clients that leave.
LEMMA SocketKeeps ==
  ASSUME Apart, Inv,
         Close \/ Stop \/ Opens \/ ReaperFires \/ Tick \/ OtherInit \/ \E c \in Clients : ClientGone(c)
  PROVE  Inv'
<1>1. CASE Close \/ Stop
  <2> DEFINE silent == [c \in Pending |-> None]
  <2>1. Ceremonies(Pending, silent) /\ Retire(Pending, silent, Held, "dropped") /\ epoch' = epoch + 1
    BY <1>1 DEF Close, Stop, DropTransientState
  <2>2. \A c \in Pending : Sent(silent[c]) => silent[c] \in Denials /\ ~pairing[c].committing
    BY DEF Sent
  <2> HIDE DEF silent
  <2>3. Forward
    BY <2>1, RetireMoves
  <2>4. now' \in Nat /\ epoch' \in Nat /\ Resumes /\ UNCHANGED <<saves, saving, acl, disk>>
    BY <1>1, <2>1 DEF Close, Stop, access, Resumes, Inv, Typed
  <2> QED BY <2>1, <2>2, <2>3, <2>4, RefusalKeeps
<1>2. CASE Opens \/ ReaperFires \/ OtherInit
  <2>1. {} \cup LateClients = LateClients /\ {} \in SUBSET Pending
    OBVIOUS
  <2>2. /\ Ceremonies({} \cup LateClients, Expiry({}, None))
        /\ Retire({} \cup LateClients, Expiry({}, None), LateInvites, "expired")
    BY <1>2, <2>1 DEF Opens, ReaperFires, OtherInit, Reap, EndAndReap
  <2>3. now' \in Nat /\ epoch' \in Nat /\ Resumes /\ UNCHANGED <<saves, saving, acl, disk>>
    BY <1>2 DEF Opens, ReaperFires, OtherInit, access, Resumes, Inv, Typed
  <2> QED BY <2>1, <2>2, <2>3, LateKeeps
<1>3. CASE Tick
  BY <1>3, StillKeeps DEF Tick, codes, ceremony, access, Resumes, Inv, Typed
<1>4. ASSUME NEW c \in Clients, ClientGone(c) PROVE Inv'
  <2>1. {c} \cap Pending \in SUBSET Pending /\ ~Sent(None)
    BY DEF Sent
  <2>2. now' \in Nat /\ epoch' \in Nat /\ Resumes /\ UNCHANGED <<saves, saving, acl, disk>>
    BY <1>4 DEF ClientGone, access, Resumes, Inv, Typed
  <2> QED BY <1>4, <2>1, <2>2, LateKeeps DEF ClientGone, EndAndReap
<1> QED BY <1>1, <1>2, <1>3, <1>4

\* A code is minted, or not.
LEMMA MintKeeps ==
  ASSUME Apart, Inv, NEW m \in Minters, MintBegins(m) \/ MintRefused(m) \/ MintDone(m)
  PROVE  Inv'
<1>1. CASE MintBegins(m) \/ MintRefused(m)
  BY <1>1, StillKeeps DEF MintBegins, MintRefused, codes, ceremony, access, Resumes, Inv, Typed
<1>2. CASE MintDone(m)
  <2> DEFINE ended == Expiry({}, None)
  <2>1. Ceremonies(LateClients, ended)
    BY <1>2 DEF MintDone
  <2>2. PICK i \in Ids, retired \in SUBSET Held : invite[i] = "unminted" /\
          invite' = [j \in Ids |-> IF j = i THEN "live"
                                  ELSE IF j \in Spent(LateClients) \cup retired THEN "gone" ELSE invite[j]]
    BY <1>2 DEF MintDone, LateInvites, Evicted
  <2>3. Forward
    <3>1. \A j \in Spent(LateClients) \cup retired : j \in Ids /\ invite[j] \in {"live", "reserved"}
      BY <2>2 DEF Spent, Held
    <3> QED BY <2>2, <3>1 DEF Forward, Used, Inv, Typed
  <2>4. LateClients \in SUBSET Pending /\ \A c \in LateClients : Sent(ended[c]) => ended[c] \in Denials /\ ~pairing[c].committing
    BY DEF LateClients, Expiry, Denial, Denials, Sent
  <2>5. now' \in Nat /\ epoch' \in Nat /\ Resumes /\ UNCHANGED <<saves, saving, acl, disk>>
    BY <1>2 DEF MintDone, access, Resumes, Inv, Typed
  <2> HIDE DEF ended
  <2> QED BY <2>1, <2>3, <2>4, <2>5, RefusalKeeps
<1> QED BY <1>1, <1>2

\* A phone's handshake begins, or comes to nothing.
LEMMA InitKeeps ==
  ASSUME Apart, Inv, (\E c \in Clients, i \in Ids : InitBegins(c, i)) \/ InitFails
  PROVE  Inv'
<1>1. ASSUME NEW c \in Clients, NEW i \in Ids, InitBegins(c, i) PROVE Inv'
  <2>1. {} \cup LateClients = LateClients /\ {} \in SUBSET Pending
    OBVIOUS
  <2>2. /\ Ceremonies({} \cup LateClients, Expiry({}, None))
        /\ Retire({} \cup LateClients, Expiry({}, None), LateInvites, "expired")
    BY <1>1, <2>1 DEF InitBegins, Reap, EndAndReap
  <2>3. Forward
    BY <2>2, RetireMoves
  <2>4. Resumes
    BY <1>1, <2>3 DEF InitBegins, Forward, Resumes, Steps, Inv, Typed
  <2>5. now' \in Nat /\ epoch' \in Nat /\ UNCHANGED <<saves, saving, acl, disk>>
    BY <1>1 DEF InitBegins, access, Inv, Typed
  <2> QED BY <2>1, <2>2, <2>4, <2>5, LateKeeps
<1>2. CASE InitFails
  BY <1>2, StillKeeps DEF InitFails, codes, ceremony, access, Resumes, Inv, Typed
<1> QED BY <1>1, <1>2

\* It reserves its code: a phone starts a ceremony no other phone has had.
LEMMA InitDoneKeeps ==
  ASSUME Apart, Inv, InitDone
  PROVE  Inv'
<1> DEFINE c == step.client
           i == step.invite
           row == [invite |-> i, requestedAt |-> now, approval |-> FALSE, attempted |-> FALSE, committing |-> FALSE]
<1>1. c \in Clients /\ i \in Ids /\ invite[i] = "live" /\ step' = None
  BY DEF InitDone, StillTheirs, Inv, Typed, CodesAreSound, Steps, Apart
<1>2. PICK over \in SUBSET Pending :
        /\ c \in Pending => c \in over
        /\ pairing' = [d \in Clients |-> IF d = c THEN row ELSE IF d \in over THEN None ELSE pairing[d]]
        /\ told' = [j \in Ids |->
             IF \E d \in over : pairing[d].invite = j /\ Denial(d, "superseded") # None THEN "superseded" ELSE told[j]]
        /\ invite' = [j \in Ids |-> IF j = i THEN "reserved" ELSE IF j \in Spent(over) THEN "gone" ELSE invite[j]]
  <2>1. \A gone \in Displaced(Pending \ {c}) : gone \subseteq Pending
    BY DEF Displaced
  <2>2. PICK gone \in Displaced(Pending \ {c}) :
        /\ pairing' = [d \in Clients |-> IF d = c THEN row
                                         ELSE IF d \in gone \cup ({c} \cap Pending) THEN None ELSE pairing[d]]
        /\ told' = [j \in Ids |->
             IF \E d \in gone \cup ({c} \cap Pending) : pairing[d].invite = j /\ Denial(d, "superseded") # None
             THEN "superseded" ELSE told[j]]
        /\ invite' = [j \in Ids |-> IF j = i THEN "reserved"
                                    ELSE IF j \in Spent(gone \cup ({c} \cap Pending)) THEN "gone" ELSE invite[j]]
    BY DEF InitDone
  <2> QED BY <2>1, <2>2
<1>3. UNCHANGED <<now, epoch, saves, saving, acl, disk>>
  BY DEF InitDone, access
<1> HIDE DEF c, i
<1>4. row \in Rows /\ row # None /\ row.invite = i
  <2>1. now \in Nat
    BY DEF Inv, Typed
  <2>2. row \in Rows
    BY <1>1, <2>1 DEF Rows
  <2> QED BY <2>2 DEF Apart
<1> HIDE DEF row
<1>5. \A j \in Ids : /\ Used(j) => j # i /\ invite'[j] \in {"reserved", "gone"}
                     /\ told'[j] # told[j] => told'[j] = "superseded" /\
                          \E d \in over : pairing[d].invite = j /\ ~pairing[d].committing
  <2>1. \A j \in Spent(over) : invite[j] \in {"live", "reserved"}
    BY DEF Spent, Held
  <2> QED BY <1>1, <1>2, <2>1 DEF Used, Denial
<1>6. Typed'
  <2>1. pairing' \in [Clients -> Rows \cup {None}] /\ told' \in [Ids -> Denials \cup {"ok", None}]
    BY <1>2, <1>4 DEF Inv, Typed, Denials
  <2>2. invite' \in [Ids -> {"unminted", "live", "reserved", "gone"}]
    BY <1>2 DEF Inv, Typed
  <2> QED BY <1>1, <1>3, <2>1, <2>2 DEF Inv, Typed
<1>7. \A d \in Pending' : \/ d = c /\ pairing'[d] = row
                          \/ d # c /\ d \in Pending \ over /\ pairing'[d] = pairing[d] /\ pairing[d].invite \in Ids
  <2>1. \A d \in Clients : pairing'[d] = IF d = c THEN row ELSE IF d \in over THEN None ELSE pairing[d]
    BY <1>2
  <2>2. \A d \in Pending : d \in Clients /\ pairing[d].invite \in Ids
    BY DEF Pending, Inv, Typed, Rows
  <2>3. ASSUME NEW d \in Clients, pairing'[d] # None, d # c
        PROVE  d \in Pending \ over /\ pairing'[d] = pairing[d] /\ pairing[d].invite \in Ids
    <3>1. d \notin over /\ pairing'[d] = pairing[d]
      BY <2>1, <2>3
    <3> QED BY <2>2, <2>3, <3>1 DEF Pending
  <2>4. \A d \in Clients : d = c => pairing'[d] = row
    BY <2>1
  <2> QED BY <2>3, <2>4 DEF Pending
<1>8. invite'[i] = "reserved" /\ i \notin disk /\ told[i] = None /\ told'[i] = None /\ ~Used(i)
      /\ \A d \in Pending : pairing[d].invite # i
  <2>1. ~Used(i)
    BY <1>1 DEF Used
  <2>2. \A d \in Pending : pairing[d].invite # i
    BY <2>1 DEF Inv, CodesAreSound
  <2> QED BY <1>1, <1>2, <1>5, <2>1, <2>2 DEF Inv, CodesAreSound
<1>9. CodesAreSound'
  <2>1. \A d \in Pending' : /\ invite'[pairing'[d].invite] \in {"reserved", "gone"} /\ pairing'[d].invite \notin disk'
                            /\ told'[pairing'[d].invite] = None
    <3> SUFFICES ASSUME NEW d \in Pending'
                 PROVE  /\ invite'[pairing'[d].invite] \in {"reserved", "gone"} /\ pairing'[d].invite \notin disk'
                        /\ told'[pairing'[d].invite] = None
      OBVIOUS
    <3>1. CASE pairing'[d] = row
      BY <1>3, <1>4, <1>8, <3>1
    <3>2. CASE d \in Pending \ over /\ pairing'[d] = pairing[d] /\ pairing[d].invite \in Ids
      <4>1. \A e \in over : pairing[e].invite # pairing[d].invite
        BY <3>2 DEF Inv, CodesAreSound
      <4> QED BY <1>3, <1>5, <3>2, <4>1 DEF Inv, CodesAreSound
    <3> QED BY <1>7, <3>1, <3>2
  <2>2. \A d, e \in Pending' : pairing'[d].invite = pairing'[e].invite => d = e
    BY <1>4, <1>7, <1>8 DEF Inv, CodesAreSound
  <2>3. \A j \in Ids : j \in disk' \/ told'[j] # None => invite'[j] \in {"reserved", "gone"}
    <3>1. \A j \in Ids : j \in disk \/ told'[j] # None => Used(j)
      BY <1>5 DEF Inv, CodesAreSound
    <3> QED BY <1>3, <1>5, <3>1
  <2> QED BY <1>1, <2>1, <2>2, <2>3 DEF CodesAreSound, Used
<1>10. SavesAreSound'
  <2>1. \A n \in 1 .. Len(saves) : saves[n].invite \in Ids
    <3>1. saves \in Seq(Jobs)
      BY DEF Inv, Typed
    <3>2. \A n \in 1 .. Len(saves) : saves[n] \in Jobs
      BY <3>1
    <3> QED BY <3>2 DEF Jobs
  <2>2. \A n \in 1 .. Len(saves) :
          /\ invite'[saves[n].invite] \in {"reserved", "gone"} /\ saves[n].invite \notin disk
          /\ \A m \in 1 .. Len(saves) : saves[m].invite = saves[n].invite => m = n
          /\ \A d \in Pending' : pairing'[d].invite = saves[n].invite => d = saves[n].client /\ pairing'[d].attempted
    <3>1. \A n \in 1 .. Len(saves) : saves[n].invite # i /\ invite'[saves[n].invite] \in {"reserved", "gone"}
      BY <1>5, <1>8, <2>1 DEF Inv, SavesAreSound
    <3> QED BY <1>4, <1>7, <3>1 DEF Inv, SavesAreSound
  <2>3. ASSUME saving # None
        PROVE  /\ invite'[saving.invite] \in {"reserved", "gone"} /\ saving.invite \notin disk
               /\ saving.next = acl \cup {saving.invite} /\ told'[saving.invite] = None
               /\ \A n \in 1 .. Len(saves) : saves[n].invite # saving.invite
               /\ \A d \in Pending' : pairing'[d].invite = saving.invite =>
                    d = saving.client /\ pairing'[d].attempted /\ pairing'[d].committing
    <3>1. saving.invite \in Ids
      BY <2>3 DEF Inv, Typed, Writes
    <3>2. /\ Used(saving.invite) /\ saving.invite \notin disk /\ saving.next = acl \cup {saving.invite}
          /\ told[saving.invite] = None
          /\ \A n \in 1 .. Len(saves) : saves[n].invite # saving.invite
          /\ \A d \in Pending : pairing[d].invite = saving.invite =>
               d = saving.client /\ pairing[d].attempted /\ pairing[d].committing
      BY <2>3 DEF Inv, SavesAreSound
    <3>3. saving.invite # i /\ invite'[saving.invite] \in {"reserved", "gone"} /\ told'[saving.invite] = None
      BY <1>5, <3>1, <3>2
    <3> QED BY <1>4, <1>7, <3>2, <3>3
  <2> QED BY <1>3, <2>2, <2>3 DEF SavesAreSound, Used
<1>11. AnswerMatchesAccess'
  <2>1. \A j \in Ids : told'[j] # told[j] => told'[j] = "superseded" /\ j \notin disk
    BY <1>5 DEF Inv, CodesAreSound
  <2>2. "superseded" # "ok"
    OBVIOUS
  <2> QED BY <1>3, <2>1, <2>2 DEF Inv, AnswerMatchesAccess
<1> QED BY <1>6, <1>9, <1>10, <1>11 DEF Inv

\* A ceremony ends at a frame, a proof, an answer or its turn to be saved.
LEMMA RefusedKeeps ==
  ASSUME Apart, Inv,
         \/ \E c \in Clients : \/ TransportLate(c) \/ TransportPoisoned(c) \/ TransportMalformed(c)
                             \/ ApproveRefused(c) \/ Deny(c)
         \/ ProofFails \/ SaveMoot
  PROVE  Inv'
<1>1. ASSUME NEW c \in Clients, TransportLate(c) \/ TransportPoisoned(c) \/ TransportMalformed(c) \/ ApproveRefused(c)
      PROVE  Inv'
  <2>1. c \in Pending
    BY <1>1 DEF TransportLate, TransportPoisoned, TransportMalformed, ApproveRefused, Answerable, Is, Pending
  <2>2. PICK code \in {"poisoned", Denial(c, "invitation-expired"), Denial(c, "burrow-error"),
                       Denial(c, "confirmation-mismatch")} : End(c, code)
    BY <1>1 DEF TransportLate, TransportPoisoned, TransportMalformed, ApproveRefused
  <2>3. Sent(code) => code \in Denials /\ ~pairing[c].committing
    BY <2>2 DEF Sent, Denial, Denials
  <2>4. now' \in Nat /\ epoch' \in Nat /\ Resumes /\ saves' = saves /\ UNCHANGED <<saving, acl, disk>>
    BY <1>1 DEF TransportLate, TransportPoisoned, TransportMalformed, ApproveRefused, access, Resumes, Inv, Typed
  <2> QED BY <2>1, <2>2, <2>3, <2>4, EndKeeps
<1>2. ASSUME NEW c \in Clients, Deny(c) PROVE Inv'
  <2>1. {c} \in SUBSET Pending
    BY <1>2 DEF Deny, Is, Pending
  <2>2. \A d \in {c} : Sent(Denial(c, "user-denied")) => Denial(c, "user-denied") \in Denials /\ ~pairing[d].committing
    BY DEF Sent, Denial, Denials
  <2>3. now' \in Nat /\ epoch' \in Nat /\ Resumes /\ UNCHANGED <<saves, saving, acl, disk>>
    BY <1>2 DEF Deny, access, Resumes, Inv, Typed
  <2> QED BY <1>2, <2>1, <2>2, <2>3, LateKeeps DEF Deny, EndAndReap
<1>3. CASE ProofFails
  <2>1. step.client \in Pending
    BY <1>3 DEF ProofFails, Is, Pending, Inv, Typed, Steps
  <2>2. /\ End(step.client, Denial(step.client, "presence-rejected"))
        /\ now' \in Nat /\ epoch' \in Nat /\ Resumes /\ saves' = saves /\ UNCHANGED <<saving, acl, disk>>
    BY <1>3 DEF ProofFails, access, Resumes, Inv, Typed
  <2>3. Sent(Denial(step.client, "presence-rejected")) =>
          Denial(step.client, "presence-rejected") \in Denials /\ ~pairing[step.client].committing
    BY DEF Sent, Denial, Denials
  <2> QED BY <2>1, <2>2, <2>3, EndKeeps
<1>4. CASE SaveMoot
  <2> DEFINE c == Head(saves).client
  <2>1. now' \in Nat /\ epoch' \in Nat /\ Resumes /\ saves # <<>> /\ saves' = Tail(saves) /\ UNCHANGED <<saving, acl, disk>>
    BY <1>4 DEF SaveMoot, Resumes, Inv, Typed
  <2>2. CASE UNCHANGED <<codes, ceremony>>
    BY <2>1, <2>2, StillKeeps DEF codes, ceremony
  <2>3. CASE Is(c, Head(saves).invite) /\ End(c, Denial(c, "invitation-expired"))
    <3>1. c \in Clients
      <4>1. saves \in Seq(Jobs) /\ saves # <<>>
        BY <2>1 DEF Inv, Typed
      <4>2. Head(saves) \in Jobs
        BY <4>1, HeadTailProperties
      <4> QED BY <4>2 DEF Jobs
    <3>2. c \in Pending
      BY <2>3, <3>1 DEF Is, Pending
    <3>3. Sent(Denial(c, "invitation-expired")) =>
            Denial(c, "invitation-expired") \in Denials /\ ~pairing[c].committing
      BY DEF Sent, Denial, Denials
    <3> HIDE DEF c
    <3> QED BY <2>1, <2>3, <3>2, <3>3, EndKeeps
  <2> QED BY <1>4, <2>2, <2>3 DEF SaveMoot
<1> QED BY <1>1, <1>2, <1>3, <1>4

\* A proof is taken up, or found to be about a ceremony that is gone.
LEMMA ProofKeeps ==
  ASSUME Apart, Inv, (\E c \in Clients : ProofBegins(c)) \/ ProofMoot
  PROVE  Inv'
<1>1. ASSUME NEW c \in Clients, ProofBegins(c) PROVE Inv'
  <2>1. pairing[c].invite \in Ids
    BY <1>1 DEF ProofBegins, Inv, Typed, Rows
  <2>2. step' \in Steps /\ step'.kind = "proof"
    BY <1>1, <2>1 DEF ProofBegins, Steps, Inv, Typed
  <2> QED BY <1>1, <2>2, StillKeeps DEF ProofBegins, codes, ceremony, access, Resumes, Inv, Typed
<1>2. CASE ProofMoot
  BY <1>2, StillKeeps DEF ProofMoot, codes, ceremony, access, Resumes, Inv, Typed
<1> QED BY <1>1, <1>2

\* A flag of one ceremony is set: which codes are where is as it was.
Flagged(c) ==
  /\ c \in Pending
  /\ pairing' \in [Clients -> Rows \cup {None}]
  /\ \A d \in Clients \ {c} : pairing'[d] = pairing[d]
  /\ pairing'[c] # None /\ pairing'[c].invite = pairing[c].invite
  /\ pairing[c].attempted => pairing'[c].attempted
  /\ pairing[c].committing => pairing'[c].committing

\* So no code moves and no answer changes.
LEMMA FlagKeeps ==
  ASSUME Apart, Inv, NEW c, Flagged(c), UNCHANGED <<now, epoch, invite, told, acl, disk>>, step' \in {step, None}
  PROVE  /\ Pending' = Pending /\ CodesAreSound' /\ AnswerMatchesAccess'
         /\ \A d \in Pending : pairing'[d].invite = pairing[d].invite
         /\ \A d \in Pending : pairing[d].attempted => pairing'[d].attempted
         /\ \A d \in Pending : pairing[d].committing => pairing'[d].committing
<1>1. Pending' = Pending
  BY DEF Flagged, Pending
<1>2. /\ \A d \in Pending : pairing'[d].invite = pairing[d].invite
      /\ \A d \in Pending : pairing[d].attempted => pairing'[d].attempted
      /\ \A d \in Pending : pairing[d].committing => pairing'[d].committing
  BY DEF Flagged, Pending
<1> QED BY <1>1, <1>2 DEF Inv, CodesAreSound, AnswerMatchesAccess, Used

\* The proof holds: the person at the machine is asked.
LEMMA ProofHoldsKeeps ==
  ASSUME Apart, Inv, ProofHolds
  PROVE  Inv'
<1>1. Flagged(step.client)
  <2>1. step.client \in Clients /\ pairing[step.client] \in Rows /\ pairing[step.client] # None
    BY DEF ProofHolds, Is, Inv, Typed, Steps
  <2>2. [pairing[step.client] EXCEPT !.approval = TRUE] \in Rows
    BY <2>1 DEF Rows
  <2>3. pairing' = [pairing EXCEPT ![step.client] = [pairing[step.client] EXCEPT !.approval = TRUE]]
    BY DEF ProofHolds
  <2>4. /\ [pairing[step.client] EXCEPT !.approval = TRUE].invite = pairing[step.client].invite
        /\ [pairing[step.client] EXCEPT !.approval = TRUE].attempted = pairing[step.client].attempted
        /\ [pairing[step.client] EXCEPT !.approval = TRUE].committing = pairing[step.client].committing
    BY <2>1 DEF Rows
  <2> QED BY <2>1, <2>2, <2>3, <2>4 DEF Flagged, Pending, Apart, Inv, Typed
<1>2. UNCHANGED <<now, epoch, invite, told, acl, disk, saves, saving>> /\ step' = None
  BY DEF ProofHolds, codes, access
<1>3. Typed'
  BY <1>1, <1>2 DEF Flagged, Inv, Typed
<1>4. SavesAreSound'
  BY <1>1, <1>2, FlagKeeps DEF Inv, SavesAreSound, Used
<1> QED BY <1>1, <1>2, <1>3, <1>4, FlagKeeps DEF Inv

\* The answer is yes: the approval is queued, the first for its code.
LEMMA ApproveKeeps ==
  ASSUME Apart, Inv, NEW c \in Clients, Approve(c)
  PROVE  Inv'
<1> DEFINE i == pairing[c].invite
           job == [client |-> c, invite |-> i]
<1>1. c \in Pending /\ pairing[c] \in Rows /\ ~pairing[c].attempted /\ i \in Ids
  BY DEF Approve, Answerable, Is, Pending, Inv, Typed, Rows
<1>2. /\ saves' = Append(saves, job) /\ pairing' = [pairing EXCEPT ![c].attempted = TRUE]
      /\ UNCHANGED <<now, epoch, invite, step, told, saving, acl, disk>>
  BY DEF Approve, codes
<1>3. Flagged(c) /\ pairing'[c].attempted
  <2>1. [pairing[c] EXCEPT !.attempted = TRUE] \in Rows
    BY <1>1 DEF Rows
  <2>2. pairing' = [pairing EXCEPT ![c] = [pairing[c] EXCEPT !.attempted = TRUE]]
    BY <1>2
  <2>3. /\ [pairing[c] EXCEPT !.attempted = TRUE].invite = i
        /\ [pairing[c] EXCEPT !.attempted = TRUE].attempted
        /\ [pairing[c] EXCEPT !.attempted = TRUE].committing = pairing[c].committing
    BY <1>1 DEF Rows
  <2> QED BY <1>1, <2>1, <2>2, <2>3 DEF Flagged, Apart, Inv, Typed
<1>4. /\ Pending' = Pending /\ CodesAreSound' /\ AnswerMatchesAccess'
      /\ \A d \in Pending : pairing'[d].invite = pairing[d].invite
      /\ \A d \in Pending : pairing[d].attempted => pairing'[d].attempted
      /\ \A d \in Pending : pairing[d].committing => pairing'[d].committing
  BY <1>2, <1>3, FlagKeeps
<1>5. /\ saves \in Seq(Jobs) /\ job \in Jobs /\ saves' \in Seq(Jobs) /\ Len(saves') = Len(saves) + 1
      /\ saves'[Len(saves) + 1] = job /\ \A n \in 1 .. Len(saves) : saves'[n] = saves[n]
  <2>1. saves \in Seq(Jobs) /\ job \in Jobs
    BY <1>1 DEF Jobs, Inv, Typed
  <2> QED BY <1>2, <2>1, AppendProperties
<1>6. Typed'
  BY <1>2, <1>3, <1>5 DEF Flagged, Inv, Typed
<1>7. job.client = c /\ job.invite = i
  OBVIOUS
<1> HIDE DEF i, job
<1>8. /\ Used(i) /\ i \notin disk /\ \A d \in Pending : pairing[d].invite = i => d = c
      /\ \A n \in 1 .. Len(saves) : saves[n].invite # i
      /\ saving # None => saving.invite # i
  BY <1>1 DEF i, Inv, CodesAreSound, SavesAreSound
<1>9. SavesAreSound'
  <2>1. Len(saves) \in Nat /\ 1 .. Len(saves') = 1 .. Len(saves) \cup {Len(saves) + 1}
    BY <1>5
  <2>2. \A n \in 1 .. Len(saves') :
          /\ Used(saves[n].invite) \/ n = Len(saves) + 1
          /\ saves'[n].invite \notin disk /\ invite[saves'[n].invite] \in {"reserved", "gone"}
    BY <1>5, <1>7, <1>8, <2>1 DEF Inv, SavesAreSound, Used
  <2>3. \A n, m \in 1 .. Len(saves') : saves'[m].invite = saves'[n].invite => m = n
    BY <1>5, <1>7, <1>8, <2>1 DEF Inv, SavesAreSound
  <2>4. \A n \in 1 .. Len(saves'), d \in Pending :
          pairing'[d].invite = saves'[n].invite => d = saves'[n].client /\ pairing'[d].attempted
    BY <1>3, <1>4, <1>5, <1>7, <1>8, <2>1 DEF Inv, SavesAreSound
  <2>5. saving # None =>
          /\ Used(saving.invite) /\ saving.invite \notin disk /\ saving.next = acl \cup {saving.invite}
          /\ told[saving.invite] = None
          /\ \A n \in 1 .. Len(saves') : saves'[n].invite # saving.invite
          /\ \A d \in Pending : pairing'[d].invite = saving.invite =>
               d = saving.client /\ pairing'[d].attempted /\ pairing'[d].committing
    BY <1>4, <1>5, <1>7, <1>8, <2>1 DEF Inv, SavesAreSound
  <2> QED BY <1>2, <1>4, <2>2, <2>3, <2>4, <2>5 DEF SavesAreSound, Used
<1> QED BY <1>4, <1>6, <1>9 DEF Inv

\* A save begins: the ceremony of its code is committing.
LEMMA SaveBeginsKeeps ==
  ASSUME Apart, Inv, SaveBegins
  PROVE  Inv'
<1> DEFINE job == Head(saves)
           c == job.client
           i == job.invite
<1>1. /\ saves \in Seq(Jobs) /\ job \in Jobs /\ job = saves[1] /\ 1 \in 1 .. Len(saves)
      /\ saves' \in Seq(Jobs) /\ \A n \in 1 .. Len(saves') : n + 1 \in 1 .. Len(saves) /\ saves'[n] = saves[n + 1]
  <2>1. saves \in Seq(Jobs) /\ saves # <<>> /\ saves' = Tail(saves)
    BY DEF SaveBegins, Inv, Typed
  <2> QED BY <2>1, HeadTailProperties
<1>2. c \in Clients /\ i \in Ids
  BY <1>1 DEF Jobs
<1>3. /\ Is(c, i) /\ pairing' = [pairing EXCEPT ![c].committing = TRUE]
      /\ saving' = [client |-> c, invite |-> i, next |-> acl \cup {i}] /\ saving = None
      /\ UNCHANGED <<now, epoch, invite, step, told, acl, disk>>
  BY DEF SaveBegins, codes
<1> HIDE DEF job, c, i
<1>4. c \in Pending /\ pairing[c] \in Rows /\ pairing[c].invite = i
  BY <1>2, <1>3 DEF Is, Pending, Inv, Typed
<1>5. Flagged(c) /\ pairing'[c].committing
  <2>1. [pairing[c] EXCEPT !.committing = TRUE] \in Rows
    BY <1>4 DEF Rows
  <2>2. pairing' = [pairing EXCEPT ![c] = [pairing[c] EXCEPT !.committing = TRUE]]
    BY <1>3
  <2>3. /\ [pairing[c] EXCEPT !.committing = TRUE].invite = pairing[c].invite
        /\ [pairing[c] EXCEPT !.committing = TRUE].attempted = pairing[c].attempted
        /\ [pairing[c] EXCEPT !.committing = TRUE].committing
    BY <1>4 DEF Rows
  <2> QED BY <1>2, <1>4, <2>1, <2>2, <2>3 DEF Flagged, Apart, Inv, Typed
<1>6. /\ Pending' = Pending /\ CodesAreSound' /\ AnswerMatchesAccess'
      /\ \A d \in Pending : pairing'[d].invite = pairing[d].invite
      /\ \A d \in Pending : pairing[d].attempted => pairing'[d].attempted
  BY <1>3, <1>5, FlagKeeps
<1>7. saving' \in Writes /\ saving'.client = c /\ saving'.invite = i /\ saving'.next = acl \cup {i}
  BY <1>2, <1>3 DEF Writes, Inv, Typed
<1>8. Typed'
  BY <1>1, <1>3, <1>5, <1>7 DEF Flagged, Inv, Typed
<1>9. /\ Used(i) /\ i \notin disk /\ told[i] = None /\ pairing[c].attempted
      /\ \A d \in Pending : pairing[d].invite = i => d = c
      /\ \A n \in 1 .. Len(saves) : saves[n].invite = i => n = 1
  BY <1>1, <1>4 DEF i, Inv, CodesAreSound, SavesAreSound
<1>10. SavesAreSound'
  <2>1. \A n \in 1 .. Len(saves') :
          /\ Used(saves[n + 1].invite) /\ saves'[n].invite \notin disk /\ saves'[n] = saves[n + 1]
          /\ saves'[n].invite # i
    BY <1>1, <1>9 DEF Inv, SavesAreSound
  <2>2. \A n, m \in 1 .. Len(saves') : saves'[m].invite = saves'[n].invite => m = n
    <3> SUFFICES ASSUME NEW n \in 1 .. Len(saves'), NEW m \in 1 .. Len(saves'), saves'[m].invite = saves'[n].invite
                 PROVE  m = n
      OBVIOUS
    <3>1. m + 1 = n + 1
      BY <1>1 DEF Inv, SavesAreSound
    <3> QED BY <3>1
  <2>3. \A n \in 1 .. Len(saves'), d \in Pending :
          pairing'[d].invite = saves'[n].invite => d = saves'[n].client /\ pairing'[d].attempted
    BY <1>1, <1>6 DEF Inv, SavesAreSound
  <2>4. \A d \in Pending : pairing'[d].invite = i => d = c /\ pairing'[d].attempted /\ pairing'[d].committing
    BY <1>5, <1>6, <1>9
  <2> QED BY <1>3, <1>6, <1>7, <1>9, <2>1, <2>2, <2>3, <2>4 DEF SavesAreSound, Used
<1> QED BY <1>6, <1>8, <1>10 DEF Inv

\* It ends: the phone, if it is still there, is told what was written.
LEMMA SaveEndsKeeps ==
  ASSUME Apart, Inv, SaveDone \/ SaveFails
  PROVE  Inv'
<1> DEFINE i == saving.invite
           c == saving.client
<1>1. saving # None /\ saving' = None /\ UNCHANGED <<now, epoch, step, saves>>
  BY DEF SaveDone, SaveFails
<1>2. /\ i \in Ids /\ c \in Clients /\ i \notin disk /\ disk = acl /\ saving.next = acl \cup {i}
      /\ \A d \in Pending : pairing[d].invite = i => d = c /\ pairing[d].committing
  BY <1>1 DEF Inv, Typed, SavesAreSound, Writes
<1>3. PICK code \in {"ok", "burrow-error"} :
        /\ AnswerSave(code) /\ disk' = acl' /\ acl' = IF code = "ok" THEN acl \cup {i} ELSE acl
  BY <1>2 DEF SaveDone, SaveFails
<1>4. now' \in Nat /\ epoch' \in Nat /\ Resumes /\ acl' \in {acl, acl \cup {i}}
  BY <1>1, <1>3 DEF Resumes, Inv, Typed
<1>5. CASE ~Is(c, i)
  <2>1. \A d \in Pending : pairing[d].invite # i
    BY <1>2, <1>5 DEF Is, Pending
  <2>2. UNCHANGED <<invite, pairing, told>>
    BY <1>3, <1>5 DEF AnswerSave, codes, ceremony
  <2>3. {} \in SUBSET Pending /\ pairing' = [d \in Clients |-> IF d \in {} THEN None ELSE pairing[d]]
    BY <2>2 DEF Inv, Typed
  <2>4. Forward /\ told' \in [Ids -> Denials \cup {"ok", None}]
    BY <2>2 DEF Forward, Used, Inv, Typed
  <2> QED BY <1>1, <1>3, <1>4, <2>1, <2>2, <2>3, <2>4, EndingKeeps
<1>6. CASE Is(c, i)
  <2> DEFINE all == {c} \cup LateClients
             each == Expiry({c}, code)
  <2>1. Ceremonies(all, each) /\ Retire(all, each, LateInvites, "expired")
    BY <1>3, <1>6 DEF AnswerSave, EndAndReap
  <2>2. c \in Pending /\ all \in SUBSET Pending
    BY <1>2, <1>6 DEF Is, Pending, LateClients
  <2>3. /\ each[c] = code
        /\ \A d \in all \ {c} : each[d] = Denial(d, "invitation-expired")
    BY DEF Expiry
  <2> HIDE DEF all, each, c, i
  <2>4. \A d \in all \ {c} : Sent(each[d]) => each[d] = "invitation-expired"
    BY <2>3 DEF Denial, Sent
  <2>5. Answers(all, each)
    BY <1>3, <2>3, <2>4 DEF Answers, Denials
  <2>6. Heard(all, each) /\ Forward
    BY <2>1, <2>2, <2>5, Answered, RetireMoves
  <2>7. \A j \in Ids : told'[j] # told[j] =>
          /\ \E d \in all : pairing[d].invite = j
          /\ told'[j] = "ok" => j \in disk'
          /\ told'[j] \in Denials => j \notin disk'
    <3> SUFFICES ASSUME NEW j \in Ids, told'[j] # told[j]
                 PROVE  /\ \E d \in all : pairing[d].invite = j
                        /\ told'[j] = "ok" => j \in disk'
                        /\ told'[j] \in Denials => j \notin disk'
      OBVIOUS
    <3>1. PICK d \in all : pairing[d].invite = j /\ Sent(each[d]) /\ told'[j] = each[d]
      BY <2>6 DEF Heard
    <3>2. "ok" \notin Denials
      BY DEF Denials
    <3>3. CASE d = c
      <4>1. j = i
        BY <1>6, <3>1, <3>3 DEF Is
      <4> QED BY <1>2, <1>3, <2>3, <3>1, <3>2, <3>3, <4>1
    <3>4. CASE d # c
      <4>1. told'[j] = "invitation-expired" /\ j # i /\ j \notin disk
        BY <1>2, <2>2, <2>4, <3>1, <3>4 DEF Inv, CodesAreSound
      <4> QED BY <1>2, <1>3, <3>1, <4>1
    <3> QED BY <3>3, <3>4
  <2>8. \A d \in Pending : pairing[d].invite = saving.invite => d \in all
    BY <1>2 DEF all, c, i
  <2>9. acl' \in {acl, acl \cup {saving.invite}}
    BY <1>4 DEF i
  <2> QED BY <1>1, <1>3, <1>4, <2>2, <2>6, <2>7, <2>8, <2>9, EndingKeeps DEF Heard
<1> QED BY <1>5, <1>6

-----------------------------------------------------------------------------
\* Whatever happens.
LEMMA InvStep == Apart /\ Inv /\ [Next]_vars => Inv'
<1> SUFFICES ASSUME Apart, Inv, [Next]_vars PROVE Inv'
  OBVIOUS
<1>1. CASE UNCHANGED vars
  BY <1>1, StillKeeps DEF vars, Resumes, Inv, Typed
<1>2. CASE Next
  BY <1>2, SocketKeeps, MintKeeps, InitKeeps, InitDoneKeeps, RefusedKeeps, ProofKeeps, ProofHoldsKeeps, ApproveKeeps,
     SaveBeginsKeeps, SaveEndsKeeps DEF Next
<1> QED BY <1>1, <1>2

\* A phone told it is paired is in the store and one told it is not never gets
\* in, whichever of the answer at the machine, the save, the expiry, a newer
\* phone and the end of the socket comes first (approvePairing, finishPairing).
THEOREM PhonesHearTheTruth ==
  ASSUME Apart
  PROVE  Spec => []AnswerMatchesAccess
<1>1. Inv => AnswerMatchesAccess
  BY DEF Inv
<1> QED BY <1>1, InitInv, InvStep, PTL DEF Spec

-----------------------------------------------------------------------------
(* What a Burrow holds, and the order in which its panel hears of it.        *)

\* A handler or a mint that awaits knows the epoch it began in; no socket is
\* older than what it left behind.
ControlIsSound ==
  /\ status \in {"up", "down", "stopped"} /\ now \in 0 .. MaxTime /\ epoch \in 0 .. MaxEpochs
  /\ minting \in [Minters -> 0 .. MaxEpochs \cup {None}]
  /\ step \in [kind : {"init", "proof"}, client : Clients, invite : Ids, epoch : 0 .. MaxEpochs] \cup {None}
  /\ step # None => step.epoch <= epoch /\ (status # "up" => step.epoch < epoch)
  /\ \A m \in Minters : minting[m] # None =>
       minting[m] <= epoch /\ (status = "stopped" => minting[m] < epoch)

\* A code that is reserved has its ceremony, a proof that is being checked has
\* not been asked about, and the caps count finitely many.
CeremoniesAreSound ==
  /\ pairing \in [Clients -> Pairings \cup {None}]
  /\ \A i \in Ids : invite[i] = "reserved" => \E c \in Pending : pairing[c].invite = i
  /\ modal \in [Clients -> Ids \cup {None}] /\ ModalIsPending
  /\ step # None /\ step.kind = "proof" /\ Is(step.client, step.invite) => ~pairing[step.client].approval
  /\ StoppedHoldsNothing
  /\ IsFiniteSet(Pending) /\ WithinCaps

\* The timer is a time, and soon enough.
TimerIsSound ==
  /\ expiresAt \in [Ids -> 0 .. MaxTime + TTL] /\ reaperAt \in 0 .. MaxTime + TTL \cup {None}
  /\ ReaperCovers

\* The panel has heard where each code is.
PanelIsSound ==
  /\ announced \in [Ids -> {None, "reserved", "consumed", "expired", "dropped"}]
  /\ outcome \in [Ids -> Outcomes \cup {None}]
  /\ \A i \in Ids : /\ invite[i] \in {"unminted", "live"} => announced[i] = None
                    /\ invite[i] = "reserved" => announced[i] = "reserved"

Holds == ControlIsSound /\ CeremoniesAreSound /\ TimerIsSound /\ PanelIsSound

\* It starts so.
LEMMA InitHolds == Apart /\ Init => Holds
<1> SUFFICES ASSUME Apart, Init PROVE Holds
  OBVIOUS
<1> USE BoundsAssumption
<1>1. Pending = {} /\ Held = {} /\ Deadlines(invite, pairing, expiresAt) = {}
  BY DEF Init, Pending, Held, Deadlines
<1>2. ControlIsSound
  BY DEF Init, ControlIsSound, Apart
<1>3. CeremoniesAreSound
  BY <1>1, FS_EmptySet DEF Init, CeremoniesAreSound, ModalIsPending, StoppedHoldsNothing, WithinCaps, Is
<1>4. TimerIsSound
  BY <1>1 DEF Init, TimerIsSound, ReaperCovers
<1>5. PanelIsSound
  BY DEF Init, PanelIsSound
<1> QED BY <1>2, <1>3, <1>4, <1>5 DEF Holds

\* The epoch moves with every teardown, so what awaited one is older.
LEMMA ControlStep ==
  ASSUME Apart, Inv, Holds, Next
  PROVE  ControlIsSound'
<1> USE BoundsAssumption DEF ControlIsSound, Holds
<1>1. CASE Close \/ Stop
  BY <1>1 DEF Close, Stop, DropTransientState, Apart
<1>2. CASE Opens \/ ReaperFires \/ OtherInit \/ SaveMoot \/ SaveBegins \/ SaveDone \/ SaveFails
  BY <1>2 DEF Opens, ReaperFires, OtherInit, SaveMoot, SaveBegins, SaveDone, SaveFails
<1>3. CASE Tick
  BY <1>3 DEF Tick
<1>4. ASSUME NEW m \in Minters, MintBegins(m) \/ MintRefused(m) \/ MintDone(m) PROVE ControlIsSound'
  <2>1. UNCHANGED <<status, now, epoch, step>>
    BY <1>4 DEF MintBegins, MintRefused, MintDone
  <2>2. CASE MintBegins(m)
    BY <2>1, <2>2 DEF MintBegins, Apart
  <2>3. CASE MintRefused(m) \/ MintDone(m)
    <3>1. minting' = [minting EXCEPT ![m] = None]
      BY <2>3 DEF MintRefused, MintDone
    <3> QED BY <2>1, <3>1
  <2> QED BY <1>4, <2>2, <2>3
<1>5. CASE InitFails \/ InitDone \/ ProofHolds \/ ProofFails \/ ProofMoot
  BY <1>5 DEF InitFails, InitDone, ProofHolds, ProofFails, ProofMoot
<1>6. ASSUME NEW c \in Clients, NEW i \in Ids, InitBegins(c, i) PROVE ControlIsSound'
  BY <1>6 DEF InitBegins, Idle, Apart
<1>7. ASSUME NEW c \in Clients, ProofBegins(c) PROVE ControlIsSound'
  <2>1. pairing[c].invite \in Ids
    BY <1>7 DEF ProofBegins, Inv, Typed, Rows
  <2> QED BY <1>7, <2>1 DEF ProofBegins, Idle, Apart
<1>8. ASSUME NEW c \in Clients,
             \/ TransportLate(c) \/ TransportPoisoned(c) \/ TransportMalformed(c) \/ ClientGone(c)
             \/ ApproveRefused(c) \/ Approve(c) \/ Deny(c)
      PROVE  ControlIsSound'
  BY <1>8 DEF TransportLate, TransportPoisoned, TransportMalformed, ClientGone, ApproveRefused, Approve, Deny
<1> QED BY <1>1, <1>2, <1>3, <1>4, <1>5, <1>6, <1>7, <1>8 DEF Next

-----------------------------------------------------------------------------
\* A set of times has its soonest.
LEMMA MinIsIn ==
  ASSUME NEW S \in SUBSET Nat, S # {}
  PROVE  Min(S) \in S /\ \A x \in S : Min(S) <= x
<1>1. IsWellFoundedOn(OpToRel(<, Nat), Nat)
  BY NatLessThanWellFounded
<1>2. PICK x \in S : \A y \in S : ~ (<<y, x>> \in OpToRel(<, Nat))
  BY <1>1, WFMin
<1>3. \A y \in S : ~ (y < x)
  BY <1>2 DEF OpToRel
<1>4. \A y \in S : x <= y
  BY <1>3
<1> QED BY <1>4 DEF Min

\* The timer that is armed is soon enough for all that is due.
LEMMA ArmedCovers ==
  ASSUME Apart, NEW due \in SUBSET Nat, NEW old \in Nat \cup {None}
  PROVE  /\ Armed(old, due) \in due \cup {old, None}
         /\ due = {} => Armed(old, due) = None
         /\ \A t \in due : Armed(old, due) # None /\ Armed(old, due) <= t
<1>1. CASE due = {}
  BY <1>1 DEF Armed
<1>2. CASE due # {}
  <2>1. Min(due) \in due /\ \A x \in due : Min(due) <= x
    BY <1>2, MinIsIn
  <2>2. Min(due) \in Nat /\ Min(due) # None
    BY <2>1 DEF Apart
  <2>3. CASE old # None /\ Min(due) >= old
    <3>1. Armed(old, due) = old /\ old \in Nat
      BY <1>2, <2>3 DEF Armed
    <3>2. \A t \in due : old <= t
      BY <2>1, <2>2, <2>3, <3>1
    <3> QED BY <1>2, <2>3, <3>1, <3>2
  <2>4. CASE ~(old # None /\ Min(due) >= old)
    <3>1. Armed(old, due) = Min(due)
      BY <1>2, <2>4 DEF Armed
    <3> QED BY <1>2, <2>1, <2>2, <3>1
  <2> QED BY <2>3, <2>4
<1> QED BY <1>1, <1>2

\* armReaper leaves a timer for all that is due.
LEMMA TimerStep ==
  ASSUME Apart, TimerIsSound, NEW old \in {reaperAt, None}, ArmReaper(old, expiresAt'),
         expiresAt' \in [Ids -> 0 .. MaxTime + TTL], pairing' \in [Clients -> Pairings \cup {None}]
  PROVE  /\ TimerIsSound'
         /\ Held' = {} /\ Pending' = {} => reaperAt' = None
<1> USE BoundsAssumption
<1> DEFINE due == Deadlines(invite', pairing', expiresAt')
<1>1. due \in SUBSET (0 .. MaxTime + TTL)
  BY DEF Deadlines, Pairings
<1>2. due \in SUBSET Nat /\ old \in Nat \cup {None} /\ reaperAt' = Armed(old, due)
  BY <1>1 DEF TimerIsSound, ArmReaper
<1>3. Held' = {} /\ Pending' = {} => due = {}
  BY DEF Held, Pending, Deadlines
<1>4. \A t \in due : reaperAt' # None /\ reaperAt' <= t
  <2> HIDE DEF due
  <2> QED BY <1>2, ArmedCovers
<1>5. reaperAt' \in due \cup {old, None} /\ (due = {} => reaperAt' = None)
  <2> HIDE DEF due
  <2> QED BY <1>2, ArmedCovers
<1>6. reaperAt' \in 0 .. MaxTime + TTL \cup {None}
  BY <1>1, <1>5 DEF TimerIsSound
<1> QED BY <1>3, <1>4, <1>5, <1>6 DEF TimerIsSound, ReaperCovers

\* A timer that was soon enough still is when less is due.
LEMMA TimerStays ==
  ASSUME Apart, TimerIsSound, UNCHANGED <<expiresAt, reaperAt>>, Held' \subseteq Held, Pending' \subseteq Pending,
         \A c \in Pending' : pairing'[c].invite = pairing[c].invite
  PROVE  TimerIsSound'
<1>1. Deadlines(invite', pairing', expiresAt') \subseteq Deadlines(invite, pairing, expiresAt)
  <2>1. {expiresAt'[i] : i \in Held'} \subseteq {expiresAt[i] : i \in Held}
    OBVIOUS
  <2>2. {expiresAt'[pairing'[c].invite] : c \in Pending'} \subseteq {expiresAt[pairing[c].invite] : c \in Pending}
    OBVIOUS
  <2> QED BY <2>1, <2>2 DEF Deadlines, Held, Pending
<1> QED BY <1>1 DEF TimerIsSound, ReaperCovers

-----------------------------------------------------------------------------
\* What the panel is told comes from its vocabulary.
LEMMA OutcomeTyped ==
  ASSUME NEW code
  PROVE  OutcomeFor(code) \in Outcomes \cup {None}
BY DEF OutcomeFor, Outcomes

\* What the panel hears in a step follows what it heard before.
PanelFollows == \A i \in Ids : Follows(announced[i], announced'[i])

\* Ceremonies that end take their questions with them.
CeremoniesShed ==
  /\ pairing' \in [Clients -> Pairings \cup {None}] /\ modal' \in [Clients -> Ids \cup {None}]
  /\ Pending' \subseteq Pending
  /\ \A c \in Pending' : pairing'[c] = pairing[c]
  /\ ModalIsPending'

\* Ceremonies that end together leave no question and no pairing behind.
LEMMA CeremoniesEnd ==
  ASSUME Apart, CeremoniesAreSound, NEW cs \in SUBSET Pending, NEW code, Ceremonies(cs, code)
  PROVE  CeremoniesShed /\ Pending' = Pending \ cs
<1>1. /\ \A c \in Clients : pairing'[c] = IF c \in cs THEN None ELSE pairing[c]
      /\ \A c \in Clients : modal'[c] = IF c \in cs THEN None ELSE modal[c]
      /\ pairing' \in [Clients -> Pairings \cup {None}] /\ modal' \in [Clients -> Ids \cup {None}]
  BY DEF Ceremonies, CeremoniesAreSound
<1>2. Pending' = Pending \ cs /\ \A c \in Pending' : pairing'[c] = pairing[c]
  BY <1>1 DEF Pending
<1>3. ModalIsPending'
  BY <1>1, <1>2 DEF CeremoniesAreSound, ModalIsPending, Pending
<1> QED BY <1>1, <1>2, <1>3 DEF CeremoniesShed

\* Ceremonies end and codes are retired, and nothing else about either changes.
Sheds ==
  /\ CeremoniesShed
  /\ Held' \subseteq Held
  /\ \A i \in Ids : invite'[i] = "reserved" => \E c \in Pending' : pairing[c].invite = i
  /\ PanelIsSound' /\ PanelFollows

\* A scan is reported with its end; a code no phone has scanned ends as stated.
LEMMA EndingSheds ==
  ASSUME Apart, Inv, Holds, NEW cs \in SUBSET Pending, NEW code, NEW is, NEW label,
         Ceremonies(cs, code), Retire(cs, code, is, label),
         is = {} \/ label \in {"expired", "dropped"}
  PROVE  Sheds
<1> DEFINE over == Spent(cs) \cup (is \cap Held)
<1>1. /\ \A i \in Ids : invite'[i] = IF i \in over THEN "gone" ELSE invite[i]
      /\ \A i \in Ids : announced'[i] = IF i \in over THEN RetiredAs(i, IF i \in Spent(cs) THEN "consumed" ELSE label)
                                        ELSE announced[i]
      /\ announced' = [i \in Ids |-> announced'[i]]
  BY DEF Retire
<1>2. outcome' \in [Ids -> Outcomes \cup {None}]
  BY OutcomeTyped DEF Retire, Holds, PanelIsSound
<1>3. Spent(cs) \subseteq Held /\ over \subseteq Held /\ \A i \in Spent(cs) : invite[i] = "reserved"
  <2>1. \A i \in Spent(cs) : i \in Held /\ \E c \in Pending : pairing[c].invite = i
    BY DEF Spent
  <2> QED BY <2>1 DEF Held, Inv, CodesAreSound, Used
<1> HIDE DEF over
<1>4. CeremoniesShed /\ Pending' = Pending \ cs
  BY CeremoniesEnd DEF Holds
<1>5. Held' \subseteq Held
  BY <1>1, <1>3 DEF Held
<1>6. \A i \in Ids : invite'[i] = "reserved" => \E c \in Pending' : pairing[c].invite = i
  <2> SUFFICES ASSUME NEW i \in Ids, invite'[i] = "reserved" PROVE \E c \in Pending' : pairing[c].invite = i
    OBVIOUS
  <2>1. invite[i] = "reserved" /\ i \notin over
    BY <1>1
  <2>2. PICK c \in Pending : pairing[c].invite = i
    BY <2>1 DEF Holds, CeremoniesAreSound
  <2>3. i \in Held
    BY <2>1 DEF Held
  <2>4. c \notin cs
    BY <2>1, <2>2, <2>3 DEF over, Spent
  <2> QED BY <1>4, <2>2, <2>4
<1>7. ASSUME NEW i \in over
      PROVE  /\ i \in Ids /\ invite'[i] = "gone"
             /\ \/ invite[i] = "reserved" /\ announced[i] = "reserved" /\ announced'[i] = "consumed"
                \/ invite[i] = "live" /\ announced[i] = None /\ announced'[i] \in {"expired", "dropped"}
  <2>1. i \in Held /\ i \in Ids /\ invite[i] \in {"live", "reserved"}
    BY <1>3 DEF Held
  <2>2. invite[i] = "live" => i \in is /\ i \notin Spent(cs)
    BY <1>3 DEF over
  <2>3. CASE invite[i] = "reserved"
    BY <1>1, <2>1, <2>3 DEF RetiredAs, Holds, PanelIsSound
  <2>4. CASE invite[i] = "live"
    BY <1>1, <2>1, <2>2, <2>4 DEF RetiredAs, Holds, PanelIsSound
  <2> QED BY <2>1, <2>3, <2>4
<1>8. \A i \in Ids \ over : invite'[i] = invite[i] /\ announced'[i] = announced[i]
  BY <1>1
<1>9. announced' \in [Ids -> {None, "reserved", "consumed", "expired", "dropped"}]
  <2>1. \A i \in Ids : announced'[i] \in {None, "reserved", "consumed", "expired", "dropped"}
    BY <1>7, <1>8 DEF Holds, PanelIsSound
  <2> QED BY <1>1, <2>1
<1>10. PanelIsSound'
  BY <1>2, <1>7, <1>8, <1>9 DEF Holds, PanelIsSound
<1>11. PanelFollows
  BY <1>7, <1>8 DEF PanelFollows, Follows
<1> QED BY <1>4, <1>5, <1>6, <1>10, <1>11 DEF Sheds

\* Nothing about codes and ceremonies changes.
LEMMA NothingSheds ==
  ASSUME Apart, Holds, UNCHANGED <<codes, ceremony>>
  PROVE  Sheds
BY DEF codes, ceremony, Holds, CeremoniesAreSound, PanelIsSound, Sheds, CeremoniesShed, ModalIsPending, Pending, Held,
       PanelFollows, Follows

\* The proof being checked, if there is one, is of a ceremony not asked about.
AsksOnce ==
  \/ step' \in {step, None}
  \/ step'.kind = "init"
  \/ ~pairing[step'.client].approval

\* What was sound stays so when ceremonies end: less is held, and the timer is
\* armed again, or was soon enough.
LEMMA ShedHolds ==
  ASSUME Apart, Inv, Holds, Sheds, ControlIsSound', AsksOnce, expiresAt' = expiresAt,
         \/ reaperAt' = reaperAt
         \/ \E old \in {reaperAt, None} : ArmReaper(old, expiresAt)
         \/ reaperAt' = None /\ Held' = {} /\ Pending' = {},
         status' = "stopped" => status = "stopped" \/ (Held' = {} /\ Pending' = {} /\ reaperAt' = None)
  PROVE  Holds'
<1> USE BoundsAssumption
<1>1. /\ pairing' \in [Clients -> Pairings \cup {None}] /\ modal' \in [Clients -> Ids \cup {None}]
      /\ Pending' \subseteq Pending /\ Held' \subseteq Held /\ \A c \in Pending' : pairing'[c] = pairing[c]
  BY DEF Sheds, CeremoniesShed
<1>2. TimerIsSound' /\ (Held' = {} /\ Pending' = {} /\ status = "stopped" => reaperAt' = None)
  <2>1. TimerIsSound /\ expiresAt' \in [Ids -> 0 .. MaxTime + TTL]
    BY DEF Holds, TimerIsSound
  <2>2. CASE reaperAt' = reaperAt
    BY <1>1, <2>1, <2>2, TimerStays DEF Holds, CeremoniesAreSound, StoppedHoldsNothing
  <2>3. ASSUME NEW old \in {reaperAt, None}, ArmReaper(old, expiresAt) PROVE TimerIsSound' /\ (Held' = {} /\ Pending' = {} => reaperAt' = None)
    BY <1>1, <2>1, <2>3, TimerStep
  <2>4. CASE reaperAt' = None /\ Held' = {} /\ Pending' = {}
    <3>1. Deadlines(invite', pairing', expiresAt') = {}
      BY <2>4 DEF Deadlines, Held, Pending
    <3> QED BY <2>1, <2>4, <3>1 DEF TimerIsSound, ReaperCovers
  <2> QED BY <2>2, <2>3, <2>4
<1>3. IsFiniteSet(Pending') /\ WithinCaps'
  <2>1. IsFiniteSet(Ids) /\ Held \subseteq Ids
    BY FS_Interval DEF Ids, Held
  <2>2. IsFiniteSet(Held) /\ IsFiniteSet(Pending)
    BY <2>1, FS_Subset DEF Holds, CeremoniesAreSound
  <2>3. IsFiniteSet(Pending') /\ Cardinality(Pending') <= Cardinality(Pending) /\ Cardinality(Held') <= Cardinality(Held)
    BY <1>1, <2>2, FS_Subset
  <2>4. Cardinality(Pending) \in Nat /\ Cardinality(Held) \in Nat
    BY <2>2, FS_CardinalityType
  <2>5. Cardinality(Pending') \in Nat /\ Cardinality(Held') \in Nat
    BY <1>1, <2>2, <2>3, FS_CardinalityType, FS_Subset
  <2>6. WithinCaps
    BY DEF Holds, CeremoniesAreSound
  <2> QED BY <2>3, <2>4, <2>5, <2>6 DEF WithinCaps
<1>4. StoppedHoldsNothing'
  <2> SUFFICES ASSUME status' = "stopped"
               PROVE  Held' = {} /\ Pending' = {} /\ reaperAt' = None /\ \A c \in Clients : modal'[c] = None
    BY DEF StoppedHoldsNothing
  <2>1. status = "stopped" => Held = {} /\ Pending = {}
    BY DEF Holds, CeremoniesAreSound, StoppedHoldsNothing
  <2>2. Held' = {} /\ Pending' = {} /\ reaperAt' = None
    BY <1>1, <1>2, <2>1
  <2> QED BY <2>2 DEF Sheds, CeremoniesShed, ModalIsPending
<1>5. \A i \in Ids : invite'[i] = "reserved" => \E c \in Pending' : pairing'[c].invite = i
  BY <1>1 DEF Sheds
<1>6. ASSUME step' # None, step'.kind = "proof", pairing'[step'.client] # None, pairing'[step'.client].invite = step'.invite
      PROVE  ~pairing'[step'.client].approval
  <2>1. step'.client \in Clients
    BY <1>6 DEF ControlIsSound
  <2>2. pairing'[step'.client] = pairing[step'.client] /\ pairing[step'.client] # None
    BY <1>1, <1>6, <2>1 DEF Pending
  <2> QED BY <1>6, <2>2 DEF AsksOnce, Holds, CeremoniesAreSound, Is
<1>7. CeremoniesAreSound'
  BY <1>1, <1>3, <1>4, <1>5, <1>6 DEF CeremoniesAreSound, Sheds, CeremoniesShed, Is
<1> QED BY <1>2, <1>7 DEF Holds, Sheds

-----------------------------------------------------------------------------
\* Codes are numbered, and finitely many.
LEMMA IdsAreFinite == IsFiniteSet(Ids) /\ Ids \subseteq Nat
<1>1. 1 \in Int /\ MaxMints \in Int
  BY BoundsAssumption
<1>2. IsFiniteSet(1 .. MaxMints)
  BY <1>1, FS_Interval
<1> QED BY <1>2 DEF Ids

\* The oldest make room for one more, however many there were.
LEMMA EvictionMakesRoom ==
  ASSUME NEW left \in SUBSET Nat, IsFiniteSet(left)
  PROVE  IsFiniteSet(left \ Evicted(left)) /\ Cardinality(left \ Evicted(left)) <= MaxTokens - 1
<1> USE BoundsAssumption
<1> DEFINE kept == left \ Evicted(left)
<1>1. kept \in SUBSET Nat /\ IsFiniteSet(kept)
  BY FS_Subset
<1>2. \A x \in kept : ~(Cardinality({y \in left : y > x}) >= MaxTokens - 1)
  BY DEF Evicted
<1> HIDE DEF kept
<1>3. CASE kept = {}
  BY <1>1, <1>3, FS_EmptySet DEF kept
<1>4. CASE kept # {}
  <2> DEFINE x == Min(kept)
             above == {y \in left : y > x}
  <2>1. x \in kept /\ \A y \in kept : x <= y
    BY <1>1, <1>4, MinIsIn
  <2> HIDE DEF x
  <2>2. kept \ {x} \in SUBSET above /\ above \in SUBSET left
    BY <1>1, <2>1 DEF kept
  <2>3. IsFiniteSet(above) /\ ~(Cardinality(above) >= MaxTokens - 1)
    BY <1>2, <2>1, <2>2, FS_Subset
  <2>4. Cardinality(above) \in Nat
    BY <2>3, FS_CardinalityType
  <2> HIDE DEF above
  <2>5. IsFiniteSet(kept \ {x}) /\ Cardinality(kept \ {x}) <= Cardinality(above)
    BY <2>2, <2>3, FS_Subset
  <2>6. Cardinality(kept \ {x}) = Cardinality(kept) - 1 /\ Cardinality(kept) \in Nat
    BY <1>1, <2>1, FS_RemoveElement, FS_CardinalityType
  <2>7. Cardinality(kept) <= MaxTokens - 1
    BY <2>3, <2>4, <2>5, <2>6
  <2> QED BY <1>1, <2>7 DEF kept
<1> QED BY <1>3, <1>4

\* A mint ends what is late, makes room, and shows its code.
LEMMA MintHolds ==
  ASSUME Apart, Inv, Holds, ControlIsSound', NEW m \in Minters, MintDone(m)
  PROVE  Holds' /\ PanelFollows
<1> USE BoundsAssumption
<1> DEFINE ended == Expiry({}, None)
           left == Held \ LateInvites
           retired == LateInvites \cup Evicted(left)
           over == Spent(LateClients) \cup retired
           Label(j) == IF j \in LateInvites THEN "expired" ELSE "dropped"
<1>1. PICK i \in Ids, e \in now .. now + TTL :
        /\ invite[i] = "unminted"
        /\ invite' = [j \in Ids |-> IF j = i THEN "live" ELSE IF j \in over THEN "gone" ELSE invite[j]]
        /\ announced' = [j \in Ids |-> IF j \in over THEN RetiredAs(j, Label(j)) ELSE announced[j]]
        /\ outcome' = [j \in Ids |-> IF j \in Spent(LateClients)
                                     THEN OutcomeFor(ended[CHOOSE c \in LateClients : pairing[c].invite = j])
                                     ELSE outcome[j]]
        /\ expiresAt' = [expiresAt EXCEPT ![i] = e]
  BY DEF MintDone
<1>2. Ceremonies(LateClients, ended) /\ ArmReaper(reaperAt, expiresAt') /\ UNCHANGED <<status, step>>
  BY DEF MintDone
<1>3. status # "stopped"
  BY DEF MintDone, Straddled, Holds, ControlIsSound
<1>4. LateClients \subseteq Pending /\ Spent(LateClients) \subseteq Held /\ over \subseteq Held
  BY DEF LateClients, Spent, LateInvites, Evicted
<1>5. \A j \in Spent(LateClients) : invite[j] = "reserved"
  <2>1. \A j \in Spent(LateClients) : j \in Held /\ \E c \in Pending : pairing[c].invite = j
    BY <1>4 DEF Spent
  <2> QED BY <2>1 DEF Held, Inv, CodesAreSound, Used
<1>6. LateInvites \subseteq Held /\ Evicted(left) \subseteq left
  BY DEF LateInvites, Evicted
<1>7. CeremoniesShed /\ Pending' = Pending \ LateClients
  BY <1>2, <1>4, CeremoniesEnd DEF Holds
<1> HIDE DEF ended
<1>8. TimerIsSound'
  <2>1. e \in 0 .. MaxTime + TTL
    BY DEF Holds, ControlIsSound
  <2>2. expiresAt' \in [Ids -> 0 .. MaxTime + TTL]
    BY <1>1, <2>1 DEF Holds, TimerIsSound
  <2> QED BY <1>2, <1>7, <2>2, TimerStep DEF Holds, CeremoniesShed
<1>9. Cardinality(Held') <= MaxTokens
  <2> DEFINE kept == left \ Evicted(left)
  <2>1. IsFiniteSet(left) /\ left \in SUBSET Nat
    <3>1. IsFiniteSet(Ids) /\ Ids \subseteq Nat
      BY IdsAreFinite
    <3>2. left \subseteq Ids
      BY DEF Held
    <3> QED BY <3>1, <3>2, FS_Subset
  <2>2. IsFiniteSet(kept) /\ Cardinality(kept) <= MaxTokens - 1
    <3> HIDE DEF left
    <3> QED BY <2>1, EvictionMakesRoom
  <2>3. Held' \subseteq kept \cup {i}
    BY <1>1 DEF Held
  <2> HIDE DEF kept
  <2>4. IsFiniteSet(kept \cup {i}) /\ Cardinality(kept \cup {i}) <= Cardinality(kept) + 1 /\ Cardinality(kept) \in Nat
    <3>1. IsFiniteSet(kept \cup {i})
      BY <2>2, FS_AddElement
    <3>2. Cardinality(kept) \in Nat
      BY <2>2, FS_CardinalityType
    <3>3. Cardinality(kept \cup {i}) = IF i \in kept THEN Cardinality(kept) ELSE Cardinality(kept) + 1
      BY <2>2, FS_AddElement
    <3> QED BY <3>1, <3>2, <3>3
  <2>5. Cardinality(Held') <= Cardinality(kept \cup {i}) /\ Cardinality(Held') \in Nat /\ Cardinality(kept \cup {i}) \in Nat
    BY <2>3, <2>4, FS_Subset, FS_CardinalityType
  <2> QED BY <2>2, <2>4, <2>5
<1>10. IsFiniteSet(Pending') /\ Cardinality(Pending') <= MaxPairings
  <2>1. IsFiniteSet(Pending) /\ Cardinality(Pending) <= MaxPairings
    BY DEF Holds, CeremoniesAreSound, WithinCaps
  <2>2. IsFiniteSet(Pending') /\ Cardinality(Pending') <= Cardinality(Pending)
    BY <1>7, <2>1, FS_Subset
  <2>3. Cardinality(Pending') \in Nat /\ Cardinality(Pending) \in Nat
    BY <2>1, <2>2, FS_CardinalityType
  <2> QED BY <2>1, <2>2, <2>3
<1>11. \A j \in Ids : invite'[j] = "reserved" => \E c \in Pending' : pairing'[c].invite = j
  <2> SUFFICES ASSUME NEW j \in Ids, invite'[j] = "reserved" PROVE \E c \in Pending' : pairing'[c].invite = j
    OBVIOUS
  <2>1. invite[j] = "reserved" /\ j \notin over
    BY <1>1
  <2>2. PICK c \in Pending : pairing[c].invite = j
    BY <2>1 DEF Holds, CeremoniesAreSound
  <2>3. c \notin LateClients
    BY <2>1, <2>2 DEF Spent, Held
  <2> QED BY <1>7, <2>2, <2>3 DEF CeremoniesShed
<1>12. CeremoniesAreSound'
  <2>1. step' # None /\ step'.kind = "proof" /\ pairing'[step'.client] # None /\ pairing'[step'.client].invite = step'.invite
          => ~pairing'[step'.client].approval
    <3>1. step # None => step.client \in Clients
      BY DEF Holds, ControlIsSound
    <3> QED BY <1>2, <1>7, <3>1 DEF CeremoniesShed, Pending, Holds, CeremoniesAreSound, Is
  <2> QED BY <1>2, <1>3, <1>7, <1>9, <1>10, <1>11, <2>1 DEF CeremoniesAreSound, CeremoniesShed, StoppedHoldsNothing, WithinCaps, Is
<1>13. ASSUME NEW j \in over
       PROVE  /\ j \in Ids /\ j # i
              /\ \/ invite[j] = "reserved" /\ announced[j] = "reserved" /\ announced'[j] = "consumed"
                 \/ invite[j] = "live" /\ announced[j] = None /\ announced'[j] \in {"expired", "dropped"}
  <2>1. j \in Held /\ j \in Ids /\ invite[j] \in {"live", "reserved"} /\ j # i
    BY <1>1, <1>4 DEF Held
  <2>2. announced'[j] = RetiredAs(j, Label(j))
    BY <1>1, <2>1
  <2> HIDE DEF over, left, retired
  <2> QED BY <2>1, <2>2 DEF RetiredAs, Holds, PanelIsSound
<1>14. \A j \in Ids \ over : announced'[j] = announced[j]
  BY <1>1
<1>15. PanelIsSound' /\ PanelFollows
  <2>1. announced' = [j \in Ids |-> announced'[j]]
    BY <1>1
  <2>2. \A j \in Ids : announced'[j] \in {None, "reserved", "consumed", "expired", "dropped"}
    BY <1>13, <1>14 DEF Holds, PanelIsSound
  <2>3. outcome' \in [Ids -> Outcomes \cup {None}]
    BY <1>1, OutcomeTyped DEF Holds, PanelIsSound
  <2>4. \A j \in Ids : /\ invite'[j] \in {"unminted", "live"} => announced'[j] = None
                       /\ invite'[j] = "reserved" => announced'[j] = "reserved"
    <3>1. invite'[i] = "live" /\ announced'[i] = None
      BY <1>1, <1>13, <1>14 DEF Holds, PanelIsSound
    <3>2. \A j \in over : invite'[j] = "gone"
      BY <1>1, <1>13
    <3>3. \A j \in Ids \ over : j # i => invite'[j] = invite[j]
      BY <1>1
    <3> HIDE DEF over
    <3> QED BY <1>14, <3>1, <3>2, <3>3 DEF Holds, PanelIsSound
  <2>5. PanelFollows
    <3> HIDE DEF over
    <3> QED BY <1>13, <1>14 DEF PanelFollows, Follows
  <2> QED BY <2>1, <2>2, <2>3, <2>4, <2>5 DEF PanelIsSound
<1> QED BY <1>8, <1>12, <1>15 DEF Holds

\* A ceremony begins: it takes the place of the oldest when there is no room,
\* and of the one its client had.
LEMMA InitDoneHolds ==
  ASSUME Apart, Inv, Holds, ControlIsSound', InitDone
  PROVE  Holds' /\ PanelFollows
<1> USE BoundsAssumption
<1> DEFINE c == step.client
           i == step.invite
           others == Pending \ {c}
           row == [invite |-> i, requestedAt |-> now, approval |-> FALSE, attempted |-> FALSE, committing |-> FALSE]
           All(d) == Denial(d, "superseded")
           Over(gone) == gone \cup ({c} \cap Pending)
<1>1. c \in Clients /\ i \in Ids /\ invite[i] = "live" /\ step' = None /\ status = "up"
  <2>1. step # None /\ step.kind = "init" /\ step.epoch = epoch /\ step' = None
    BY DEF InitDone, StillTheirs
  <2>2. invite[i] = "live"
    BY <2>1 DEF InitDone, StillTheirs, Inv, CodesAreSound
  <2> QED BY <2>1, <2>2 DEF Holds, ControlIsSound
<1>2. PICK gone \in Displaced(others) :
        /\ pairing' = [d \in Clients |-> IF d = c THEN row ELSE IF d \in Over(gone) THEN None ELSE pairing[d]]
        /\ modal' = [d \in Clients |-> IF d \in Over(gone) THEN None ELSE modal[d]]
        /\ invite' = [j \in Ids |-> IF j = i THEN "reserved" ELSE IF j \in Spent(Over(gone)) THEN "gone" ELSE invite[j]]
        /\ announced' = [j \in Ids |-> IF j = i THEN "reserved"
                                       ELSE IF j \in Spent(Over(gone)) THEN "consumed" ELSE announced[j]]
        /\ outcome' = [j \in Ids |-> IF j \in Spent(Over(gone))
                                     THEN OutcomeFor(All(CHOOSE d \in Over(gone) : pairing[d].invite = j))
                                     ELSE outcome[j]]
  BY DEF InitDone
<1>3. ArmReaper(reaperAt, expiresAt) /\ UNCHANGED <<status, expiresAt>>
  BY DEF InitDone
<1> DEFINE over == Over(gone)
<1>4. row \in Pairings /\ row.invite = i /\ ~row.approval /\ row # None
  <2>1. now \in 0 .. MaxTime
    BY DEF Holds, ControlIsSound
  <2>2. row \in Pairings /\ row \in Rows
    BY <1>1, <2>1 DEF Pairings, Rows
  <2> QED BY <2>2 DEF Apart
<1>5. gone \subseteq others /\ over \subseteq Pending /\ (c \in Pending => c \in over)
  BY DEF Displaced
<1>6. /\ pairing' \in [Clients -> Pairings \cup {None}] /\ modal' \in [Clients -> Ids \cup {None}]
      /\ Pending' = (Pending \ over) \cup {c} /\ pairing'[c] = row
      /\ \A d \in Pending \ over : d # c /\ pairing'[d] = pairing[d]
  <2> HIDE DEF row, over, c
  <2>1. pairing' \in [Clients -> Pairings \cup {None}] /\ modal' \in [Clients -> Ids \cup {None}]
    BY <1>2, <1>4 DEF over, Holds, CeremoniesAreSound
  <2>2. \A d \in Clients : pairing'[d] = IF d = c THEN row ELSE IF d \in over THEN None ELSE pairing[d]
    BY <1>2 DEF over
  <2> QED BY <1>1, <1>4, <1>5, <2>1, <2>2 DEF Pending, c
<1>7. \A d \in Pending : pairing[d].invite # i
  BY <1>1 DEF Inv, CodesAreSound, Used
<1>8. \A j \in Spent(over) : j \in Ids /\ j # i /\ invite[j] = "reserved"
  <2>1. \A j \in Spent(over) : j \in Held /\ \E d \in Pending : pairing[d].invite = j
    BY <1>5 DEF Spent
  <2> QED BY <1>7, <2>1 DEF Held, Inv, CodesAreSound, Used
<1> HIDE DEF row, over, c, i
<1>9. TimerIsSound'
  BY <1>3, <1>6, TimerStep DEF Holds, TimerIsSound
<1>10. IsFiniteSet(Pending') /\ Cardinality(Pending') <= MaxPairings
  <2>1. IsFiniteSet(Pending) /\ Cardinality(Pending) <= MaxPairings
    BY DEF Holds, CeremoniesAreSound, WithinCaps
  <2>2. /\ IsFiniteSet(others) /\ Cardinality(others) <= Cardinality(Pending)
        /\ Cardinality(others) \in Nat /\ Cardinality(Pending) \in Nat
    BY <2>1, FS_Subset, FS_CardinalityType
  <2>3. Pending \ over = others \ gone
    BY <1>5 DEF over, c
  <2>4. IsFiniteSet(others \ gone) /\ Cardinality(others \ gone) <= MaxPairings - 1
    <3>1. CASE Cardinality(others) < MaxPairings
      <4>1. gone = {}
        BY <3>1 DEF Displaced
      <4> HIDE DEF others
      <4>2. others \ gone = others
        BY <4>1
      <4> QED BY <2>2, <3>1, <4>2
    <3>2. CASE ~(Cardinality(others) < MaxPairings)
      <4>1. PICK d \in others : gone = {d}
        BY <3>2 DEF Displaced
      <4> HIDE DEF others
      <4>2. IsFiniteSet(others \ {d}) /\ Cardinality(others \ {d}) = Cardinality(others) - 1
        BY <2>2, <4>1, FS_RemoveElement
      <4> QED BY <2>1, <2>2, <4>1, <4>2
    <3> QED BY <3>1, <3>2
  <2> HIDE DEF others
  <2> DEFINE kept == others \ gone
  <2>5. Pending' = kept \cup {c}
    BY <1>6, <2>3
  <2>6. IsFiniteSet(kept) /\ Cardinality(kept) <= MaxPairings - 1
    BY <2>4
  <2> HIDE DEF kept
  <2>7. Cardinality(kept) \in Nat
    BY <2>6, FS_CardinalityType
  <2>8. IsFiniteSet(kept \cup {c}) /\ Cardinality(kept \cup {c}) = IF c \in kept THEN Cardinality(kept) ELSE Cardinality(kept) + 1
    BY <2>6, FS_AddElement
  <2>9. Cardinality(kept \cup {c}) <= MaxPairings
    BY <2>6, <2>7, <2>8
  <2> QED BY <2>5, <2>8, <2>9
<1>11. Cardinality(Held') <= MaxTokens
  <2>1. i \in Held /\ \A j \in Held' : j \in Held
    BY <1>1, <1>2 DEF Held, over, i
  <2>2. IsFiniteSet(Held) /\ Held' \in SUBSET Held
    <3>1. IsFiniteSet(Ids) /\ Held \subseteq Ids
      BY IdsAreFinite DEF Held
    <3> QED BY <2>1, <3>1, FS_Subset
  <2>3. Cardinality(Held') <= Cardinality(Held) /\ Cardinality(Held') \in Nat /\ Cardinality(Held) \in Nat
    BY <2>2, FS_Subset, FS_CardinalityType
  <2>4. Cardinality(Held) <= MaxTokens
    BY DEF Holds, CeremoniesAreSound, WithinCaps
  <2> QED BY <2>3, <2>4
<1>12. \A j \in Ids : invite'[j] = "reserved" => \E d \in Pending' : pairing'[d].invite = j
  <2> SUFFICES ASSUME NEW j \in Ids, invite'[j] = "reserved" PROVE \E d \in Pending' : pairing'[d].invite = j
    OBVIOUS
  <2>1. CASE j = i
    BY <1>4, <1>6, <2>1
  <2>2. CASE j # i
    <3>1. invite[j] = "reserved" /\ j \notin Spent(over)
      BY <1>2, <2>2 DEF over, i
    <3>2. PICK d \in Pending : pairing[d].invite = j
      BY <3>1 DEF Holds, CeremoniesAreSound
    <3>3. d \notin over
      BY <3>1, <3>2 DEF Spent, Held
    <3> QED BY <1>6, <3>2, <3>3
  <2> QED BY <2>1, <2>2
<1>13. ModalIsPending'
  <2> SUFFICES ASSUME NEW d \in Clients
               PROVE  modal'[d] = IF d \in Pending' /\ pairing'[d].approval THEN pairing'[d].invite ELSE None
    BY DEF ModalIsPending
  <2>1. modal'[d] = IF d \in over THEN None ELSE modal[d]
    BY <1>2 DEF over
  <2>2. modal[d] = IF d \in Pending /\ pairing[d].approval THEN pairing[d].invite ELSE None
    BY DEF Holds, CeremoniesAreSound, ModalIsPending
  <2>3. CASE d = c
    BY <1>4, <1>5, <1>6, <2>1, <2>2, <2>3
  <2>4. CASE d # c
    BY <1>6, <2>1, <2>2, <2>4
  <2> QED BY <2>3, <2>4
<1>14. CeremoniesAreSound'
  BY <1>1, <1>3, <1>6, <1>10, <1>11, <1>12, <1>13 DEF CeremoniesAreSound, StoppedHoldsNothing, WithinCaps
<1>15. /\ \A j \in Ids : announced'[j] = IF j = i THEN "reserved" ELSE IF j \in Spent(over) THEN "consumed" ELSE announced[j]
       /\ \A j \in Ids : invite'[j] = IF j = i THEN "reserved" ELSE IF j \in Spent(over) THEN "gone" ELSE invite[j]
       /\ announced' \in [Ids -> {None, "reserved", "consumed", "expired", "dropped"}]
       /\ outcome' \in [Ids -> Outcomes \cup {None}]
  BY <1>2, OutcomeTyped DEF over, i, Holds, PanelIsSound
<1>16. PanelIsSound' /\ PanelFollows
  BY <1>1, <1>8, <1>15 DEF i, Holds, PanelIsSound, PanelFollows, Follows
<1> QED BY <1>9, <1>14, <1>16 DEF Holds

\* A flag of one ceremony is set, with its question when it is the approval.
Marks(c) ==
  /\ c \in Pending
  /\ pairing' \in [Clients -> Pairings \cup {None}]
  /\ pairing'[c] # None /\ pairing'[c].invite = pairing[c].invite
  /\ \A d \in Clients \ {c} : pairing'[d] = pairing[d]
  /\ \/ pairing'[c].approval = pairing[c].approval /\ modal' = modal /\ step' = step
     \/ pairing'[c].approval /\ modal' = [modal EXCEPT ![c] = pairing[c].invite] /\ step' = None
  /\ UNCHANGED <<status, invite, announced, outcome, expiresAt, reaperAt>>

\* A pairing that is marked keeps its code, and the panel hears of it in order.
LEMMA MarkHolds ==
  ASSUME Apart, Inv, Holds, ControlIsSound', NEW c, Marks(c)
  PROVE  Holds' /\ PanelFollows
<1>1. Pending' = Pending /\ \A d \in Pending : pairing'[d].invite = pairing[d].invite
  BY DEF Marks, Pending
<1>2. Held' = Held
  BY DEF Marks, Held
<1>3. TimerIsSound'
  BY <1>1, <1>2, TimerStays DEF Marks, Holds
<1>4. pairing[c] \in Pairings /\ c \in Clients
  BY DEF Marks, Pending, Holds, CeremoniesAreSound
<1>5. modal' \in [Clients -> Ids \cup {None}]
  BY <1>4 DEF Marks, Pairings, Holds, CeremoniesAreSound
<1>6. ModalIsPending'
  <2> SUFFICES ASSUME NEW d \in Clients
               PROVE  modal'[d] = IF d \in Pending' /\ pairing'[d].approval THEN pairing'[d].invite ELSE None
    BY DEF ModalIsPending
  <2>1. modal[d] = IF d \in Pending /\ pairing[d].approval THEN pairing[d].invite ELSE None
    BY DEF Holds, CeremoniesAreSound, ModalIsPending
  <2>2. modal \in [Clients -> Ids \cup {None}]
    BY DEF Holds, CeremoniesAreSound
  <2> QED BY <1>1, <2>1, <2>2 DEF Marks
<1>7. step' # None /\ step'.kind = "proof" /\ pairing'[step'.client] # None /\ pairing'[step'.client].invite = step'.invite
        => ~pairing'[step'.client].approval
  <2>1. step # None => step.client \in Clients
    BY DEF Holds, ControlIsSound
  <2> QED BY <2>1 DEF Marks, Pending, Holds, CeremoniesAreSound, Is
<1>8. status' # "stopped"
  BY DEF Marks, Holds, CeremoniesAreSound, StoppedHoldsNothing
<1>9. CeremoniesAreSound'
  BY <1>1, <1>2, <1>5, <1>6, <1>7, <1>8
     DEF Marks, Holds, CeremoniesAreSound, StoppedHoldsNothing, WithinCaps, Is
<1>10. PanelIsSound' /\ PanelFollows
  BY DEF Marks, Holds, PanelIsSound, PanelFollows, Follows
<1> QED BY <1>3, <1>9, <1>10 DEF Holds

\* The proof holds: the question fits on screen, for its ceremony holds a place.
LEMMA ProofHoldsHolds ==
  ASSUME Apart, Inv, Holds, ControlIsSound', ProofHolds
  PROVE  Holds' /\ PanelFollows
<1> USE BoundsAssumption
<1> DEFINE c == step.client
           shown == {d \in Clients : modal[d] # None}
           row == [pairing[c] EXCEPT !.approval = TRUE]
<1>1. /\ step # None /\ step.kind = "proof" /\ Is(c, step.invite) /\ step' = None
      /\ pairing' = [pairing EXCEPT ![c] = row] /\ Surfaced(c, step.invite)
      /\ UNCHANGED <<status, invite, announced, outcome, expiresAt, reaperAt>>
  BY DEF ProofHolds, codes
<1>2. c \in Clients /\ c \in Pending /\ pairing[c] \in Pairings /\ pairing[c].invite = step.invite /\ ~pairing[c].approval
  BY <1>1 DEF Is, Pending, Holds, ControlIsSound, CeremoniesAreSound
<1>3. Cardinality(shown) < MaxPairings
  <2>1. shown \in SUBSET (Pending \ {c})
    BY <1>2 DEF Holds, CeremoniesAreSound, ModalIsPending
  <2> HIDE DEF shown, c
  <2>2. IsFiniteSet(Pending) /\ Cardinality(Pending) <= MaxPairings /\ Cardinality(Pending) \in Nat
    BY FS_CardinalityType DEF Holds, CeremoniesAreSound, WithinCaps
  <2>3. IsFiniteSet(Pending \ {c}) /\ Cardinality(Pending \ {c}) = Cardinality(Pending) - 1
    BY <1>2, <2>2, FS_RemoveElement DEF c
  <2>4. IsFiniteSet(shown) /\ Cardinality(shown) <= Cardinality(Pending \ {c})
    BY <2>1, <2>3, FS_Subset
  <2>5. Cardinality(shown) \in Nat
    BY <2>4, FS_CardinalityType
  <2> QED BY <2>2, <2>3, <2>4, <2>5
<1>4. modal' = [modal EXCEPT ![c] = pairing[c].invite]
  BY <1>1, <1>2, <1>3 DEF Surfaced
<1>5. row \in Pairings /\ row.invite = pairing[c].invite /\ row.approval /\ row # None
  <2>1. row \in Pairings /\ row.invite = pairing[c].invite /\ row.approval
    BY <1>2 DEF Pairings
  <2>2. pairing[c] \in Rows
    BY <1>2 DEF Inv, Typed, Pending
  <2>3. row \in Rows
    BY <2>2 DEF Rows
  <2> QED BY <2>1, <2>3 DEF Apart
<1>6. Marks(c)
  <2> HIDE DEF row, c
  <2>1. pairing \in [Clients -> Pairings \cup {None}]
    BY DEF Holds, CeremoniesAreSound
  <2> QED BY <1>1, <1>2, <1>4, <1>5, <2>1 DEF Marks
<1> QED BY <1>6, MarkHolds

\* An answer is taken, or its write begins.
LEMMA AnswerHolds ==
  ASSUME Apart, Inv, Holds, ControlIsSound', SaveBegins \/ \E c \in Clients : Approve(c)
  PROVE  Holds' /\ PanelFollows
<1>1. ASSUME NEW c \in Clients, Approve(c) PROVE Marks(c)
  <2> DEFINE row == [pairing[c] EXCEPT !.attempted = TRUE]
  <2>1. /\ pairing[c] # None /\ pairing' = [pairing EXCEPT ![c] = row]
        /\ UNCHANGED <<status, invite, announced, outcome, expiresAt, reaperAt, modal, step>>
    BY <1>1 DEF Approve, Answerable, Is, codes
  <2>2. pairing \in [Clients -> Pairings \cup {None}] /\ pairing[c] \in Pairings /\ pairing[c] \in Rows
    BY <2>1 DEF Holds, CeremoniesAreSound, Inv, Typed
  <2>3. row \in Pairings /\ row \in Rows /\ row.invite = pairing[c].invite /\ row.approval = pairing[c].approval
    BY <2>2 DEF Pairings, Rows
  <2>4. row # None
    BY <2>3 DEF Apart
  <2> HIDE DEF row
  <2> QED BY <2>1, <2>2, <2>3, <2>4 DEF Marks, Pending
<1>2. CASE SaveBegins
  <2> DEFINE c == Head(saves).client
             row == [pairing[c] EXCEPT !.committing = TRUE]
  <2>1. /\ saves # <<>> /\ pairing[c] # None /\ pairing' = [pairing EXCEPT ![c] = row]
        /\ UNCHANGED <<status, invite, announced, outcome, expiresAt, reaperAt, modal, step>>
    BY <1>2 DEF SaveBegins, Is, codes
  <2>2. c \in Clients
    <3>1. saves \in Seq(Jobs)
      BY DEF Inv, Typed
    <3>2. Head(saves) \in Jobs
      BY <2>1, <3>1, HeadTailProperties
    <3> QED BY <3>2 DEF Jobs
  <2> HIDE DEF c
  <2>3. pairing \in [Clients -> Pairings \cup {None}] /\ pairing[c] \in Pairings /\ pairing[c] \in Rows
    BY <2>1, <2>2 DEF Holds, CeremoniesAreSound, Inv, Typed
  <2>4. row \in Pairings /\ row \in Rows /\ row.invite = pairing[c].invite /\ row.approval = pairing[c].approval
    BY <2>3 DEF Pairings, Rows
  <2>5. row # None
    BY <2>4 DEF Apart
  <2> HIDE DEF row
  <2>6. Marks(c)
    BY <2>1, <2>2, <2>3, <2>4, <2>5 DEF Marks, Pending
  <2> QED BY <2>6, MarkHolds
<1> QED BY <1>1, <1>2, MarkHolds

-----------------------------------------------------------------------------
\* Ceremonies end with what is late, and the timer is armed for the rest.
LEMMA ReapHolds ==
  ASSUME Apart, Inv, Holds, ControlIsSound', NEW cs \in SUBSET Pending, NEW code, NEW old \in {reaperAt, None},
         Ceremonies(cs \cup LateClients, Expiry(cs, code)),
         Retire(cs \cup LateClients, Expiry(cs, code), LateInvites, "expired"), ArmReaper(old, expiresAt),
         AsksOnce, expiresAt' = expiresAt, status' = "stopped" => status = "stopped"
  PROVE  Holds' /\ PanelFollows
<1> DEFINE all == cs \cup LateClients
           each == Expiry(cs, code)
<1>1. all \in SUBSET Pending
  BY DEF LateClients
<1>2. Ceremonies(all, each) /\ Retire(all, each, LateInvites, "expired")
  OBVIOUS
<1> HIDE DEF all, each
<1>3. Sheds
  BY <1>1, <1>2, EndingSheds
<1> QED BY <1>3, ShedHolds DEF Sheds

\* One ceremony ends.
LEMMA EndHolds ==
  ASSUME Apart, Inv, Holds, ControlIsSound', NEW c \in Pending, NEW code, End(c, code),
         AsksOnce, UNCHANGED <<status, expiresAt, reaperAt>>
  PROVE  Holds' /\ PanelFollows
<1> DEFINE each == [d \in {c} |-> code]
<1>1. Ceremonies({c}, each) /\ Retire({c}, each, {}, None)
  BY DEF End
<1> HIDE DEF each
<1>2. Sheds
  BY <1>1, EndingSheds
<1> QED BY <1>2, ShedHolds DEF Sheds

\* Neither codes nor ceremonies are touched.
LEMMA StillHolds ==
  ASSUME Apart, Inv, Holds, ControlIsSound', UNCHANGED <<codes, ceremony>>,
         AsksOnce, UNCHANGED <<status, expiresAt, reaperAt>>
  PROVE  Holds' /\ PanelFollows
<1>1. Sheds
  BY NothingSheds
<1> QED BY <1>1, ShedHolds DEF Sheds

\* The socket goes, and everything with it.
LEMMA TeardownHolds ==
  ASSUME Apart, Inv, Holds, ControlIsSound', Close \/ Stop
  PROVE  Holds' /\ PanelFollows
<1> DEFINE silent == [c \in Pending |-> None]
<1>1. Ceremonies(Pending, silent) /\ Retire(Pending, silent, Held, "dropped")
  BY DEF Close, Stop, DropTransientState
<1>2. expiresAt' = expiresAt /\ step' = step
  BY DEF Close, Stop
<1> HIDE DEF silent
<1>3. Sheds
  BY <1>1, EndingSheds
<1>4. Pending' = {} /\ Held' = {}
  <2>1. Pending' = {}
    BY <1>1, CeremoniesEnd DEF Holds
  <2>2. \A i \in Ids : invite'[i] = IF i \in Spent(Pending) \cup Held THEN "gone" ELSE invite[i]
    BY <1>1 DEF Retire
  <2> QED BY <2>1, <2>2 DEF Held
<1>5. CASE Close
  BY <1>2, <1>3, <1>5, ShedHolds DEF Close, Sheds, AsksOnce
<1>6. CASE Stop
  BY <1>2, <1>3, <1>4, <1>6, ShedHolds DEF Stop, Sheds, AsksOnce
<1> QED BY <1>5, <1>6

\* Whatever happens, what a Burrow holds stays accounted for, and the panel
\* hears of it in order.
LEMMA HoldsStep ==
  ASSUME Apart, Inv, Holds, Next
  PROVE  Holds' /\ PanelFollows
<1>1. ControlIsSound'
  BY ControlStep
<1>2. CASE Close \/ Stop
  BY <1>1, <1>2, TeardownHolds
<1>3. CASE Opens \/ ReaperFires \/ OtherInit
  <2>1. {} \in SUBSET Pending /\ {} \cup LateClients = LateClients
    OBVIOUS
  <2>2. PICK old \in {reaperAt, None} :
          /\ Ceremonies({} \cup LateClients, Expiry({}, None))
          /\ Retire({} \cup LateClients, Expiry({}, None), LateInvites, "expired") /\ ArmReaper(old, expiresAt)
    BY <1>3, <2>1 DEF Opens, ReaperFires, OtherInit, Reap, EndAndReap
  <2>3. AsksOnce /\ expiresAt' = expiresAt /\ (status' = "stopped" => status = "stopped")
    BY <1>3 DEF Opens, ReaperFires, OtherInit, AsksOnce
  <2> QED BY <1>1, <2>1, <2>2, <2>3, ReapHolds
<1>4. CASE Tick \/ InitFails \/ ProofMoot
  BY <1>1, <1>4, StillHolds DEF Tick, InitFails, ProofMoot, AsksOnce
<1>5. ASSUME NEW m \in Minters, MintBegins(m) \/ MintRefused(m) \/ MintDone(m) PROVE Holds' /\ PanelFollows
  <2>1. CASE MintBegins(m) \/ MintRefused(m)
    BY <1>1, <2>1, StillHolds DEF MintBegins, MintRefused, AsksOnce
  <2> QED BY <1>1, <1>5, <2>1, MintHolds
<1>6. CASE InitDone \/ ProofHolds \/ SaveBegins \/ \E c \in Clients : Approve(c)
  BY <1>1, <1>6, InitDoneHolds, ProofHoldsHolds, AnswerHolds
<1>7. ASSUME NEW c \in Clients, NEW i \in Ids, InitBegins(c, i) PROVE Holds' /\ PanelFollows
  <2>1. {} \in SUBSET Pending /\ {} \cup LateClients = LateClients
    OBVIOUS
  <2>2. /\ Ceremonies({} \cup LateClients, Expiry({}, None))
        /\ Retire({} \cup LateClients, Expiry({}, None), LateInvites, "expired") /\ ArmReaper(reaperAt, expiresAt)
    BY <1>7, <2>1 DEF InitBegins, Reap, EndAndReap
  <2>3. AsksOnce /\ UNCHANGED <<expiresAt, status>>
    BY <1>7 DEF InitBegins, AsksOnce
  <2> QED BY <1>1, <2>1, <2>2, <2>3, ReapHolds
<1>8. ASSUME NEW c \in Clients, TransportLate(c) \/ TransportPoisoned(c) \/ TransportMalformed(c) \/ ApproveRefused(c)
      PROVE  Holds' /\ PanelFollows
  <2>1. c \in Pending
    BY <1>8 DEF TransportLate, TransportPoisoned, TransportMalformed, ApproveRefused, Answerable, Is, Pending
  <2>2. PICK code : End(c, code)
    BY <1>8 DEF TransportLate, TransportPoisoned, TransportMalformed, ApproveRefused
  <2>3. AsksOnce /\ UNCHANGED <<status, expiresAt, reaperAt>>
    BY <1>8 DEF TransportLate, TransportPoisoned, TransportMalformed, ApproveRefused, AsksOnce
  <2> QED BY <1>1, <2>1, <2>2, <2>3, EndHolds
<1>9. ASSUME NEW c \in Clients, ProofBegins(c) PROVE Holds' /\ PanelFollows
  <2>1. AsksOnce
    BY <1>9 DEF ProofBegins, AsksOnce
  <2> QED BY <1>1, <1>9, <2>1, StillHolds DEF ProofBegins
<1>10. ASSUME NEW c \in Clients, ClientGone(c) \/ Deny(c) PROVE Holds' /\ PanelFollows
  <2>1. PICK cs \in SUBSET Pending, code \in {None, Denial(c, "user-denied")} : EndAndReap(cs, code)
    <3>1. CASE ClientGone(c)
      BY <3>1 DEF ClientGone
    <3>2. CASE Deny(c)
      <4>1. {c} \in SUBSET Pending
        BY <3>2 DEF Deny, Is, Pending
      <4> QED BY <3>2, <4>1 DEF Deny
    <3> QED BY <1>10, <3>1, <3>2
  <2>2. AsksOnce /\ UNCHANGED <<status, expiresAt>>
    BY <1>10 DEF ClientGone, Deny, AsksOnce
  <2> QED BY <1>1, <2>1, <2>2, ReapHolds DEF EndAndReap
<1>11. CASE ProofFails
  <2>1. step.client \in Pending /\ End(step.client, Denial(step.client, "presence-rejected"))
    BY <1>11 DEF ProofFails, Is, Pending, Holds, ControlIsSound
  <2>2. AsksOnce /\ UNCHANGED <<status, expiresAt, reaperAt>>
    BY <1>11 DEF ProofFails, AsksOnce
  <2> QED BY <1>1, <2>1, <2>2, EndHolds
<1>12. CASE SaveMoot
  <2> DEFINE c == Head(saves).client
  <2>1. AsksOnce /\ UNCHANGED <<status, expiresAt, reaperAt>> /\ saves # <<>>
    BY <1>12 DEF SaveMoot, AsksOnce
  <2>2. CASE UNCHANGED <<codes, ceremony>>
    BY <1>1, <2>1, <2>2, StillHolds
  <2>3. CASE Is(c, Head(saves).invite) /\ End(c, Denial(c, "invitation-expired"))
    <3>1. saves \in Seq(Jobs)
      BY DEF Inv, Typed
    <3>2. Head(saves) \in Jobs
      BY <2>1, <3>1, HeadTailProperties
    <3>3. c \in Pending
      BY <2>3, <3>2 DEF Is, Pending, Jobs
    <3> HIDE DEF c
    <3> QED BY <1>1, <2>1, <2>3, <3>3, EndHolds
  <2> QED BY <1>12, <2>2, <2>3 DEF SaveMoot
<1>13. CASE SaveDone \/ SaveFails
  <2> DEFINE c == saving.client
  <2>1. saving # None /\ AsksOnce /\ UNCHANGED <<status, expiresAt>>
    BY <1>13 DEF SaveDone, SaveFails, AsksOnce
  <2>2. PICK code \in {"ok", "burrow-error"} : AnswerSave(code)
    BY <1>13 DEF SaveDone, SaveFails
  <2>3. CASE Is(c, saving.invite)
    <3>1. {c} \in SUBSET Pending
      BY <2>1, <2>3 DEF Is, Pending, Inv, Typed, Writes
    <3>2. EndAndReap({c}, code)
      BY <2>2, <2>3 DEF AnswerSave
    <3> HIDE DEF c
    <3> QED BY <1>1, <2>1, <3>1, <3>2, ReapHolds DEF EndAndReap
  <2>4. CASE ~Is(c, saving.invite)
    BY <1>1, <2>1, <2>2, <2>4, StillHolds DEF AnswerSave
  <2> QED BY <2>3, <2>4
<1> QED BY <1>2, <1>3, <1>4, <1>5, <1>6, <1>7, <1>8, <1>9, <1>10, <1>11, <1>12, <1>13, <1>6 DEF Next

\* A stutter changes nothing of it.
LEMMA HoldsStutter ==
  ASSUME Holds, UNCHANGED vars
  PROVE  Holds' /\ PanelFollows
<1>1. ControlIsSound' /\ TimerIsSound' /\ PanelIsSound' /\ PanelFollows
  BY DEF vars, Holds, ControlIsSound, TimerIsSound, ReaperCovers, PanelIsSound, PanelFollows, Follows
<1>2. CeremoniesAreSound'
  BY DEF vars, Holds, CeremoniesAreSound, ModalIsPending, StoppedHoldsNothing, WithinCaps, Is, Pending, Held
<1> QED BY <1>1, <1>2 DEF Holds

-----------------------------------------------------------------------------
\* What a Burrow holds belongs to something that will end it: a code to one
\* ceremony, a question on screen to a ceremony that waits for it, a deadline to
\* the armed timer, nothing to a Burrow that stopped, and never more than the
\* caps (mintInvitation, finishPairing, armReaper, dropTransientState).
THEOREM HeldIsAccountedFor ==
  ASSUME Apart
  PROVE  Spec => []NothingDangles
<1>1. Init => Inv /\ Holds
  BY InitInv, InitHolds
<1>2. Inv /\ Holds /\ [Next]_vars => (Inv /\ Holds)'
  BY InvStep, HoldsStep, HoldsStutter
<1>3. Inv /\ Holds => NothingDangles
  <2> SUFFICES ASSUME Inv, Holds PROVE NothingDangles
    OBVIOUS
  <2>1. TypeOK
    BY DEF Inv, Typed, Holds, ControlIsSound, CeremoniesAreSound, TimerIsSound, PanelIsSound, TypeOK, Jobs, Writes
  <2>2. OneCeremonyPerCode
    BY DEF Inv, CodesAreSound, Used, Holds, CeremoniesAreSound, OneCeremonyPerCode
  <2> QED BY <2>1, <2>2 DEF Holds, CeremoniesAreSound, TimerIsSound, NothingDangles
<1> QED BY <1>1, <1>2, <1>3, PTL DEF Spec

-----------------------------------------------------------------------------
(* What the panel is told of a pairing, and what its phone is told.          *)

\* An outcome is given once, with the end of the code; until then none was, nor
\* was one while the ceremony goes on without its code.
Agrees ==
  /\ \A i \in Ids : outcome[i] # None =>
       /\ invite[i] = "gone"
       /\ outcome[i] = OutcomeFor(told[i]) \/ (outcome[i] = "burrow-error" /\ told[i] = None)
  /\ \A c \in Pending : outcome[pairing[c].invite] = None

\* A step gives no new outcome, or the first, with the end of the code and of its
\* ceremony; what a phone hears while its code is reserved the panel hears too.
Ends(i) ==
  /\ outcome[i] = None /\ invite'[i] = "gone" /\ \A c \in Pending' : pairing'[c].invite # i
  /\ outcome'[i] = OutcomeFor(told'[i]) \/ (outcome'[i] = "burrow-error" /\ told'[i] = None)
  /\ told'[i] # told[i] => outcome'[i] = OutcomeFor(told'[i]) /\ announced'[i] = "consumed"
Stays(i) ==
  /\ outcome'[i] = outcome[i]
  /\ told'[i] = told[i] \/ (outcome[i] = None /\ invite[i] # "reserved")
Reports ==
  /\ \A i \in Ids : invite[i] = "gone" => invite'[i] = "gone"
  /\ \A c \in Pending' : pairing'[c].invite \in Ids /\ outcome[pairing'[c].invite] = None
  /\ \A i \in Ids : Ends(i) \/ Stays(i)

\* Such a step leaves panel and phone agreed.
LEMMA ReportsAgree ==
  ASSUME Agrees, Reports
  PROVE  Agrees'
<1>1. \A c \in Pending' : outcome'[pairing'[c].invite] = None
  BY DEF Reports, Ends, Stays
<1>2. ASSUME NEW i \in Ids, outcome'[i] # None
      PROVE  /\ invite'[i] = "gone"
             /\ outcome'[i] = OutcomeFor(told'[i]) \/ (outcome'[i] = "burrow-error" /\ told'[i] = None)
  <2>1. CASE Ends(i)
    BY <2>1 DEF Ends
  <2>2. CASE Stays(i)
    <3>1. outcome[i] # None /\ told'[i] = told[i] /\ outcome'[i] = outcome[i]
      BY <1>2, <2>2 DEF Stays
    <3> QED BY <3>1 DEF Agrees, Reports
  <2> QED BY <2>1, <2>2 DEF Reports
<1> QED BY <1>1, <1>2 DEF Agrees

\* What the end of the ceremonies of cs, each with code[c], does to what phones
\* and panel have heard: a panel hears of a code that is held.
Told(cs, code) ==
  /\ \A c \in cs : told'[pairing[c].invite] = IF Sent(code[c]) THEN code[c] ELSE told[pairing[c].invite]
  /\ \A i \in Ids : (\A c \in cs : pairing[c].invite # i) => told'[i] = told[i]
Shown(cs, code) ==
  /\ \A c \in cs : pairing[c].invite \in Held =>
       /\ outcome'[pairing[c].invite] = OutcomeFor(code[c])
       /\ invite'[pairing[c].invite] = "gone" /\ announced'[pairing[c].invite] = "consumed"
  /\ \A i \in Ids : i \notin Held \/ (\A c \in cs : pairing[c].invite # i) => outcome'[i] = outcome[i]
Leaves(cs) ==
  /\ \A i \in Ids : invite[i] = "gone" => invite'[i] = "gone"
  /\ \A c \in Pending' : /\ pairing'[c].invite \in Ids /\ outcome[pairing'[c].invite] = None
                         /\ \A d \in cs : pairing[d].invite # pairing'[c].invite

\* Then each outcome is what its phone was told.
LEMMA EndingReports ==
  ASSUME Apart, Inv, Agrees, NEW cs \in SUBSET Pending, NEW code,
         Told(cs, code), Shown(cs, code), Leaves(cs)
  PROVE  Reports
<1>1. ASSUME NEW i \in Ids PROVE Ends(i) \/ Stays(i)
  <2>1. CASE \A c \in cs : pairing[c].invite # i
    BY <2>1 DEF Told, Shown, Stays
  <2>2. ASSUME NEW c \in cs, pairing[c].invite = i PROVE Ends(i) \/ Stays(i)
    <3>1. c \in Pending /\ outcome[i] = None /\ told[i] = None
      BY <2>2 DEF Agrees, Inv, CodesAreSound
    <3>2. told'[i] = IF Sent(code[c]) THEN code[c] ELSE None
      BY <2>2, <3>1 DEF Told
    <3>3. CASE i \notin Held
      <4>1. outcome'[i] = outcome[i] /\ invite[i] # "reserved"
        BY <3>3 DEF Shown, Held
      <4> QED BY <3>1, <4>1 DEF Stays
    <3>4. CASE i \in Held
      <4>1. outcome'[i] = OutcomeFor(code[c]) /\ invite'[i] = "gone" /\ announced'[i] = "consumed"
        BY <2>2, <3>4 DEF Shown
      <4>2. \A d \in Pending' : pairing'[d].invite # i
        BY <2>2 DEF Leaves
      <4>3. CASE Sent(code[c])
        BY <3>1, <3>2, <4>1, <4>2, <4>3 DEF Ends
      <4>4. CASE code[c] = None
        <5>1. told'[i] = None
          BY <3>2, <4>4 DEF Sent
        <5> QED BY <3>1, <4>1, <4>2, <4>4, <5>1 DEF Ends
      <4>5. CASE code[c] = "poisoned"
        <5>1. told'[i] = None
          BY <3>2, <4>5 DEF Sent
        <5>2. outcome'[i] = "burrow-error"
          BY <4>1, <4>5 DEF OutcomeFor
        <5> QED BY <3>1, <4>1, <4>2, <5>1, <5>2 DEF Ends
      <4> QED BY <4>3, <4>4, <4>5 DEF Sent
    <3> QED BY <3>3, <3>4
  <2> QED BY <2>1, <2>2
<1> QED BY <1>1 DEF Reports, Leaves

\* One ceremony has one code, so of the ceremonies that end each phone hears its
\* own answer.
LEMMA CeremoniesTell ==
  ASSUME Apart, Inv, NEW cs \in SUBSET Pending, NEW code, Ceremonies(cs, code)
  PROVE  Told(cs, code) /\ \A c \in cs : (CHOOSE d \in cs : pairing[d].invite = pairing[c].invite) = c
<1>1. \A c, d \in cs : pairing[c].invite = pairing[d].invite => c = d
  BY DEF Inv, CodesAreSound
<1>2. ASSUME NEW c \in cs
      PROVE  (CHOOSE d \in cs : pairing[d].invite = pairing[c].invite) = c
  BY <1>1
<1>3. ASSUME NEW c \in cs
      PROVE  told'[pairing[c].invite] = IF Sent(code[c]) THEN code[c] ELSE told[pairing[c].invite]
  <2>1. pairing[c].invite \in Ids
    BY DEF Pending, Inv, Typed, Rows
  <2>2. told'[pairing[c].invite] =
          IF \E d \in cs : pairing[d].invite = pairing[c].invite /\ Sent(code[d])
          THEN code[CHOOSE d \in cs : pairing[d].invite = pairing[c].invite] ELSE told[pairing[c].invite]
    BY <2>1 DEF Ceremonies
  <2>3. (\E d \in cs : pairing[d].invite = pairing[c].invite /\ Sent(code[d])) <=> Sent(code[c])
    BY <1>1
  <2> QED BY <1>2, <2>2, <2>3
<1>4. ASSUME NEW i \in Ids, \A c \in cs : pairing[c].invite # i PROVE told'[i] = told[i]
  BY <1>4 DEF Ceremonies
<1> QED BY <1>2, <1>3, <1>4 DEF Told

\* A code a ceremony goes on with is reserved while it is held.
LEMMA SpentAreReserved ==
  ASSUME Inv, NEW cs \in SUBSET Pending
  PROVE  /\ \A i \in Ids : i \in Spent(cs) <=> i \in Held /\ \E c \in cs : pairing[c].invite = i
         /\ \A i \in Spent(cs) : i \in Ids /\ invite[i] = "reserved"
<1>1. \A i \in Ids : i \in Spent(cs) <=> i \in Held /\ \E c \in cs : pairing[c].invite = i
  BY DEF Spent, Held
<1>2. \A i \in Spent(cs) : i \in Held /\ i \in Ids /\ \E c \in Pending : pairing[c].invite = i
  BY DEF Spent, Held
<1> QED BY <1>1, <1>2 DEF Held, Inv, CodesAreSound, Used

\* Ceremonies that end are gone, and the others are where they were.
LEMMA CeremoniesLeave ==
  ASSUME Apart, Inv, Agrees, NEW cs \in SUBSET Pending, NEW code, Ceremonies(cs, code),
         \A i \in Ids : invite[i] = "gone" => invite'[i] = "gone"
  PROVE  Leaves(cs)
<1>1. \A c \in Pending' : c \in Pending \ cs /\ pairing'[c] = pairing[c]
  BY DEF Ceremonies, Pending
<1>2. \A c \in Pending : pairing[c].invite \in Ids
  BY DEF Pending, Inv, Typed, Rows
<1>3. \A c \in Pending \ cs, d \in cs : pairing[d].invite # pairing[c].invite
  BY DEF Inv, CodesAreSound
<1> QED BY <1>1, <1>2, <1>3 DEF Leaves, Agrees

\* Ceremonies end, and codes are retired for them, for their age or for room.
LEMMA RetiredReports ==
  ASSUME Apart, Inv, Agrees, NEW cs \in SUBSET Pending, NEW code, Ceremonies(cs, code),
         \A i \in Ids : invite[i] = "gone" => invite'[i] = "gone",
         \A i \in Spent(cs) : invite'[i] = "gone" /\ announced'[i] = "consumed",
         outcome' = [i \in Ids |-> IF i \in Spent(cs)
                                   THEN OutcomeFor(code[CHOOSE c \in cs : pairing[c].invite = i]) ELSE outcome[i]]
  PROVE  Reports /\ Agrees'
<1>1. Told(cs, code) /\ \A c \in cs : (CHOOSE d \in cs : pairing[d].invite = pairing[c].invite) = c
  BY CeremoniesTell
<1>2. \A i \in Ids : i \in Spent(cs) <=> i \in Held /\ \E c \in cs : pairing[c].invite = i
  BY SpentAreReserved
<1>3. ASSUME NEW c \in cs, pairing[c].invite \in Held
      PROVE  /\ outcome'[pairing[c].invite] = OutcomeFor(code[c])
             /\ invite'[pairing[c].invite] = "gone" /\ announced'[pairing[c].invite] = "consumed"
  <2>1. pairing[c].invite \in Ids /\ pairing[c].invite \in Spent(cs)
    BY <1>2, <1>3 DEF Held
  <2>2. outcome'[pairing[c].invite] = OutcomeFor(code[CHOOSE d \in cs : pairing[d].invite = pairing[c].invite])
    BY <2>1
  <2>3. (CHOOSE d \in cs : pairing[d].invite = pairing[c].invite) = c
    BY <1>1
  <2> QED BY <2>1, <2>2, <2>3
<1>4. ASSUME NEW i \in Ids, i \notin Held \/ (\A c \in cs : pairing[c].invite # i) PROVE outcome'[i] = outcome[i]
  BY <1>2, <1>4
<1>5. Shown(cs, code)
  BY <1>3, <1>4 DEF Shown
<1>6. Leaves(cs)
  BY CeremoniesLeave
<1>7. Reports
  BY <1>1, <1>5, <1>6, EndingReports
<1> QED BY <1>7, ReportsAgree

\* As retireInvitation does it.
LEMMA RetireReports ==
  ASSUME Apart, Inv, Agrees, NEW cs \in SUBSET Pending, NEW code, NEW is, NEW label,
         Ceremonies(cs, code), Retire(cs, code, is, label)
  PROVE  Reports /\ Agrees'
<1>1. \A i \in Spent(cs) : i \in Ids /\ invite[i] = "reserved"
  BY SpentAreReserved
<1>2. \A i \in Spent(cs) : invite'[i] = "gone" /\ announced'[i] = "consumed"
  BY <1>1 DEF Retire, RetiredAs
<1>3. \A i \in Ids : invite[i] = "gone" => invite'[i] = "gone"
  BY DEF Retire
<1>4. outcome' = [i \in Ids |-> IF i \in Spent(cs)
                                THEN OutcomeFor(code[CHOOSE c \in cs : pairing[c].invite = i]) ELSE outcome[i]]
  BY DEF Retire
<1> QED BY <1>2, <1>3, <1>4, RetiredReports

\* Nothing is told, and no ceremony begins.
LEMMA StillReports ==
  ASSUME Apart, Inv, Agrees, UNCHANGED <<codes, told>>,
         \A c \in Pending' : c \in Pending /\ pairing'[c].invite = pairing[c].invite
  PROVE  Reports /\ Agrees'
<1>1. \A c \in Pending : pairing[c].invite \in Ids
  BY DEF Pending, Inv, Typed, Rows
<1>2. \A i \in Ids : Stays(i)
  BY DEF codes, Stays
<1>3. Reports
  BY <1>1, <1>2 DEF Reports, Agrees, codes
<1> QED BY <1>3, ReportsAgree

\* A mint sweeps what is late and makes room; its own code is new.
LEMMA MintReports ==
  ASSUME Apart, Inv, Agrees, NEW m \in Minters, MintDone(m)
  PROVE  Reports /\ Agrees'
<1> DEFINE ended == Expiry({}, None)
           retired == LateInvites \cup Evicted(Held \ LateInvites)
           Label(j) == IF j \in LateInvites THEN "expired" ELSE "dropped"
<1>1. PICK i \in Ids :
        /\ invite[i] = "unminted"
        /\ invite' = [j \in Ids |-> IF j = i THEN "live"
                                    ELSE IF j \in Spent(LateClients) \cup retired THEN "gone" ELSE invite[j]]
        /\ announced' = [j \in Ids |-> IF j \in Spent(LateClients) \cup retired
                                       THEN RetiredAs(j, Label(j)) ELSE announced[j]]
        /\ outcome' = [j \in Ids |-> IF j \in Spent(LateClients)
                                     THEN OutcomeFor(ended[CHOOSE c \in LateClients : pairing[c].invite = j])
                                     ELSE outcome[j]]
  BY DEF MintDone
<1>2. Ceremonies(LateClients, ended) /\ LateClients \in SUBSET Pending
  BY DEF MintDone, LateClients
<1> HIDE DEF ended, retired, Label
<1>3. \A j \in Spent(LateClients) : j \in Ids /\ invite[j] = "reserved"
  BY <1>2, SpentAreReserved
<1>4. \A j \in Spent(LateClients) : invite'[j] = "gone" /\ announced'[j] = "consumed"
  BY <1>1, <1>3 DEF RetiredAs
<1>5. \A j \in Ids : invite[j] = "gone" => invite'[j] = "gone"
  BY <1>1
<1>6. outcome' = [j \in Ids |-> IF j \in Spent(LateClients)
                                THEN OutcomeFor(ended[CHOOSE c \in LateClients : pairing[c].invite = j])
                                ELSE outcome[j]]
  BY <1>1
<1> QED BY <1>2, <1>4, <1>5, <1>6, RetiredReports

\* A ceremony that begins ends the one its client had, and the oldest when there
\* is no room; it has a code nobody has heard of.
LEMMA InitDoneReports ==
  ASSUME Apart, Inv, Agrees, InitDone
  PROVE  Reports /\ Agrees'
<1> DEFINE c == step.client
           i == step.invite
           row == [invite |-> i, requestedAt |-> now, approval |-> FALSE, attempted |-> FALSE, committing |-> FALSE]
           All(d) == Denial(d, "superseded")
<1>1. c \in Clients /\ i \in Ids /\ invite[i] = "live"
  BY DEF InitDone, StillTheirs, Inv, Typed, CodesAreSound, Steps, Apart
<1>2. PICK over \in SUBSET Pending :
        /\ c \in Pending => c \in over
        /\ pairing' = [d \in Clients |-> IF d = c THEN row ELSE IF d \in over THEN None ELSE pairing[d]]
        /\ told' = [j \in Ids |-> IF \E d \in over : pairing[d].invite = j /\ All(d) # None THEN "superseded" ELSE told[j]]
        /\ invite' = [j \in Ids |-> IF j = i THEN "reserved" ELSE IF j \in Spent(over) THEN "gone" ELSE invite[j]]
        /\ announced' = [j \in Ids |-> IF j = i THEN "reserved"
                                       ELSE IF j \in Spent(over) THEN "consumed" ELSE announced[j]]
        /\ outcome' = [j \in Ids |-> IF j \in Spent(over)
                                     THEN OutcomeFor(All(CHOOSE d \in over : pairing[d].invite = j)) ELSE outcome[j]]
  <2>1. \A gone \in Displaced(Pending \ {c}) : gone \cup ({c} \cap Pending) \in SUBSET Pending
    BY DEF Displaced
  <2>2. PICK gone \in Displaced(Pending \ {c}) : LET over == gone \cup ({c} \cap Pending) IN
          /\ pairing' = [d \in Clients |-> IF d = c THEN row ELSE IF d \in over THEN None ELSE pairing[d]]
          /\ told' = [j \in Ids |-> IF \E d \in over : pairing[d].invite = j /\ All(d) # None THEN "superseded" ELSE told[j]]
          /\ invite' = [j \in Ids |-> IF j = i THEN "reserved" ELSE IF j \in Spent(over) THEN "gone" ELSE invite[j]]
          /\ announced' = [j \in Ids |-> IF j = i THEN "reserved"
                                         ELSE IF j \in Spent(over) THEN "consumed" ELSE announced[j]]
          /\ outcome' = [j \in Ids |-> IF j \in Spent(over)
                                       THEN OutcomeFor(All(CHOOSE d \in over : pairing[d].invite = j)) ELSE outcome[j]]
    BY DEF InitDone
  <2> DEFINE over == gone \cup ({c} \cap Pending)
  <2>3. over \in SUBSET Pending /\ (c \in Pending => c \in over)
    BY <2>1
  <2> HIDE DEF c, i, row, All
  <2> QED BY <2>2, <2>3
<1> DEFINE code == [d \in over |-> All(d)]
<1> HIDE DEF c, i
<1>3. /\ \A d \in over : code[d] \in {"superseded", None}
      /\ \A d \in over : Sent(code[d]) <=> All(d) # None
  BY DEF Denial, Sent
<1>4. /\ \A d, e \in Pending : pairing[d].invite = pairing[e].invite => d = e
      /\ \A d \in Pending : pairing[d].invite \in Ids /\ pairing[d].invite # i /\ outcome[pairing[d].invite] = None
  <2>1. \A d \in Pending : pairing[d].invite \in Ids
    BY DEF Pending, Inv, Typed, Rows
  <2>2. \A d \in Pending : pairing[d].invite # i
    BY <1>1 DEF Inv, CodesAreSound, Used
  <2> QED BY <2>1, <2>2 DEF Inv, CodesAreSound, Agrees
<1>5. /\ \A j \in Ids : j \in Spent(over) <=> j \in Held /\ \E d \in over : pairing[d].invite = j
      /\ \A j \in Spent(over) : j \in Ids /\ invite[j] = "reserved"
  BY SpentAreReserved
<1>6. ASSUME NEW d \in over
      PROVE  (CHOOSE e \in over : pairing[e].invite = pairing[d].invite) = d
  BY <1>4
<1> HIDE DEF row
<1>7. Told(over, code)
  <2>1. ASSUME NEW d \in over
        PROVE  told'[pairing[d].invite] = IF Sent(code[d]) THEN code[d] ELSE told[pairing[d].invite]
    <3>1. told'[pairing[d].invite] = IF \E e \in over : pairing[e].invite = pairing[d].invite /\ All(e) # None
                                     THEN "superseded" ELSE told[pairing[d].invite]
      BY <1>2, <1>4
    <3>2. (\E e \in over : pairing[e].invite = pairing[d].invite /\ All(e) # None) <=> All(d) # None
      BY <1>4
    <3>3. Sent(code[d]) => code[d] = "superseded"
      BY <1>3 DEF Sent
    <3> HIDE DEF All, code
    <3> QED BY <1>3, <3>1, <3>2, <3>3
  <2>2. \A j \in Ids : (\A d \in over : pairing[d].invite # j) => told'[j] = told[j]
    BY <1>2
  <2> HIDE DEF All, code
  <2> QED BY <2>1, <2>2 DEF Told
<1>8. Shown(over, code)
  <2>1. ASSUME NEW d \in over, pairing[d].invite \in Held
        PROVE  /\ outcome'[pairing[d].invite] = OutcomeFor(code[d])
               /\ invite'[pairing[d].invite] = "gone" /\ announced'[pairing[d].invite] = "consumed"
    <3>1. pairing[d].invite \in Ids /\ pairing[d].invite # i /\ pairing[d].invite \in Spent(over)
      BY <1>4, <1>5, <2>1
    <3>2. outcome'[pairing[d].invite] = OutcomeFor(All(CHOOSE e \in over : pairing[e].invite = pairing[d].invite))
      BY <1>2, <3>1
    <3>3. outcome'[pairing[d].invite] = OutcomeFor(All(d))
      BY <1>6, <3>2
    <3> QED BY <1>2, <3>1, <3>3
  <2>2. \A j \in Ids : j \notin Held \/ (\A d \in over : pairing[d].invite # j) => outcome'[j] = outcome[j]
    BY <1>2, <1>5
  <2> HIDE DEF All, code
  <2> QED BY <2>1, <2>2 DEF Shown
<1> HIDE DEF All, code
<1>9. Leaves(over)
  <2>1. \A j \in Ids : invite[j] = "gone" => invite'[j] = "gone"
    BY <1>1, <1>2
  <2>2. row.invite = i /\ outcome[i] = None /\ i \in Ids
    BY <1>1 DEF row, Agrees
  <2>3. \A d \in Pending' : \/ d \in Clients /\ pairing'[d] = row
                            \/ d \in Pending \ over /\ pairing'[d] = pairing[d]
    BY <1>2 DEF Pending
  <2>4. \A d \in Pending \ over, e \in over : pairing[e].invite # pairing[d].invite
    BY <1>4
  <2> QED BY <1>4, <2>1, <2>2, <2>3, <2>4 DEF Leaves
<1>10. Reports
  BY <1>7, <1>8, <1>9, EndingReports
<1> QED BY <1>10, ReportsAgree

\* A sweep, with the ceremonies of cs ended first.
LEMMA ReapReports ==
  ASSUME Apart, Inv, Agrees, NEW cs \in SUBSET Pending, NEW code,
         Ceremonies(cs \cup LateClients, Expiry(cs, code)),
         Retire(cs \cup LateClients, Expiry(cs, code), LateInvites, "expired")
  PROVE  Reports /\ Agrees'
<1> DEFINE all == cs \cup LateClients
           each == Expiry(cs, code)
<1>1. all \in SUBSET Pending
  BY DEF LateClients
<1>2. Ceremonies(all, each) /\ Retire(all, each, LateInvites, "expired")
  OBVIOUS
<1> HIDE DEF all, each
<1> QED BY <1>1, <1>2, RetireReports

\* One ceremony ends.
LEMMA EndReports ==
  ASSUME Apart, Inv, Agrees, NEW c \in Pending, NEW code, End(c, code)
  PROVE  Reports /\ Agrees'
<1> DEFINE each == [d \in {c} |-> code]
<1>1. Ceremonies({c}, each) /\ Retire({c}, each, {}, None)
  BY DEF End
<1> HIDE DEF each
<1> QED BY <1>1, RetireReports

\* A ceremony is marked, and neither ends nor begins.
LEMMA MarkReports ==
  ASSUME Apart, Inv, Agrees, ProofHolds \/ SaveBegins \/ \E c \in Clients : Approve(c)
  PROVE  Reports /\ Agrees'
<1>1. UNCHANGED <<codes, told>>
  BY DEF ProofHolds, SaveBegins, Approve
<1>2. PICK c : /\ pairing[c] # None
               /\ \/ pairing' = [pairing EXCEPT ![c].approval = TRUE]
                  \/ pairing' = [pairing EXCEPT ![c].attempted = TRUE]
                  \/ pairing' = [pairing EXCEPT ![c].committing = TRUE]
  BY DEF ProofHolds, SaveBegins, Approve, Answerable, Is
<1>3. pairing \in [Clients -> Rows \cup {None}]
  BY DEF Inv, Typed
<1>4. ASSUME NEW d \in Clients, pairing'[d] # None
      PROVE  pairing[d] # None /\ pairing'[d].invite = pairing[d].invite
  <2>1. CASE d # c
    BY <1>2, <1>3, <1>4, <2>1
  <2>2. CASE d = c
    <3>1. pairing[d] \in Rows
      BY <1>2, <1>3, <2>2
    <3> QED BY <1>2, <1>3, <2>2, <3>1 DEF Rows
  <2> QED BY <2>1, <2>2
<1>5. \A d \in Pending' : d \in Pending /\ pairing'[d].invite = pairing[d].invite
  BY <1>4 DEF Pending
<1> QED BY <1>1, <1>5, StillReports

\* Whatever happens, panel and phone hear the same of a pairing.
LEMMA ReportsStep ==
  ASSUME Apart, Inv, Agrees, Next
  PROVE  Reports /\ Agrees'
<1>1. ASSUME UNCHANGED <<codes, ceremony>> PROVE Reports /\ Agrees'
  <2>1. UNCHANGED <<codes, told>> /\ \A c \in Pending' : c \in Pending /\ pairing'[c].invite = pairing[c].invite
    BY <1>1 DEF ceremony, codes, Pending
  <2> QED BY <2>1, StillReports
<1>2. CASE Close \/ Stop
  <2> DEFINE silent == [c \in Pending |-> None]
  <2>1. Ceremonies(Pending, silent) /\ Retire(Pending, silent, Held, "dropped")
    BY <1>2 DEF Close, Stop, DropTransientState
  <2> HIDE DEF silent
  <2> QED BY <2>1, RetireReports
<1>3. CASE Opens \/ ReaperFires \/ OtherInit \/ \E c \in Clients, i \in Ids : InitBegins(c, i)
  <2>1. {} \in SUBSET Pending /\ {} \cup LateClients = LateClients
    OBVIOUS
  <2>2. /\ Ceremonies({} \cup LateClients, Expiry({}, None))
        /\ Retire({} \cup LateClients, Expiry({}, None), LateInvites, "expired")
    BY <1>3, <2>1 DEF Opens, ReaperFires, OtherInit, InitBegins, Reap, EndAndReap
  <2> QED BY <2>1, <2>2, ReapReports
<1>4. CASE Tick \/ InitFails \/ ProofMoot \/ \E c \in Clients : ProofBegins(c)
  BY <1>1, <1>4 DEF Tick, InitFails, ProofMoot, ProofBegins
<1>5. ASSUME NEW m \in Minters, MintBegins(m) \/ MintRefused(m) \/ MintDone(m) PROVE Reports /\ Agrees'
  <2>1. CASE MintBegins(m) \/ MintRefused(m)
    BY <1>1, <2>1 DEF MintBegins, MintRefused
  <2> QED BY <1>5, <2>1, MintReports
<1>6. CASE InitDone \/ ProofHolds \/ SaveBegins \/ \E c \in Clients : Approve(c)
  BY <1>6, InitDoneReports, MarkReports
<1>7. ASSUME NEW c \in Clients, TransportLate(c) \/ TransportPoisoned(c) \/ TransportMalformed(c) \/ ApproveRefused(c)
      PROVE  Reports /\ Agrees'
  <2>1. c \in Pending
    BY <1>7 DEF TransportLate, TransportPoisoned, TransportMalformed, ApproveRefused, Answerable, Is, Pending
  <2>2. PICK code : End(c, code)
    BY <1>7 DEF TransportLate, TransportPoisoned, TransportMalformed, ApproveRefused
  <2> QED BY <2>1, <2>2, EndReports
<1>8. ASSUME NEW c \in Clients, ClientGone(c) \/ Deny(c) PROVE Reports /\ Agrees'
  <2>1. PICK cs \in SUBSET Pending, code \in {None, Denial(c, "user-denied")} : EndAndReap(cs, code)
    <3>1. CASE ClientGone(c)
      BY <3>1 DEF ClientGone
    <3>2. CASE Deny(c)
      <4>1. {c} \in SUBSET Pending
        BY <3>2 DEF Deny, Is, Pending
      <4> QED BY <3>2, <4>1 DEF Deny
    <3> QED BY <1>8, <3>1, <3>2
  <2> QED BY <2>1, ReapReports DEF EndAndReap
<1>9. CASE ProofFails
  <2>1. step.client \in Pending /\ End(step.client, Denial(step.client, "presence-rejected"))
    BY <1>9 DEF ProofFails, Is, Pending, Inv, Typed, Steps
  <2> QED BY <2>1, EndReports
<1>10. CASE SaveMoot
  <2> DEFINE c == Head(saves).client
  <2>1. CASE UNCHANGED <<codes, ceremony>>
    BY <1>1, <2>1
  <2>2. CASE Is(c, Head(saves).invite) /\ End(c, Denial(c, "invitation-expired"))
    <3>1. saves \in Seq(Jobs) /\ saves # <<>>
      BY <1>10 DEF SaveMoot, Inv, Typed
    <3>2. Head(saves) \in Jobs
      BY <3>1, HeadTailProperties
    <3>3. c \in Pending
      BY <2>2, <3>2 DEF Is, Pending, Jobs
    <3> HIDE DEF c
    <3> QED BY <2>2, <3>3, EndReports
  <2> QED BY <1>10, <2>1, <2>2 DEF SaveMoot
<1>11. CASE SaveDone \/ SaveFails
  <2> DEFINE c == saving.client
  <2>1. saving # None
    BY <1>11 DEF SaveDone, SaveFails
  <2>2. PICK code \in {"ok", "burrow-error"} : AnswerSave(code)
    BY <1>11 DEF SaveDone, SaveFails
  <2>3. CASE Is(c, saving.invite)
    <3>1. {c} \in SUBSET Pending
      BY <2>1, <2>3 DEF Is, Pending, Inv, Typed, Writes
    <3>2. EndAndReap({c}, code)
      BY <2>2, <2>3 DEF AnswerSave
    <3> HIDE DEF c
    <3> QED BY <3>1, <3>2, ReapReports DEF EndAndReap
  <2>4. CASE ~Is(c, saving.invite)
    BY <1>1, <2>2, <2>4 DEF AnswerSave
  <2> QED BY <2>3, <2>4
<1> QED BY <1>2, <1>3, <1>4, <1>5, <1>6, <1>7, <1>8, <1>9, <1>10, <1>11 DEF Next

\* It starts so, and a stutter changes nothing of it.
LEMMA AgreesFromTheStart ==
  /\ Init => Agrees
  /\ Agrees /\ UNCHANGED vars => Agrees'
<1>1. Init => Agrees
  BY DEF Init, Agrees, Pending
<1>2. Agrees /\ UNCHANGED vars => Agrees'
  BY DEF vars, Agrees, Pending
<1> QED BY <1>1, <1>2

\* The panel and the phone hear the same of one pairing: paired is in the store, a
\* refusal is not, and only burrow-error may stand for a phone that heard nothing,
\* for any numbers of clients, codes and teardowns (finishPairing).
THEOREM PanelAndPhoneAgree ==
  ASSUME Apart
  PROVE  Spec => []AnswersAgree
<1>1. Init => Inv /\ Agrees
  BY InitInv, AgreesFromTheStart
<1>2. Inv /\ Agrees /\ [Next]_vars => (Inv /\ Agrees)'
  BY InvStep, ReportsStep, AgreesFromTheStart
<1>3. Inv /\ Agrees => AnswersAgree
  <2> SUFFICES ASSUME Inv, Agrees, NEW i \in Ids, outcome[i] # None
               PROVE  /\ outcome[i] = OutcomeFor(told[i]) \/ (outcome[i] = "burrow-error" /\ told[i] = None)
                      /\ outcome[i] = "paired" => i \in disk
                      /\ outcome[i] \in Outcomes \ {"paired", "burrow-error"} => i \notin disk
    BY DEF Inv, AnswersAgree, PanelMatchesPhone
  <2>1. outcome[i] = OutcomeFor(told[i]) \/ (outcome[i] = "burrow-error" /\ told[i] = None)
    BY DEF Agrees
  <2>2. CASE outcome[i] = "burrow-error"
    BY <2>1, <2>2
  <2>3. CASE outcome[i] # "burrow-error"
    <3>1. outcome[i] = OutcomeFor(told[i]) /\ told[i] \in Denials \cup {"ok", None}
      BY <2>1, <2>3 DEF Inv, Typed
    <3>2. CASE told[i] = "ok"
      <4>1. outcome[i] = "paired"
        BY <3>1, <3>2 DEF OutcomeFor
      <4> QED BY <2>1, <3>2, <4>1 DEF Inv, AnswerMatchesAccess
    <3>3. CASE told[i] \in Denials
      <4>1. outcome[i] # "paired"
        BY <3>1, <3>3 DEF OutcomeFor, Denials
      <4> QED BY <2>1, <3>3, <4>1 DEF Inv, AnswerMatchesAccess
    <3>4. CASE told[i] = None
      <4>1. OutcomeFor(None) \in {None, "burrow-error"}
        <5>1. None \notin Denials \cup {"ok"}
          BY DEF Apart
        <5> QED BY <5>1 DEF OutcomeFor, Denials
      <4> QED BY <2>3, <3>1, <3>4, <4>1
    <3> QED BY <3>1, <3>2, <3>3, <3>4
  <2> QED BY <2>2, <2>3
<1> QED BY <1>1, <1>2, <1>3, PTL DEF Spec

\* What the panel hears of a code comes in order: a scan is never reported as
\* none, none never as a scan, and nothing after its end (retireInvitation); and
\* what a phone is told while its code is reserved reaches the panel in the same
\* step: no sweep, mint, scan, save or teardown retires the code first (reap).
THEOREM PanelHearsInOrder ==
  ASSUME Apart
  PROVE  Spec => PanelOrder
<1>1. Init => Inv /\ Holds /\ Agrees
  BY InitInv, InitHolds, AgreesFromTheStart
<1>2. Inv /\ Holds /\ Agrees /\ [Next]_vars => (Inv /\ Holds /\ Agrees)'
  BY InvStep, HoldsStep, HoldsStutter, ReportsStep, AgreesFromTheStart
<1>3. Inv /\ Holds /\ Agrees /\ [Next]_vars =>
        [\A i \in Ids : Follows(announced[i], announced'[i]) /\ Reaches(i)]_vars
  <2>1. Inv /\ Holds /\ Agrees /\ Next => PanelFollows /\ Reports
    BY HoldsStep, ReportsStep
  <2>2. Reports => \A i \in Ids : Reaches(i)
    BY DEF Reports, Ends, Stays, Reaches
  <2> QED BY <2>1, <2>2 DEF PanelFollows
<1> QED BY <1>1, <1>2, <1>3, PTL DEF Spec, PanelOrder
=============================================================================
