----------------------- MODULE RemoteTerminals_proofs -----------------------
(* A pane streams to a phone exactly through the attachment it was told of,  *)
(* and is heard in order, for any number of surfaces and attaches; and the   *)
(* directory a phone watches loses no change and never goes back.            *)
EXTENDS MCRemoteTerminals, TLAPS

-----------------------------------------------------------------------------
(* A session and its attaches (RemoteAttach).                              *)

\* The one live stream is the attachment's; an attach is silent until it is
\* done; and those to come have not begun.
Inv ==
  /\ TypeOK
  /\ \A r \in Attaches :
       /\ stream[r] = "live" <=> attachment = r
       /\ phase[r] \in {"unsent", "resolving", "subscribing", "resizing"} => heard[r] = "nothing"
       /\ r > generation => phase[r] = "unsent"
  /\ StreamIsAttachment

\* None is not the number of an attach.
Numbered == MaxAttaches \in Nat /\ None \notin Attaches

\* Nothing has been asked.
LEMMA InitInv == Numbered /\ Init => Inv
<1> SUFFICES ASSUME Numbered, Init PROVE Inv
  OBVIOUS
<1>1. 0 \in 0 .. MaxAttaches
  BY DEF Numbered
<1>2. TypeOK
  BY <1>1 DEF Init, TypeOK
<1>3. \A r \in Attaches : stream[r] = "none" /\ phase[r] = "unsent" /\ heard[r] = "nothing" /\ attachment # r
  BY DEF Numbered, Init
<1> QED BY <1>2, <1>3 DEF Inv, StreamIsAttachment

\* What tears an attachment down stops its stream with it, and no other.
LEMMA TeardownStops ==
  ASSUME Numbered, Inv, NEW rs \in SUBSET Attaches, Teardown(rs, stream)
  PROVE  /\ stream' \in [Attaches -> {"none", "live", "stopped", "exited"}]
         /\ attachment' \in Attaches \cup {None}
         /\ \A r \in Attaches : stream'[r] = "live" <=> attachment' = r
         /\ \A r \in Attaches \ rs : stream'[r] = stream[r]
         /\ \A r \in Attaches : attachment' = r => r \notin rs
BY DEF Numbered, Inv, TypeOK, Teardown, Stopped

\* Neither does the answer that r failed claim a stream.
LEMMA FailedKeeps ==
  ASSUME Numbered, Inv, NEW r \in Attaches, Step(r, "done"), Failed(r), phase[r] # "unsent",
         UNCHANGED <<generation, surface, disposed>>,
         stream' \in [Attaches -> {"none", "live", "stopped", "exited"}], attachment' \in Attaches \cup {None},
         \A q \in Attaches : stream'[q] = "live" <=> attachment' = q,
         \A q \in Attaches \ {r} : stream'[q] = stream[q] \/ heard[q] \notin {"attached", "data"} \/ generation # q
  PROVE  Inv'
<1>1. /\ phase' \in [Attaches -> {"unsent", "resolving", "subscribing", "resizing", "done", "detached"}]
      /\ phase'[r] = "done" /\ \A q \in Attaches : q # r => phase'[q] = phase[q]
  BY DEF Step, Inv, TypeOK
<1>2. /\ heard' \in [Attaches -> {"nothing", "failed", "attached", "data", "closed"}]
      /\ ~disposed => heard'[r] = "failed"
      /\ \A q \in Attaches : q # r => heard'[q] = heard[q]
  BY DEF Failed, Inv, TypeOK
<1>3. TypeOK'
  BY <1>1, <1>2 DEF Inv, TypeOK
<1>4. ASSUME NEW q \in Attaches
      PROVE  /\ stream'[q] = "live" <=> attachment' = q
             /\ phase'[q] \in {"unsent", "resolving", "subscribing", "resizing"} => heard'[q] = "nothing"
             /\ q > generation' => phase'[q] = "unsent"
  <2>1. CASE q = r
    BY <2>1, <1>1 DEF Inv
  <2>2. CASE q # r
    BY <2>2, <1>1, <1>2 DEF Inv
  <2> QED BY <2>1, <2>2
<1>5. ASSUME NEW q \in Attaches, ~disposed', heard'[q] \in {"attached", "data"}, phase'[q] # "detached", generation' = q
      PROVE  stream'[q] = "live"
  <2>1. q # r
    BY <1>2, <1>5
  <2> QED BY <2>1, <1>1, <1>2, <1>5 DEF Inv, StreamIsAttachment
<1> QED BY <1>3, <1>4, <1>5 DEF Inv, StreamIsAttachment

\* An attach that fails answers so and takes down what it installed.
LEMMA FailKeeps ==
  ASSUME Numbered, Inv, NEW r \in Attaches, Fail(r), phase[r] # "unsent",
         UNCHANGED <<generation, surface, disposed>>
  PROVE  Inv'
<1>1. Teardown({r}, stream) /\ {r} \in SUBSET Attaches
  BY DEF Fail
<1>2. /\ stream' \in [Attaches -> {"none", "live", "stopped", "exited"}]
      /\ attachment' \in Attaches \cup {None}
      /\ \A q \in Attaches : stream'[q] = "live" <=> attachment' = q
      /\ \A q \in Attaches \ {r} : stream'[q] = stream[q]
  BY <1>1, TeardownStops
<1> QED BY <1>2, FailedKeeps DEF Fail

\* The phone asks, leaves, or is gone.
LEMMA PhoneKeeps ==
  ASSUME Numbered, Inv, (\E s \in Surfaces : Attach(s) \/ Detach(s)) \/ Dispose
  PROVE  Inv'
<1>1. ASSUME NEW s \in Surfaces, Attach(s) PROVE Inv'
  <2>1. generation + 1 \in Attaches /\ generation + 1 \in 0 .. MaxAttaches /\ generation' = generation + 1
    BY <1>1 DEF Attach, Numbered, Inv, TypeOK, Attaches
  <2>2. heard[generation + 1] = "nothing"
    BY <2>1 DEF Inv, TypeOK
  <2> QED BY <1>1, <2>1, <2>2 DEF Attach, Step, Numbered, Inv, TypeOK, StreamIsAttachment, Attaches
<1>2. ASSUME NEW s \in Surfaces, Detach(s) PROVE Inv'
  <2>1. /\ stream' \in [Attaches -> {"none", "live", "stopped", "exited"}]
        /\ attachment' = None /\ attachment \in Attaches
        /\ \A r \in Attaches : stream'[r] # "live"
        /\ \A r \in Attaches : attachment # r => stream'[r] = stream[r]
    BY <1>2 DEF Detach, Teardown, Stopped, Numbered, Inv, TypeOK
  <2> QED BY <1>2, <2>1 DEF Detach, Numbered, Inv, TypeOK, StreamIsAttachment
<1>3. CASE Dispose
  BY <1>3, TeardownStops DEF Dispose, Inv, TypeOK, StreamIsAttachment
<1> QED BY <1>1, <1>2, <1>3

\* An attach comes a step further, or fails.
LEMMA SettleKeeps ==
  ASSUME Numbered, Inv, NEW r \in Attaches, Settle(r)
  PROVE  Inv'
<1>1. CASE NotResolved(r)
  BY <1>1 DEF NotResolved, Waiting, Step, Failed, Inv, TypeOK, StreamIsAttachment
<1>2. CASE SubscribeFails(r)
  <2>1. /\ stream' \in [Attaches -> {"none", "live", "stopped", "exited"}]
        /\ attachment' \in Attaches \cup {None}
        /\ \A q \in Attaches : stream'[q] = "live" <=> attachment' = q
    BY <1>2, TeardownStops DEF SubscribeFails, Prior
  <2>2. phase[r] # "unsent" /\ generation = r /\ Step(r, "done") /\ Failed(r) /\ UNCHANGED <<generation, surface, disposed>>
    BY <1>2 DEF SubscribeFails, Waiting, Current
  <2> QED BY <2>1, <2>2, FailedKeeps
<1>3. CASE Subscribe(r)
  <2>1. /\ stream' \in [Attaches -> {"none", "live", "stopped", "exited"}]
        /\ attachment' = r /\ generation = r
        /\ \A q \in Attaches : stream'[q] = "live" <=> q = r
    BY <1>3 DEF Subscribe, Current, Stopped, Prior, Inv, TypeOK
  <2> QED BY <1>3, <2>1 DEF Subscribe, Waiting, Step, Inv, TypeOK, StreamIsAttachment
<1>4. CASE Overtaken(r) \/ ProviderFails(r)
  BY <1>4, FailKeeps DEF Overtaken, Moot, ProviderFails
<1>5. CASE Resize(r)
  BY <1>5 DEF Resize, Waiting, Step, Inv, TypeOK, StreamIsAttachment
<1>6. CASE Finish(r)
  BY <1>6 DEF Finish, Installed, Current, Step, Inv, TypeOK, StreamIsAttachment
<1> QED BY <1>1, <1>2, <1>3, <1>4, <1>5, <1>6 DEF Settle

\* The PTY speaks, or ends.
LEMMA StreamKeeps ==
  ASSUME Numbered, Inv, NEW r \in Attaches, Data(r) \/ Exit(r)
  PROVE  Inv'
<1>1. CASE Data(r)
  BY <1>1 DEF Data, Streaming, Inv, TypeOK, StreamIsAttachment
<1>2. CASE Exit(r)
  <2>1. attachment' = None /\ stream' = [stream EXCEPT ![r] = "exited"]
    BY <1>2 DEF Exit, Teardown, Stopped, Inv, TypeOK
  <2> QED BY <1>2, <2>1 DEF Exit, Streaming, Numbered, Inv, TypeOK, StreamIsAttachment
<1> QED BY <1>1, <1>2

\* A PTY streams to a phone only through its attachment, and a phone that was
\* told it is attached has its stream until it hears of the exit, whichever
\* attach resolves, fails or is overtaken first (beginAttach,
\* teardownAttachment).
THEOREM AttachedMeansStreaming ==
  ASSUME Numbered
  PROVE  Spec => []StreamIsAttachment
<1>1. Inv /\ [Next]_vars => Inv'
  <2> SUFFICES ASSUME Inv, [Next]_vars PROVE Inv'
    OBVIOUS
  <2>1. CASE UNCHANGED vars
    BY <2>1 DEF vars, Inv, TypeOK, StreamIsAttachment
  <2> QED BY <2>1, PhoneKeeps, SettleKeeps, StreamKeeps DEF Next
<1>2. Init => Inv
  BY InitInv
<1>3. Inv => StreamIsAttachment
  BY DEF Inv
<1> QED BY <1>1, <1>2, <1>3, PTL DEF Spec

-----------------------------------------------------------------------------
(* What the phone hears (EventsInOrder).                                   *)

\* A session that is over has no attachment, and no attach was answered after
\* the one that is attached.
Ordered ==
  /\ disposed => attachment = None
  /\ \A r, q \in Attaches :
       attachment = r /\ q > r => heard[q] \notin {"attached", "data", "closed"}

\* What a step may tell the phone of r.
Tells(r) ==
  heard'[r] # heard[r] =>
    /\ ~disposed /\ Follows(heard[r], heard'[r])
    /\ heard'[r] # "failed" =>
         \A q \in r + 1 .. MaxAttaches : heard[q] \notin {"attached", "data", "closed"}

\* The phone asks, leaves, or is gone, and hears nothing.
LEMMA PhoneIsOrdered ==
  ASSUME Numbered, Inv, Ordered, (\E s \in Surfaces : Attach(s) \/ Detach(s)) \/ Dispose
  PROVE  Ordered' /\ heard' = heard
<1>1. ASSUME NEW s \in Surfaces, Attach(s) PROVE Ordered' /\ heard' = heard
  BY <1>1 DEF Attach, Ordered
<1>2. ASSUME (\E s \in Surfaces : Detach(s)) \/ Dispose PROVE Ordered' /\ heard' = heard
  <2>1. attachment' = None /\ heard' = heard
    BY <1>2 DEF Detach, Dispose, Teardown, Inv, TypeOK
  <2> QED BY <2>1 DEF Ordered, Numbered
<1> QED BY <1>1, <1>2

\* An attach that fails was not answered yet, and is not attached any more.
LEMMA FailIsOrdered ==
  ASSUME Numbered, Inv, Ordered, NEW r \in Attaches, Failed(r), heard[r] = "nothing",
         attachment' \in {attachment, None}, disposed' = disposed
  PROVE  Ordered' /\ \A q \in Attaches : Tells(q)
<1>1. heard \in [Attaches -> {"nothing", "failed", "attached", "data", "closed"}]
  BY DEF Inv, TypeOK
<1> QED BY <1>1 DEF Failed, Ordered, Numbered, Tells, Follows

\* An attach comes a step further, or fails.
LEMMA SettleIsOrdered ==
  ASSUME Numbered, Inv, Ordered, NEW r \in Attaches, Settle(r)
  PROVE  Ordered' /\ \A q \in Attaches : Tells(q)
<1> USE DEF Waiting, Step
<1>1. CASE NotResolved(r)
  BY <1>1, FailIsOrdered DEF NotResolved, Inv
<1>2. CASE SubscribeFails(r) \/ Overtaken(r) \/ ProviderFails(r)
  <2>1. Failed(r) /\ heard[r] = "nothing" /\ disposed' = disposed
    BY <1>2 DEF SubscribeFails, Overtaken, ProviderFails, Moot, Fail, Inv
  <2>2. attachment' \in {attachment, None}
    BY <1>2 DEF SubscribeFails, Overtaken, ProviderFails, Fail, Teardown
  <2> QED BY <2>1, <2>2, FailIsOrdered
<1>3. CASE Subscribe(r)
  <2>1. \A q \in Attaches : q > r => heard[q] = "nothing"
    BY <1>3 DEF Subscribe, Current, Inv
  <2>2. attachment' = r /\ heard' = heard /\ ~disposed /\ disposed' = disposed
    BY <1>3 DEF Subscribe, Current
  <2> QED BY <2>1, <2>2 DEF Ordered, Tells
<1>4. CASE Resize(r)
  BY <1>4 DEF Resize, Ordered, Tells
<1>5. CASE Finish(r)
  <2>1. /\ ~disposed /\ generation = r /\ attachment = r /\ heard[r] = "nothing"
        /\ UNCHANGED <<attachment, disposed>>
    BY <1>5 DEF Finish, Installed, Current, Inv
  <2>2. \A q \in Attaches : q > r => heard[q] = "nothing"
    BY <2>1 DEF Inv
  <2>3. PICK flushed \in {"attached", "data"} : heard' = [heard EXCEPT ![r] = flushed]
    BY <1>5 DEF Finish
  <2>4. heard'[r] = flushed /\ \A q \in Attaches \ {r} : heard'[q] = heard[q]
    BY <2>3 DEF Inv, TypeOK
  <2>5. Ordered'
    BY <2>1, <2>2, <2>4 DEF Ordered, Attaches
  <2>6. \A q \in r + 1 .. MaxAttaches : q \in Attaches /\ q > r
    BY DEF Attaches, Numbered
  <2> QED BY <2>1, <2>2, <2>4, <2>5, <2>6 DEF Tells, Follows
<1> QED BY <1>1, <1>2, <1>3, <1>4, <1>5 DEF Settle

\* The PTY speaks, or ends, and is heard while it is the newest answered.
LEMMA StreamIsOrdered ==
  ASSUME Numbered, Inv, Ordered, NEW r \in Attaches, Data(r) \/ Exit(r)
  PROVE  Ordered' /\ \A q \in Attaches : Tells(q)
<1>1. attachment = r /\ ~disposed /\ disposed' = disposed
  BY DEF Data, Exit, Inv, Ordered, Numbered
<1>2. /\ \A q \in Attaches \ {r} : heard'[q] = heard[q]
      /\ heard'[r] = heard[r] \/ Follows(heard[r], heard'[r])
  BY DEF Data, Exit, Streaming, Follows, Inv, TypeOK
<1>3. attachment' \in {r, None}
  BY <1>1 DEF Data, Exit, Teardown
<1>4. \A q \in r + 1 .. MaxAttaches : q \in Attaches /\ q > r
  BY DEF Attaches, Numbered
<1>5. Ordered'
  BY <1>1, <1>2, <1>3 DEF Ordered, Numbered, Attaches
<1> QED BY <1>1, <1>2, <1>4, <1>5 DEF Tells, Ordered

\* A phone hears of each attach in order, its answer, output and the exit, and
\* nothing of it once a newer one was answered or the session is over
\* (streaming, pendingEvents, the generations of #attachGeneration).
THEOREM HeardInOrder ==
  ASSUME Numbered
  PROVE  Spec => EventsInOrder
<1>1. ASSUME Inv, Ordered, [Next]_vars
      PROVE  Inv' /\ Ordered' /\ [\A r \in Attaches : Tells(r)]_vars
  <2>1. CASE UNCHANGED vars
    BY <1>1, <2>1 DEF vars, Inv, TypeOK, StreamIsAttachment, Ordered
  <2>2. CASE (\E s \in Surfaces : Attach(s) \/ Detach(s)) \/ Dispose
    BY <1>1, <2>2, PhoneKeeps, PhoneIsOrdered DEF Tells
  <2>3. CASE \E r \in Attaches : Settle(r) \/ Data(r) \/ Exit(r)
    BY <1>1, <2>3, SettleKeeps, StreamKeeps, SettleIsOrdered, StreamIsOrdered
  <2> QED BY <1>1, <2>1, <2>2, <2>3 DEF Next
<1>2. Init => Inv /\ Ordered
  BY InitInv DEF Init, Ordered, Numbered
<1>3. [\A r \in Attaches : Tells(r)]_vars =>
        [\A r \in Attaches : heard'[r] # heard[r] =>
           /\ ~disposed /\ Follows(heard[r], heard'[r])
           /\ heard'[r] # "failed" =>
                \A q \in r + 1 .. MaxAttaches : heard[q] \notin {"attached", "data", "closed"}]_vars
  BY DEF Tells
<1> QED BY <1>1, <1>2, <1>3, PTL DEF Spec, EventsInOrder

-----------------------------------------------------------------------------
(* The directory a phone watches (RemoteDirectory).                        *)

\* The bounds are numbers.
Bounded == MaxChanges \in Nat /\ MaxWatches \in Nat /\ MaxCollects \in Nat

\* A collect under way is told from the others by its generation, and the panes
\* that were shown are not newer than those the newest one began at.
Collects ==
  /\ watching \/ armed => watches > 0
  /\ \A c \in collects : c.generation <= collectGeneration /\ c.generation # shown.generation
  /\ \A c, d \in collects : c.generation = d.generation => c = d
  /\ shown.watch <= watches /\ shown.generation <= collectGeneration
  /\ \A w \in Directory!Webviews : shown.directory[w] <= directory[w]
  /\ \A c \in collects : \A w \in Directory!Webviews : c.from[w] <= directory[w]
  /\ \A c \in collects : c.generation = collectGeneration =>
       \A w \in Directory!Webviews : shown.directory[w] <= c.from[w]

\* Unless the timer is set, the newest collect began after the last change and
\* whoever it is without is still to answer.
Repaired ==
  watching /\ ~armed => \A c \in collects : Directory!Newest(c) =>
    /\ c.from = directory
    /\ \A w \in c.missed : w \in Local => Directory!AnswersLate(w)

DirectoryInv == Directory!TypeOK /\ Collects /\ Repaired /\ Directory!NoChangeLost

\* No step of the directory takes the picker back.
Forward ==
  shown' # shown =>
    /\ watching
    /\ shown'.watch >= shown.watch /\ shown'.generation > shown.generation
    /\ \A w \in Directory!Webviews : shown'.directory[w] >= shown.directory[w]

\* The fields of what is collected and shown.
LEMMA FieldsAreNumbers ==
  ASSUME Bounded, Directory!TypeOK
  PROVE  /\ watches \in Int /\ collectGeneration \in Int
         /\ shown.watch \in Int /\ shown.generation \in Int
         /\ \A w \in Directory!Webviews : directory[w] \in Int /\ shown.directory[w] \in Int
         /\ \A c \in collects : c.generation \in Int /\ c.watch \in Int
         /\ \A c \in collects : \A w \in Directory!Webviews : c.from[w] \in Int
BY DEF Bounded, Directory!TypeOK, Directory!Generations, Directory!Panes

\* A collect starts with the panes as they are.
LEMMA CollectKeeps ==
  ASSUME Bounded, DirectoryInv, Directory!Collect(watches'), watches' \in {watches, watches + 1},
         watches' \in 1 .. MaxWatches, UNCHANGED <<directory, late, shown>>,
         armed' \in BOOLEAN, watching' \in BOOLEAN
  PROVE  DirectoryInv' /\ Forward
<1> DEFINE new == [generation |-> collectGeneration + 1, watch |-> watches', from |-> directory, missed |-> {}]
<1>1. /\ collectGeneration < MaxCollects /\ collectGeneration' = collectGeneration + 1
      /\ collects' = collects \cup {new} /\ failed' = FALSE
  BY DEF Directory!Collect
<1>2. /\ watches \in Int /\ collectGeneration \in Int
      /\ shown.watch \in Int /\ shown.generation \in Int
      /\ \A w \in Directory!Webviews : directory[w] \in Int /\ shown.directory[w] \in Int
      /\ \A c \in collects : c.generation \in Int /\ c.watch \in Int
      /\ \A c \in collects : \A w \in Directory!Webviews : c.from[w] \in Int
  BY FieldsAreNumbers DEF DirectoryInv
<1>3. new.generation = collectGeneration + 1 /\ new.watch = watches' /\ new.from = directory /\ new.missed = {}
  OBVIOUS
<1>4. collectGeneration + 1 \in Directory!Generations
  BY <1>1 DEF DirectoryInv, Directory!TypeOK, Directory!Generations, Bounded
<1>5. Directory!TypeOK'
  <2>1. watches' \in 0 .. MaxWatches
    BY <1>2 DEF Bounded
  <2>2. new \in [generation : Directory!Generations, watch : 1 .. MaxWatches,
                 from : Directory!Panes, missed : SUBSET Directory!Webviews]
    BY <1>4 DEF DirectoryInv, Directory!TypeOK
  <2>3. collects' \subseteq [generation : Directory!Generations, watch : 1 .. MaxWatches,
                             from : Directory!Panes, missed : SUBSET Directory!Webviews]
    BY <1>1, <2>2 DEF DirectoryInv, Directory!TypeOK
  <2> HIDE DEF new
  <2> QED BY <1>1, <1>4, <2>1, <2>3 DEF DirectoryInv, Directory!TypeOK
<1> HIDE DEF new
<1>6. Collects'
  <2>1. (watching \/ armed => watches > 0)'
    <3>1. watches' > 0
      BY <1>2
    <3> QED BY <3>1
  <2>2. \A c \in collects' : c.generation <= collectGeneration' /\ c.generation # shown'.generation
    BY <1>1, <1>2, <1>3 DEF DirectoryInv, Collects
  <2>3. \A c, d \in collects' : c.generation = d.generation => c = d
    BY <1>1, <1>2, <1>3 DEF DirectoryInv, Collects
  <2>4. shown'.watch <= watches' /\ shown'.generation <= collectGeneration'
    BY <1>1, <1>2 DEF DirectoryInv, Collects
  <2>5. \A c \in collects' : c.generation = collectGeneration' => c = new
    BY <1>1, <1>2, <1>3 DEF DirectoryInv, Collects
  <2>6. \A c \in collects' : \A w \in Directory!Webviews : c.from[w] <= directory'[w]
    BY <1>1, <1>2, <1>3 DEF DirectoryInv, Collects
  <2>7. \A c \in collects' : c.generation = collectGeneration' =>
          \A w \in Directory!Webviews : shown'.directory[w] <= c.from[w]
    BY <1>3, <2>5 DEF DirectoryInv, Collects
  <2>8. \A w \in Directory!Webviews : shown'.directory[w] <= directory'[w]
    BY DEF DirectoryInv, Collects
  <2> QED BY <2>1, <2>2, <2>3, <2>4, <2>6, <2>7, <2>8 DEF Collects
<1>7. Repaired'
  <2>1. \A c \in collects' : c.generation = collectGeneration' => c = new
    BY <1>1, <1>2, <1>3 DEF DirectoryInv, Collects
  <2>2. \A c \in collects' : c.generation = collectGeneration' => c.missed = {} /\ c.from = directory'
    BY <1>3, <2>1
  <2> QED BY <2>2 DEF Repaired, Directory!Newest
<1>8. Directory!NoChangeLost'
  BY <1>1, <1>3 DEF Directory!NoChangeLost, Directory!Underway, Directory!Current
<1> QED BY <1>5, <1>6, <1>7, <1>8 DEF DirectoryInv, Forward

\* A webview misses the budget of a collect.
LEMMA MissesKeeps ==
  ASSUME Bounded, DirectoryInv, NEW c \in collects, NEW w \in Directory!Webviews, Directory!Misses(c, w)
  PROVE  DirectoryInv' /\ Forward
<1> DEFINE less == [c EXCEPT !.missed = @ \cup {w}]
<1> DEFINE answer == [generation |-> c.generation, webview |-> w]
<1>1. /\ collects' = (collects \ {c}) \cup {less} /\ late' = late \cup {answer}
      /\ UNCHANGED <<directory, watches, watching, armed, collectGeneration, shown, failed>>
  BY DEF Directory!Misses
<1>2. c \in [generation : Directory!Generations, watch : 1 .. MaxWatches,
             from : Directory!Panes, missed : SUBSET Directory!Webviews]
  BY DEF DirectoryInv, Directory!TypeOK
<1>3. /\ less \in [generation : Directory!Generations, watch : 1 .. MaxWatches,
                   from : Directory!Panes, missed : SUBSET Directory!Webviews]
      /\ less.generation = c.generation /\ less.watch = c.watch /\ less.from = c.from
      /\ less.missed = c.missed \cup {w}
  BY <1>2
<1>4. answer \in [generation : Directory!Generations, webview : Directory!Webviews] /\ answer.webview = w
  BY <1>2
<1> HIDE DEF less, answer
<1>5. Directory!TypeOK'
  BY <1>1, <1>3, <1>4 DEF DirectoryInv, Directory!TypeOK
<1>6. \A d \in collects' : d \in collects \/ d = less
  BY <1>1
<1>7. Collects'
  <2>1. \A d \in collects' : d.generation <= collectGeneration /\ d.generation # shown.generation
    BY <1>3, <1>6 DEF DirectoryInv, Collects
  <2>2. \A d, e \in collects' : d.generation = e.generation => d = e
    BY <1>1, <1>3 DEF DirectoryInv, Collects
  <2>3. \A d \in collects' : \A v \in Directory!Webviews : d.from[v] <= directory[v]
    BY <1>3, <1>6 DEF DirectoryInv, Collects
  <2>4. \A d \in collects' : d.generation = collectGeneration =>
          \A v \in Directory!Webviews : shown.directory[v] <= d.from[v]
    BY <1>3, <1>6 DEF DirectoryInv, Collects
  <2> QED BY <1>1, <2>1, <2>2, <2>3, <2>4 DEF DirectoryInv, Collects
<1>8. \A v : Directory!AnswersLate(v) => Directory!AnswersLate(v)'
  BY <1>1 DEF Directory!AnswersLate
<1>9. Directory!AnswersLate(w)'
  BY <1>1, <1>4 DEF Directory!AnswersLate
<1>10. Repaired'
  <2> SUFFICES ASSUME watching, ~armed, NEW d \in collects', Directory!Newest(d)'
               PROVE  /\ d.from = directory
                      /\ \A v \in d.missed : v \in Local => Directory!AnswersLate(v)'
    BY <1>1 DEF Repaired
  <2>1. CASE d \in collects
    <3>1. Directory!Newest(d)
      BY <1>1 DEF Directory!Newest
    <3> QED BY <1>8, <2>1, <3>1 DEF DirectoryInv, Repaired
  <2>2. CASE d = less
    <3>1. Directory!Newest(c)
      BY <1>1, <1>3, <2>2 DEF Directory!Newest
    <3>2. /\ c.from = directory
          /\ \A v \in c.missed : v \in Local => Directory!AnswersLate(v)
      BY <3>1 DEF DirectoryInv, Repaired
    <3> QED BY <1>3, <1>8, <1>9, <2>2, <3>2
  <2> QED BY <1>6, <2>1, <2>2
<1>11. ASSUME watching, NEW v \in Directory!Webviews
       PROVE  (Directory!Underway(v) \/ (shown.watch = watches /\ (Directory!Seen(v) \/ Directory!LeftOut(v))))'
  <2>1. Directory!Underway(v) => Directory!Underway(v)'
    <3>1. ASSUME NEW d \in collects, Directory!Current(d), d.from[v] = directory[v]
          PROVE  \E e \in collects' : Directory!Current(e)' /\ e.from[v] = directory'[v]
      <4>1. CASE d = c
        <5>1. less \in collects' /\ Directory!Current(less)' /\ less.from[v] = directory'[v]
          BY <1>1, <1>3, <3>1, <4>1 DEF Directory!Current
        <5> QED BY <5>1
      <4>2. CASE d # c
        <5>1. d \in collects' /\ Directory!Current(d)' /\ d.from[v] = directory'[v]
          BY <1>1, <3>1, <4>2 DEF Directory!Current
        <5> QED BY <5>1
      <4> QED BY <4>1, <4>2
    <3> QED BY <1>1, <3>1 DEF Directory!Underway
  <2>2. Directory!Seen(v) \/ Directory!LeftOut(v) => (Directory!Seen(v) \/ Directory!LeftOut(v))'
    BY <1>1, <1>8 DEF Directory!Seen, Directory!LeftOut
  <2> QED BY <1>1, <1>11, <2>1, <2>2 DEF DirectoryInv, Directory!NoChangeLost
<1>12. Directory!NoChangeLost'
  BY <1>1, <1>11 DEF Directory!NoChangeLost
<1> QED BY <1>1, <1>5, <1>7, <1>10, <1>12 DEF DirectoryInv, Forward

\* A late answer sets the timer of the process that asked, or changes nothing.
LEMMA LateKeeps ==
  ASSUME Bounded, DirectoryInv, NEW l \in late, Directory!LateAnswer(l)
  PROVE  DirectoryInv' /\ Forward
<1>1. /\ late' = late \ {l} /\ armed' = (armed \/ (l.webview \in Local /\ watching))
      /\ UNCHANGED <<directory, watches, watching, collectGeneration, collects, shown, failed>>
  BY DEF Directory!LateAnswer, Directory!Armed
<1>2. armed' \in BOOLEAN
  BY <1>1 DEF DirectoryInv, Directory!TypeOK
<1>3. late' \subseteq [generation : Directory!Generations, webview : Directory!Webviews]
  BY <1>1 DEF DirectoryInv, Directory!TypeOK
<1>4. Directory!TypeOK'
  BY <1>1, <1>2, <1>3 DEF DirectoryInv, Directory!TypeOK
<1>5. Collects'
  <2>1. (watching \/ armed => watches > 0)'
    BY <1>1 DEF DirectoryInv, Collects
  <2> QED BY <1>1, <2>1 DEF DirectoryInv, Collects
<1>6. ASSUME watching, NEW w \in Local, Directory!AnswersLate(w)
      PROVE  Directory!AnswersLate(w)' \/ armed'
  BY <1>1, <1>6 DEF Directory!AnswersLate
<1>7. Repaired'
  <2>1. \A c : Directory!Newest(c)' <=> Directory!Newest(c)
    BY <1>1 DEF Directory!Newest
  <2> QED BY <1>1, <1>6, <2>1 DEF DirectoryInv, Repaired
<1>8. Directory!NoChangeLost'
  <2> SUFFICES ASSUME watching, ~armed', NEW w \in Directory!Webviews
               PROVE  (Directory!Underway(w) \/ (shown.watch = watches /\ (Directory!Seen(w) \/ Directory!LeftOut(w))))'
    BY <1>1 DEF Directory!NoChangeLost, Directory!Underway
  <2>1. Directory!Underway(w) => Directory!Underway(w)'
    BY <1>1 DEF Directory!Underway, Directory!Current
  <2>2. Directory!Seen(w) => Directory!Seen(w)'
    BY <1>1 DEF Directory!Seen
  <2>3. Directory!LeftOut(w) => Directory!LeftOut(w)'
    BY <1>1, <1>6 DEF Directory!LeftOut
  <2> QED BY <1>1, <2>1, <2>2, <2>3 DEF DirectoryInv, Directory!NoChangeLost
<1> QED BY <1>1, <1>4, <1>5, <1>7, <1>8 DEF DirectoryInv, Forward

\* A collect ends: it is shown when it is the newest, and dropped otherwise.
LEMMA CollectedKeeps ==
  ASSUME Bounded, DirectoryInv, NEW c \in collects, Directory!Collected(c)
  PROVE  DirectoryInv' /\ Forward
<1>1. /\ watches \in Int /\ collectGeneration \in Int
      /\ shown.watch \in Int /\ shown.generation \in Int
      /\ \A w \in Directory!Webviews : directory[w] \in Int /\ shown.directory[w] \in Int
      /\ \A d \in collects : d.generation \in Int /\ d.watch \in Int
      /\ \A d \in collects : \A w \in Directory!Webviews : d.from[w] \in Int
  BY FieldsAreNumbers DEF DirectoryInv
<1>2. /\ c \in [generation : Directory!Generations, watch : 1 .. MaxWatches,
                from : Directory!Panes, missed : SUBSET Directory!Webviews]
      /\ watches \in 0 .. MaxWatches
      /\ shown.directory \in [Directory!Webviews -> -1 .. MaxChanges]
  BY DEF DirectoryInv, Directory!TypeOK
<1>3. /\ collects' = collects \ {c}
      /\ UNCHANGED <<directory, watches, watching, armed, collectGeneration, late, failed>>
  BY DEF Directory!Collected
<1>4. CASE Directory!Newest(c)
  <2>1. watching /\ c.watch = watches /\ c.generation = collectGeneration
    BY <1>4 DEF Directory!Newest
  <2>2. PICK read \in Directory!Panes :
          /\ \A w \in Directory!Webviews : c.from[w] <= read[w] /\ read[w] <= directory[w]
          /\ shown' = [watch |-> c.watch, generation |-> c.generation, without |-> c.missed,
                       directory |-> [w \in Directory!Webviews |->
                                        IF w \in c.missed THEN shown.directory[w] ELSE read[w]]]
    BY <1>4 DEF Directory!Collected
  <2> DEFINE seen == [w \in Directory!Webviews |-> IF w \in c.missed THEN shown.directory[w] ELSE read[w]]
  <2>3. seen \in [Directory!Webviews -> -1 .. MaxChanges]
    <3>1. \A w \in Directory!Webviews : read[w] \in -1 .. MaxChanges
      BY DEF Directory!Panes, Bounded
    <3> QED BY <1>2, <3>1
  <2>4. \A w \in Directory!Webviews : shown.directory[w] <= c.from[w]
    BY <2>1 DEF DirectoryInv, Collects
  <2>5. \A w \in Directory!Webviews : shown.directory[w] <= seen[w] /\ seen[w] <= directory[w]
    <3>1. \A w \in Directory!Webviews : read[w] \in Int
      BY DEF Directory!Panes
    <3>2. \A w \in Directory!Webviews : shown.directory[w] <= read[w]
      BY <1>1, <2>2, <2>4, <3>1
    <3>3. \A w \in Directory!Webviews : shown.directory[w] <= directory[w] /\ shown.directory[w] <= shown.directory[w]
      BY <1>1 DEF DirectoryInv, Collects
    <3> QED BY <2>2, <3>2, <3>3
  <2>6. \A w \in Directory!Webviews : w \notin c.missed =>
          c.from[w] <= seen[w] /\ seen[w] <= directory[w]
    BY <2>2
  <2> HIDE DEF seen
  <2>7. /\ shown'.watch = watches /\ shown'.generation = collectGeneration
        /\ shown'.without = c.missed /\ shown'.directory = seen
        /\ shown' \in [watch : 0 .. MaxWatches, generation : Directory!Generations,
                       directory : [Directory!Webviews -> -1 .. MaxChanges],
                       without : SUBSET Directory!Webviews]
    BY <1>2, <2>1, <2>2, <2>3 DEF seen
  <2>8. Directory!TypeOK'
    BY <1>3, <2>7 DEF DirectoryInv, Directory!TypeOK
  <2>9. \A d \in collects' : d \in collects /\ d.generation # collectGeneration
    BY <1>3, <2>1 DEF DirectoryInv, Collects
  <2>10. Collects'
    <3>1. \A d \in collects' : d.generation <= collectGeneration' /\ d.generation # shown'.generation
      BY <1>3, <2>7, <2>9 DEF DirectoryInv, Collects
    <3>2. \A d, e \in collects' : d.generation = e.generation => d = e
      BY <2>9 DEF DirectoryInv, Collects
    <3>3. shown'.watch <= watches' /\ shown'.generation <= collectGeneration'
      BY <1>1, <1>3, <2>7
    <3>4. \A w \in Directory!Webviews : shown'.directory[w] <= directory'[w]
      BY <1>3, <2>5, <2>7
    <3>5. \A d \in collects' : \A w \in Directory!Webviews : d.from[w] <= directory'[w]
      BY <1>3, <2>9 DEF DirectoryInv, Collects
    <3>6. (watching \/ armed => watches > 0)'
      BY <1>3 DEF DirectoryInv, Collects
    <3>7. \A d \in collects' : d.generation # collectGeneration'
      BY <1>3, <2>9
    <3> QED BY <3>1, <3>2, <3>3, <3>4, <3>5, <3>6, <3>7 DEF Collects
  <2>11. Repaired'
    BY <1>3, <2>9 DEF Repaired, Directory!Newest
  <2>12. Directory!NoChangeLost'
    <3> SUFFICES ASSUME ~armed, ~failed, NEW w \in Directory!Webviews
                 PROVE  (Directory!Seen(w) \/ Directory!LeftOut(w))'
      BY <1>3, <2>7 DEF Directory!NoChangeLost, Directory!Underway
    <3>1. c.from = directory /\ (w \in c.missed => (w \in Local => Directory!AnswersLate(w)))
      BY <1>4, <2>1 DEF DirectoryInv, Repaired
    <3>2. CASE w \in c.missed
      BY <1>3, <2>7, <3>1, <3>2 DEF Directory!LeftOut, Directory!AnswersLate
    <3>3. CASE w \notin c.missed
      <4>1. seen[w] = directory[w]
        <5>1. directory[w] <= seen[w] /\ seen[w] <= directory[w] /\ seen[w] \in Int /\ directory[w] \in Int
          BY <1>1, <2>3, <2>6, <3>1, <3>3
        <5> QED BY <5>1
      <4> QED BY <1>3, <2>7, <3>3, <4>1 DEF Directory!Seen
    <3> QED BY <3>2, <3>3
  <2> QED BY <1>1, <2>1, <2>5, <2>7, <2>8, <2>10, <2>11, <2>12 DEF DirectoryInv, Collects, Forward
<1>5. CASE ~Directory!Newest(c)
  <2>1. shown' = shown
    BY <1>5 DEF Directory!Collected
  <2>2. Directory!TypeOK'
    BY <1>3, <2>1 DEF DirectoryInv, Directory!TypeOK
  <2>3. Collects' /\ Repaired'
    BY <1>3, <2>1 DEF DirectoryInv, Collects, Repaired, Directory!Newest, Directory!AnswersLate
  <2>4. \A d \in collects : watching /\ Directory!Current(d) => d # c
    BY <1>5 DEF Directory!Current, Directory!Newest
  <2>5. ASSUME watching, NEW w \in Directory!Webviews
        PROVE  (Directory!Underway(w) \/ (shown.watch = watches /\ (Directory!Seen(w) \/ Directory!LeftOut(w))))'
    <3>1. Directory!Underway(w) => Directory!Underway(w)'
      BY <1>3, <2>4, <2>5 DEF Directory!Underway, Directory!Current
    <3>2. Directory!Seen(w) \/ Directory!LeftOut(w) => (Directory!Seen(w) \/ Directory!LeftOut(w))'
      BY <1>3, <2>1 DEF Directory!Seen, Directory!LeftOut, Directory!AnswersLate
    <3> QED BY <1>3, <2>1, <2>5, <3>1, <3>2 DEF DirectoryInv, Directory!NoChangeLost
  <2>6. Directory!NoChangeLost'
    BY <1>3, <2>5 DEF Directory!NoChangeLost
  <2> QED BY <2>1, <2>2, <2>3, <2>6 DEF DirectoryInv, Forward
<1> QED BY <1>4, <1>5

\* A collect that fails is named as such when it is the newest.
LEMMA FailsKeeps ==
  ASSUME Bounded, DirectoryInv, NEW c \in collects, Directory!CollectFails(c)
  PROVE  DirectoryInv' /\ Forward
<1>1. /\ collects' = collects \ {c} /\ failed' = (failed \/ Directory!Newest(c))
      /\ UNCHANGED <<directory, watches, watching, armed, collectGeneration, late, shown>>
  BY DEF Directory!CollectFails
<1>2. Directory!TypeOK'
  BY <1>1 DEF DirectoryInv, Directory!TypeOK, Directory!Newest
<1>3. Collects' /\ Repaired'
  BY <1>1 DEF DirectoryInv, Collects, Repaired, Directory!Newest, Directory!AnswersLate
<1>4. ASSUME watching, NEW w \in Directory!Webviews
      PROVE  (Directory!Underway(w) \/ (shown.watch = watches /\ (Directory!Seen(w) \/ Directory!LeftOut(w))))'
  <2>1. Directory!Underway(w) => Directory!Underway(w)'
    BY <1>1, <1>4 DEF Directory!Underway, Directory!Current, Directory!Newest
  <2>2. Directory!Seen(w) \/ Directory!LeftOut(w) => (Directory!Seen(w) \/ Directory!LeftOut(w))'
    BY <1>1 DEF Directory!Seen, Directory!LeftOut, Directory!AnswersLate
  <2> QED BY <1>1, <1>4, <2>1, <2>2 DEF DirectoryInv, Directory!NoChangeLost
<1>5. Directory!NoChangeLost'
  BY <1>1, <1>4 DEF Directory!NoChangeLost
<1> QED BY <1>1, <1>2, <1>3, <1>5 DEF DirectoryInv, Forward

\* A change while somebody watches sets the timer.
LEMMA ChangeKeeps ==
  ASSUME Bounded, DirectoryInv, NEW w \in Directory!Webviews, Directory!Change(w)
  PROVE  DirectoryInv' /\ Forward
<1>1. /\ directory[w] < MaxChanges /\ directory' = [directory EXCEPT ![w] = @ + 1]
      /\ armed' = (armed \/ watching)
      /\ UNCHANGED <<watches, watching, collectGeneration, collects, late, shown, failed>>
  BY DEF Directory!Change, Directory!Armed
<1>2. /\ \A v \in Directory!Webviews : directory[v] \in Int /\ shown.directory[v] \in Int
      /\ \A c \in collects : \A v \in Directory!Webviews : c.from[v] \in Int
  BY FieldsAreNumbers DEF DirectoryInv
<1>3. directory \in [Directory!Webviews -> 0 .. MaxChanges]
  BY DEF DirectoryInv, Directory!TypeOK, Directory!Panes
<1>4. directory[w] + 1 \in 0 .. MaxChanges
  BY <1>1, <1>3 DEF Bounded
<1>5. directory' \in Directory!Panes
  BY <1>1, <1>3, <1>4 DEF Directory!Panes
<1>6. \A v \in Directory!Webviews : directory[v] <= directory'[v] /\ directory'[v] \in Int
  BY <1>1, <1>2, <1>3
<1>7. Directory!TypeOK'
  BY <1>1, <1>5 DEF DirectoryInv, Directory!TypeOK
<1>8. Collects'
  <2>1. \A v \in Directory!Webviews : shown.directory[v] <= directory'[v]
    BY <1>2, <1>6 DEF DirectoryInv, Collects
  <2>2. \A c \in collects : \A v \in Directory!Webviews : c.from[v] <= directory'[v]
    BY <1>2, <1>6 DEF DirectoryInv, Collects
  <2>3. (watching \/ armed => watches > 0)'
    BY <1>1 DEF DirectoryInv, Collects
  <2> QED BY <1>1, <2>1, <2>2, <2>3 DEF DirectoryInv, Collects
<1>9. watching' => armed'
  BY <1>1
<1>10. Repaired' /\ Directory!NoChangeLost'
  BY <1>9 DEF Repaired, Directory!NoChangeLost, Directory!Underway
<1> QED BY <1>1, <1>7, <1>8, <1>10 DEF DirectoryInv, Forward

\* Nothing of the directory is lost, and the picker never goes back.
LEMMA DirectoryStep ==
  ASSUME Bounded, DirectoryInv, [Directory!Next]_(Directory!vars)
  PROVE  DirectoryInv' /\ [Forward]_(Directory!vars)
<1>1. watches \in Int /\ watches \in 0 .. MaxWatches
  BY FieldsAreNumbers DEF DirectoryInv, Directory!TypeOK
<1>2. CASE Directory!Watch
  <2>1. /\ watches' = watches + 1 /\ watches' \in 1 .. MaxWatches
        /\ UNCHANGED <<directory, armed, late, shown>> /\ watching' = TRUE
    BY <1>1, <1>2 DEF Directory!Watch, Bounded
  <2>2. Directory!Collect(watches')
    BY <1>2, <2>1 DEF Directory!Watch
  <2>3. armed' \in BOOLEAN
    BY <2>1 DEF DirectoryInv, Directory!TypeOK
  <2> QED BY <2>1, <2>2, <2>3, CollectKeeps
<1>3. CASE Directory!TimerFires
  <2>1. /\ armed /\ armed' = FALSE
        /\ UNCHANGED <<directory, watches, watching, late, shown>>
    BY <1>3 DEF Directory!TimerFires
  <2>2. Directory!Collect(watches')
    BY <1>3, <2>1 DEF Directory!TimerFires
  <2>3. watching' \in BOOLEAN
    BY <2>1 DEF DirectoryInv, Directory!TypeOK
  <2>4. watches' \in 1 .. MaxWatches
    BY <1>1, <2>1 DEF DirectoryInv, Collects, Bounded
  <2> QED BY <2>1, <2>2, <2>3, <2>4, CollectKeeps
<1>4. CASE Directory!Dispose
  <2>1. /\ watching' = FALSE /\ armed' = FALSE
        /\ UNCHANGED <<directory, watches, collectGeneration, collects, late, shown, failed>>
    BY <1>4 DEF Directory!Dispose
  <2>2. Directory!TypeOK'
    BY <2>1 DEF DirectoryInv, Directory!TypeOK
  <2>3. Collects' /\ Repaired' /\ Directory!NoChangeLost'
    BY <2>1 DEF DirectoryInv, Collects, Repaired, Directory!NoChangeLost
  <2> QED BY <2>1, <2>2, <2>3 DEF DirectoryInv, Forward
<1>5. ASSUME NEW w \in Directory!Webviews, Directory!Change(w) PROVE DirectoryInv' /\ Forward
  BY <1>5, ChangeKeeps
<1>6. ASSUME NEW c \in collects, Directory!Collected(c) PROVE DirectoryInv' /\ Forward
  BY <1>6, CollectedKeeps
<1>7. ASSUME NEW c \in collects, Directory!CollectFails(c) PROVE DirectoryInv' /\ Forward
  BY <1>7, FailsKeeps
<1>8. ASSUME NEW c \in collects, NEW w \in Directory!Webviews, Directory!Misses(c, w)
      PROVE  DirectoryInv' /\ Forward
  BY <1>8, MissesKeeps
<1>9. ASSUME NEW l \in late, Directory!LateAnswer(l) PROVE DirectoryInv' /\ Forward
  BY <1>9, LateKeeps
<1>10. CASE UNCHANGED Directory!vars
  <2>1. UNCHANGED <<directory, watches, watching, armed, collectGeneration, collects, late, shown, failed>>
    BY <1>10 DEF Directory!vars
  <2>2. Directory!TypeOK' /\ Collects' /\ Repaired'
    BY <2>1 DEF DirectoryInv, Directory!TypeOK, Collects, Repaired, Directory!Newest, Directory!AnswersLate
  <2>3. Directory!NoChangeLost'
    BY <2>1 DEF DirectoryInv, Directory!NoChangeLost, Directory!Underway, Directory!Current, Directory!Seen,
                Directory!LeftOut, Directory!AnswersLate
  <2> QED BY <1>10, <2>2, <2>3 DEF DirectoryInv
<1> QED BY <1>2, <1>3, <1>4, <1>5, <1>6, <1>7, <1>8, <1>9, <1>10 DEF Directory!Next

\* Before the first watch there is nothing to show.
LEMMA DirectoryInit == Bounded /\ Directory!Init => DirectoryInv
<1> SUFFICES ASSUME Bounded, Directory!Init PROVE DirectoryInv
  OBVIOUS
<1>1. /\ shown.watch = 0 /\ shown.generation = 0 /\ shown.without = {}
      /\ shown.directory = [w \in Directory!Webviews |-> -1]
  BY DEF Directory!Init
<1>2. /\ directory \in Directory!Panes /\ [w \in Directory!Webviews |-> -1] \in [Directory!Webviews -> -1 .. MaxChanges]
      /\ 0 \in 0 .. MaxWatches /\ 0 \in Directory!Generations
  BY DEF Directory!Init, Directory!Panes, Directory!Generations, Bounded
<1>3. shown \in [watch : 0 .. MaxWatches, generation : Directory!Generations,
                directory : [Directory!Webviews -> -1 .. MaxChanges], without : SUBSET Directory!Webviews]
  BY <1>2 DEF Directory!Init
<1>4. Directory!TypeOK
  BY <1>2, <1>3 DEF Directory!Init, Directory!TypeOK
<1>5. Collects
  <2>1. \A w \in Directory!Webviews : shown.directory[w] <= directory[w]
    BY <1>1 DEF Directory!Init
  <2> QED BY <1>1, <2>1 DEF Directory!Init, Collects
<1> QED BY <1>4, <1>5 DEF Directory!Init, DirectoryInv, Repaired, Directory!NoChangeLost

\* Between the panes of a webview and what a phone sees of them there is always
\* a timer, the newest collect, its failure or a late answer, however collects
\* overlap; without any of them is left only a webview that missed its budget
\* over the link (scheduleDirectory, emitDirectory, the late 'peer:answer').
THEOREM ChangesArrive ==
  ASSUME Bounded
  PROVE  Directory!Spec => []NoChangeLost
<1>1. DirectoryInv /\ [Directory!Next]_(Directory!vars) => DirectoryInv'
  BY DirectoryStep
<1>2. Directory!Init => DirectoryInv
  BY DirectoryInit
<1>3. DirectoryInv => NoChangeLost
  BY DEF DirectoryInv, NoChangeLost
<1> QED BY <1>1, <1>2, <1>3, PTL DEF Directory!Spec

\* A slow collect never overwrites what a newer one showed, one that everybody
\* missed included, and a session that is over shows nothing (the generation and
\* the subId that emitDirectory compares).
THEOREM PickerGoesForward ==
  ASSUME Bounded
  PROVE  Directory!Spec => SnapshotsGoForward
<1>1. DirectoryInv /\ [Directory!Next]_(Directory!vars) => DirectoryInv'
  BY DirectoryStep
<1>2. Directory!Init => DirectoryInv
  BY DirectoryInit
<1>3. DirectoryInv /\ [Directory!Next]_(Directory!vars) =>
        [shown' # shown =>
           /\ watching
           /\ shown'.watch >= shown.watch /\ shown'.generation > shown.generation
           /\ \A w \in Directory!Webviews : shown'.directory[w] >= shown.directory[w]]_(Directory!vars)
  BY DirectoryStep DEF Forward
<1> QED BY <1>1, <1>2, <1>3, PTL DEF Directory!Spec, SnapshotsGoForward, Directory!SnapshotsGoForward

-----------------------------------------------------------------------------
(* A phone and its session agree (RemoteViewer).                           *)

\* Attaches the Burrow works on, and what is on its way to the phone.
InService(r) == phase[r] \in {"resolving", "subscribing", "resizing"}
Pending == {toPhone[i] : i \in 1 .. Len(toPhone)}
Closes(r) == \E m \in Pending : m.kind = "closed" /\ m.sub = r
Answers == {m \in Pending : m.kind # "closed"}

\* One answer is on its way at a time, and one exit of each attach.
Alike(m, n) == IF m.kind = "closed" THEN n.kind = "closed" /\ m.sub = n.sub ELSE n.kind # "closed"
Distinct == \A i, j \in 1 .. Len(toPhone) : Alike(toPhone[i], toPhone[j]) => i = j

\* An attach that was answered stands, or its exit reaches the phone.
Agreed(r) == attachment = r \/ (attachment = None /\ (Closes(r) \/ r \in closed))

\* What an activation has under way, and what it has done before.
DoingIs(stages) == doing # None /\ doing.stage \in stages
DoingOK ==
  /\ doing # None => doing.wish = begun /\ begun >= 1
  /\ DoingIs({"detaching", "attaching", "answered", "undoing"}) => attached = None
  /\ DoingIs({"detaching"}) => generation < begun
  /\ DoingIs({"attaching", "answered"}) => doing.sub \in listening
  /\ DoingIs({"attaching"}) =>
       /\ doing.sub \in Attaches /\ doing.sub <= begun
       /\ doing.sub # generation => attachment = None
       /\ doing.sub = generation => surface[doing.sub] = target[begun]
  /\ DoingIs({"answered"}) =>
       doing.sub = generation /\ Agreed(doing.sub) /\ surface[doing.sub] = target[begun]

\* One request is under way at a time: at the Burrow,
ServingOK ==
  \A r \in Attaches : InService(r) =>
    r = generation /\ DoingIs({"attaching"}) /\ doing.sub = r /\ toBurrow = <<>> /\ Answers = {}

\* on its way to it,
Asks(q) ==
  /\ q.kind = "attach" =>
       DoingIs({"attaching"}) /\ doing.sub = generation + 1 /\ q.surface = target[begun]
  /\ q.kind = "detach" =>
       DoingIs({"detaching", "undoing"}) /\ (attachment # None => surface[attachment] = q.surface)
  /\ q.kind = "resize" => DoingIs({"resizing"})
AskedOK == toBurrow # <<>> => Len(toBurrow) = 1 /\ Answers = {} /\ Asks(Head(toBurrow))

\* or answered.
Answered(m) ==
  /\ m.kind \in {"attached", "failed"} => DoingIs({"attaching"}) /\ doing.sub = m.sub /\ generation = m.sub
  /\ m.kind = "attached" => Agreed(m.sub)
  /\ m.kind \in {"failed", "detached"} => attachment = None
  /\ m.kind = "detached" => DoingIs({"detaching", "undoing"})
  /\ m.kind = "resized" => DoingIs({"resizing"})
AnsweredOK == \A m \in Answers : toBurrow = <<>> /\ Answered(m)

\* What is installed is the last attach, for the pane that had its turn.
AttachedOK ==
  /\ attached # None =>
       /\ attached = generation /\ attached \in listening /\ attached \notin closed
       /\ surface[attached] = target[begun] /\ begun >= 1
       /\ attachment = attached \/ (attachment = None /\ Closes(attached))
       /\ doing = None \/ DoingIs({"resizing"})
  /\ attached = None /\ (doing = None \/ DoingIs({"resizing"})) => attachment = None

\* An exit is told once, and a subscription that listens is the one installed,
\* the one under way or one that closed.
ClosedOK ==
  /\ \A m \in Pending : m.kind = "closed" => heard[m.sub] = "closed" /\ m.sub \notin closed
  /\ \A q \in closed : heard[q] = "closed"
  /\ \A q \in listening :
       q \in closed \/ q = attached \/ (DoingIs({"attaching", "answered"}) /\ q = doing.sub)

\* The attachment is the last attach, before its answer or after.
AttachmentOK ==
  attachment # None =>
    /\ attachment = generation
    /\ \/ phase[attachment] \in {"subscribing", "resizing"} /\ heard[attachment] = "nothing"
       \/ phase[attachment] = "done" /\ heard[attachment] \in {"attached", "data"}

\* Each attach is for a choice of its own.
Counted == generation <= begun /\ Len(target) <= MaxAttaches

ViewerAgrees ==
  /\ DoingOK /\ ServingOK /\ AskedOK /\ AnsweredOK
  /\ AttachedOK /\ ClosedOK /\ AttachmentOK /\ Distinct
ViewerInv ==
  /\ ViewerTypeOK /\ Counted /\ Inv /\ Ordered
  /\ IF disposed THEN toBurrow = <<>> /\ toPhone = <<>> ELSE ViewerAgrees

\* No activation is the null of no activation.
Told == Numbered /\ None \notin Doing

\* What a message on its way is.
LEMMA PendingIs ==
  ASSUME toPhone \in Seq(Messages)
  PROVE  /\ Pending \subseteq Messages
         /\ toPhone # <<>> => Head(toPhone) \in Pending /\ Head(toPhone) = toPhone[1]
<1>1. \A i \in 1 .. Len(toPhone) : toPhone[i] \in Messages
  OBVIOUS
<1>2. toPhone # <<>> => Len(toPhone) \in Nat /\ Len(toPhone) >= 1 /\ Head(toPhone) = toPhone[1]
  OBVIOUS
<1> QED BY <1>1, <1>2 DEF Pending

\* What a message is told by.
LEMMA MessagesAre ==
  \A m \in Messages :
    /\ m.kind \in {"attached", "failed", "closed", "detached", "resized"}
    /\ m.kind \in {"attached", "failed", "closed"} => m.sub \in Attaches
BY DEF Messages

\* A message sent is the last of its kind.
LEMMA SaidLast ==
  ASSUME toPhone \in Seq(Messages), Distinct, NEW m \in Messages,
         \A n \in Pending : ~Alike(n, m) /\ ~Alike(m, n), toPhone' = Append(toPhone, m)
  PROVE  toPhone' \in Seq(Messages) /\ Pending' = Pending \cup {m} /\ Distinct'
<1>1. toPhone' \in Seq(Messages) /\ Len(toPhone') = Len(toPhone) + 1 /\ Len(toPhone) \in Nat
  OBVIOUS
<1>2. /\ \A i \in 1 .. Len(toPhone) : toPhone'[i] = toPhone[i]
      /\ toPhone'[Len(toPhone) + 1] = m
  OBVIOUS
<1>3. 1 .. Len(toPhone') = 1 .. Len(toPhone) \cup {Len(toPhone) + 1}
  BY <1>1
<1>4. Pending' = Pending \cup {m}
  BY <1>2, <1>3 DEF Pending
<1>5. Distinct'
  <2> SUFFICES ASSUME NEW i \in 1 .. Len(toPhone'), NEW j \in 1 .. Len(toPhone'),
                      Alike(toPhone'[i], toPhone'[j])
               PROVE  i = j
    BY DEF Distinct, Alike
  <2>1. CASE i \in 1 .. Len(toPhone) /\ j \in 1 .. Len(toPhone)
    BY <1>2, <2>1 DEF Distinct
  <2>2. CASE i \in 1 .. Len(toPhone) /\ j = Len(toPhone) + 1
    BY <1>2, <2>2 DEF Pending
  <2>3. CASE i = Len(toPhone) + 1 /\ j \in 1 .. Len(toPhone)
    BY <1>2, <2>3 DEF Pending
  <2> QED BY <1>3, <2>1, <2>2, <2>3
<1> QED BY <1>1, <1>4, <1>5

\* A message that arrives was the only one of its kind.
LEMMA GotOnly ==
  ASSUME toPhone \in Seq(Messages), Distinct, NEW kind, Got(kind)
  PROVE  /\ Head(toPhone) \in Pending /\ Head(toPhone).kind = kind
         /\ toPhone' \in Seq(Messages) /\ Distinct'
         /\ Pending' \subseteq Pending /\ Pending \subseteq Pending' \cup {Head(toPhone)}
         /\ \A n \in Pending' : ~Alike(Head(toPhone), n)
<1>1. toPhone # <<>> /\ toPhone' = Tail(toPhone) /\ Head(toPhone).kind = kind
  BY DEF Got
<1>2. /\ toPhone' \in Seq(Messages) /\ Len(toPhone') = Len(toPhone) - 1
      /\ Len(toPhone) \in Nat /\ Len(toPhone) >= 1 /\ Head(toPhone) = toPhone[1]
      /\ \A i \in 1 .. Len(toPhone) - 1 : toPhone'[i] = toPhone[i + 1]
  BY <1>1
<1>3. \A i \in 1 .. Len(toPhone') : i + 1 \in 1 .. Len(toPhone) /\ i + 1 # 1 /\ toPhone'[i] = toPhone[i + 1]
  BY <1>2
<1>4. \A i \in 1 .. Len(toPhone) : i = 1 \/ (i - 1 \in 1 .. Len(toPhone') /\ toPhone[i] = toPhone'[i - 1])
  BY <1>2
<1>5. 1 \in 1 .. Len(toPhone)
  BY <1>2
<1>6. Pending' \subseteq Pending
  BY <1>3 DEF Pending
<1>7. Pending \subseteq Pending' \cup {Head(toPhone)}
  <2> SUFFICES ASSUME NEW i \in 1 .. Len(toPhone) PROVE toPhone[i] \in Pending' \cup {Head(toPhone)}
    BY DEF Pending
  <2>1. CASE i = 1
    BY <1>2, <2>1
  <2>2. CASE i # 1
    <3>1. i - 1 \in 1 .. Len(toPhone') /\ toPhone[i] = toPhone'[i - 1]
      BY <1>4, <2>2
    <3> QED BY <3>1 DEF Pending
  <2> QED BY <2>1, <2>2
<1>8. \A n \in Pending' : ~Alike(Head(toPhone), n)
  <2> SUFFICES ASSUME NEW i \in 1 .. Len(toPhone'), Alike(toPhone[1], toPhone'[i]) PROVE FALSE
    BY <1>2 DEF Pending
  <2> QED BY <1>3, <1>5 DEF Distinct
<1>9. Distinct'
  <2> SUFFICES ASSUME NEW i \in 1 .. Len(toPhone'), NEW j \in 1 .. Len(toPhone'),
                      Alike(toPhone'[i], toPhone'[j])
               PROVE  i = j
    BY DEF Distinct, Alike
  <2>1. i + 1 = j + 1
    BY <1>3 DEF Distinct
  <2> QED BY <2>1
<1> QED BY <1>1, <1>2, <1>5, <1>6, <1>7, <1>8, <1>9 DEF Pending

\* A request is the only one on its way.
LEMMA RequestedOnly ==
  ASSUME toBurrow = <<>>, NEW k \in {"attach", "detach", "resize"}, NEW s \in Surfaces, Request(k, s)
  PROVE  /\ toBurrow' \in Seq(Requests) /\ toBurrow' # <<>> /\ Len(toBurrow') = 1
         /\ Head(toBurrow') = [kind |-> k, surface |-> s]
         /\ Head(toBurrow').kind = k /\ Head(toBurrow').surface = s
<1>1. toBurrow' = <<[kind |-> k, surface |-> s]>>
  BY DEF Request
<1>2. [kind |-> k, surface |-> s] \in Requests
  BY DEF Requests
<1> QED BY <1>1, <1>2

\* What an activation is told by.
LEMMA DoingHas ==
  ASSUME ViewerTypeOK, doing # None
  PROVE  /\ doing.stage \in {"detaching", "attaching", "answered", "undoing", "resizing"}
         /\ doing.wish \in Attaches /\ doing.sub \in Attaches \cup {None}
         /\ doing = [stage |-> doing.stage, wish |-> doing.wish, sub |-> doing.sub]
BY DEF ViewerTypeOK, Doing

\* A phone that asked for nothing has nothing under way.
LEMMA NothingUnderWay ==
  ASSUME ViewerInv, ~disposed, doing = None \/ DoingIs({"answered"})
  PROVE  toBurrow = <<>> /\ Answers = {} /\ \A r \in Attaches : ~InService(r)
<1>1. ViewerTypeOK /\ ViewerAgrees
  BY DEF ViewerInv
<1>2. ~DoingIs({"attaching"}) /\ ~DoingIs({"detaching", "undoing"}) /\ ~DoingIs({"resizing"})
  BY DEF DoingIs
<1>3. \A r \in Attaches : ~InService(r)
  BY <1>1, <1>2 DEF ViewerAgrees, ServingOK
<1>4. toBurrow = <<>>
  <2> SUFFICES ASSUME toBurrow # <<>> PROVE FALSE
    OBVIOUS
  <2>1. Head(toBurrow) \in Requests
    BY <1>1 DEF ViewerTypeOK
  <2>2. Head(toBurrow).kind \in {"attach", "detach", "resize"}
    BY <2>1 DEF Requests
  <2> QED BY <1>1, <1>2, <2>2 DEF ViewerAgrees, AskedOK, Asks
<1>5. Answers = {}
  <2> SUFFICES ASSUME NEW m \in Answers PROVE FALSE
    OBVIOUS
  <2>1. m.kind \in {"attached", "failed", "detached", "resized"}
    BY <1>1, PendingIs, MessagesAre DEF Answers, ViewerTypeOK
  <2> QED BY <1>1, <1>2, <2>1 DEF ViewerAgrees, AnsweredOK, Answered
<1> QED BY <1>3, <1>4, <1>5

\* What does not touch the session keeps what is known of it.
LEMMA SessionRests ==
  ASSUME Inv, Ordered, UNCHANGED vars
  PROVE  Inv' /\ Ordered' /\ (AttachmentOK => AttachmentOK') /\ \A r \in Attaches : InService(r)' <=> InService(r)
BY DEF vars, Inv, TypeOK, StreamIsAttachment, Ordered, AttachmentOK, InService

\* A pane is chosen.
LEMMA ChoiceKeeps ==
  ASSUME Told, ViewerInv, NEW s \in Surfaces, SetActivePane(s)
  PROVE  ViewerInv'
<1>1. /\ ~disposed /\ Len(target) < MaxAttaches /\ target' = Append(target, s)
      /\ UNCHANGED <<vars, begun, doing, attached, listening, closed, toBurrow, toPhone>>
  BY DEF SetActivePane, wish
<1>2. target \in Seq(Surfaces) /\ begun \in 0 .. Len(target) /\ MaxAttaches \in Nat
  BY DEF ViewerInv, ViewerTypeOK, Told, Numbered
<1>3. /\ target' \in Seq(Surfaces) /\ Len(target') = Len(target) + 1 /\ Len(target) \in Nat
      /\ begun >= 1 => target'[begun] = target[begun]
  BY <1>1, <1>2
<1>4. ViewerTypeOK'
  BY <1>1, <1>2, <1>3 DEF ViewerInv, ViewerTypeOK
<1>5. Counted'
  BY <1>1, <1>2, <1>3 DEF ViewerInv, Counted, vars
<1>6. /\ UNCHANGED <<generation, surface, attachment, heard, phase, disposed>>
      /\ Pending' = Pending /\ Answers' = Answers /\ Distinct' = Distinct
  BY <1>1 DEF vars, Pending, Answers, Distinct, Alike
<1>7. Inv' /\ Ordered' /\ AttachmentOK' /\ \A r \in Attaches : InService(r)' <=> InService(r)
  BY <1>1, SessionRests DEF ViewerInv, ViewerAgrees
<1>8. ViewerAgrees
  BY <1>1 DEF ViewerInv
<1>9. DoingOK'
  BY <1>1, <1>3, <1>6, <1>8 DEF ViewerAgrees, DoingOK, DoingIs, Agreed, Closes
<1>10. ServingOK' /\ AnsweredOK'
  BY <1>1, <1>6, <1>7, <1>8
     DEF ViewerAgrees, ServingOK, AnsweredOK, Answered, DoingIs, Agreed, Closes
<1>11. AskedOK'
  BY <1>1, <1>3, <1>6, <1>8 DEF ViewerAgrees, AskedOK, Asks, DoingIs, DoingOK
<1>12. AttachedOK'
  BY <1>1, <1>3, <1>6, <1>8 DEF ViewerAgrees, AttachedOK, DoingIs, Closes
<1>13. ClosedOK'
  BY <1>1, <1>6, <1>8 DEF ViewerAgrees, ClosedOK, DoingIs
<1> QED BY <1>1, <1>4, <1>5, <1>6, <1>7, <1>8, <1>9, <1>10, <1>11, <1>12, <1>13 DEF ViewerInv, ViewerAgrees

\* The attach of the wish that has its turn goes out.
LEMMA AttachGoesOut ==
  ASSUME Told, ViewerInv, ~disposed, generation < begun', begun' \in 1 .. Len(target),
         toBurrow = <<>>, attached = None, attachment = None, \A r \in Attaches : ~InService(r),
         SendAttach(begun'), Request("attach", target[begun']), Answers' = {},
         Pending' \subseteq Pending, toPhone' \in Seq(Messages), Distinct',
         UNCHANGED <<vars, target, attached, closed>>,
         \A q \in listening : q \in closed
  PROVE  ViewerInv'
<1>1. /\ ViewerTypeOK /\ ViewerAgrees /\ Counted /\ Inv /\ Ordered /\ MaxAttaches \in Nat
      /\ UNCHANGED <<generation, surface, phase, stream, attachment, heard, disposed>>
  BY DEF ViewerInv, Told, Numbered, vars
<1>2. generation \in Nat /\ Len(target) \in Nat /\ target \in Seq(Surfaces) /\ target[begun'] \in Surfaces
  BY <1>1 DEF Inv, TypeOK, ViewerTypeOK
<1>3. /\ generation + 1 \in Attaches /\ generation + 1 <= begun' /\ generation + 1 # generation
      /\ begun' \in Attaches /\ begun' >= 1 /\ generation <= begun'
  BY <1>1, <1>2 DEF Counted, Attaches
<1>4. /\ doing' = [stage |-> "attaching", wish |-> begun', sub |-> generation + 1]
      /\ listening' = listening \cup {generation + 1}
  BY DEF SendAttach, NextSub
<1>5. doing' \in Doing /\ doing' # None
  BY <1>3, <1>4 DEF Doing, Told
<1>6. doing'.stage = "attaching" /\ doing'.wish = begun' /\ doing'.sub = generation + 1
  BY <1>4
<1>7. /\ toBurrow' \in Seq(Requests) /\ toBurrow' # <<>> /\ Len(toBurrow') = 1
      /\ Head(toBurrow').kind = "attach" /\ Head(toBurrow').surface = target[begun']
  BY <1>2, RequestedOnly
<1>8. ViewerTypeOK'
  BY <1>1, <1>3, <1>4, <1>5, <1>7 DEF ViewerTypeOK
<1>9. Counted'
  BY <1>1, <1>3 DEF Counted
<1>10. Inv' /\ Ordered' /\ AttachmentOK' /\ \A r \in Attaches : InService(r)' <=> InService(r)
  BY <1>1, SessionRests DEF ViewerAgrees
<1>11. DoingOK'
  BY <1>1, <1>3, <1>4, <1>5, <1>6 DEF DoingOK, DoingIs
<1>12. ServingOK'
  BY <1>10 DEF ServingOK
<1>13. AskedOK'
  BY <1>1, <1>5, <1>6, <1>7 DEF AskedOK, Asks, DoingIs
<1>14. AnsweredOK'
  BY DEF AnsweredOK
<1>15. AttachedOK'
  BY <1>1, <1>5, <1>6 DEF AttachedOK, DoingIs
<1>16. ClosedOK'
  BY <1>1, <1>4, <1>5, <1>6 DEF ViewerAgrees, ClosedOK, DoingIs
<1> QED BY <1>1, <1>8, <1>9, <1>10, <1>11, <1>12, <1>13, <1>14, <1>15, <1>16 DEF ViewerInv, ViewerAgrees

\* An activation has its turn.
LEMMA ActivateKeeps ==
  ASSUME Told, ViewerInv, Activate
  PROVE  ViewerInv'
<1>1. /\ ~disposed /\ doing = None /\ begun < Len(target) /\ begun' = Len(target)
      /\ UNCHANGED <<vars, target, closed, toPhone>>
      /\ ViewerTypeOK /\ ViewerAgrees /\ Counted /\ Inv /\ Ordered /\ MaxAttaches \in Nat
  BY DEF Activate, wish, ViewerInv, Told, Numbered
<1>2. UNCHANGED <<generation, surface, phase, stream, attachment, heard, disposed>>
  BY <1>1 DEF vars
<1>3. /\ generation \in Nat /\ target \in Seq(Surfaces) /\ Len(target) \in Nat /\ begun \in Nat
      /\ begun' \in 1 .. Len(target) /\ target[begun'] \in Surfaces /\ generation < begun'
      /\ begun' \in Attaches /\ begun' >= 1
  <2>1. generation \in Nat /\ target \in Seq(Surfaces) /\ Len(target) \in Nat /\ begun \in 0 .. Len(target)
    BY <1>1 DEF Inv, TypeOK, ViewerTypeOK
  <2>2. begun' \in 1 .. Len(target) /\ generation < begun' /\ begun' \in Attaches
    BY <1>1, <2>1 DEF Counted, Attaches
  <2> QED BY <2>1, <2>2
<1>4. toBurrow = <<>> /\ Answers = {} /\ \A r \in Attaches : ~InService(r)
  BY <1>1, NothingUnderWay
<1>5. Pending' = Pending /\ Answers' = Answers /\ toPhone' = toPhone /\ Distinct'
  BY <1>1 DEF Pending, Answers, Distinct, Alike, ViewerAgrees
<1>6. Inv' /\ Ordered' /\ AttachmentOK' /\ \A r \in Attaches : InService(r)' <=> InService(r)
  BY <1>1, SessionRests DEF ViewerAgrees
<1>7. Counted'
  BY <1>1, <1>2, <1>3 DEF Counted
<1>8. ServingOK' /\ AnsweredOK'
  BY <1>4, <1>5, <1>6 DEF ServingOK, AnsweredOK
<1>9. \A q \in listening : q \in closed \/ q = attached
  BY <1>1 DEF ViewerAgrees, ClosedOK, DoingIs
<1>10. ASSUME attached # None, surface[attached] = target[begun'],
              doing' = [stage |-> "resizing", wish |-> begun', sub |-> None],
              Request("resize", target[begun']), UNCHANGED <<attached, listening>>
       PROVE  ViewerInv'
  <2>1. doing' \in Doing /\ doing' # None
    BY <1>3, <1>10 DEF Doing, Told
  <2>2. doing'.stage = "resizing" /\ doing'.wish = begun'
    BY <1>10
  <2>3. /\ toBurrow' \in Seq(Requests) /\ toBurrow' # <<>> /\ Len(toBurrow') = 1
        /\ Head(toBurrow').kind = "resize"
    BY <1>3, <1>4, <1>10, RequestedOnly
  <2>4. ViewerTypeOK'
    BY <1>1, <1>3, <1>10, <2>1, <2>3 DEF ViewerTypeOK
  <2>5. DoingOK' /\ AskedOK'
    BY <1>3, <1>4, <1>5, <2>1, <2>2, <2>3 DEF DoingOK, AskedOK, Asks, DoingIs
  <2>6. AttachedOK'
    BY <1>1, <1>2, <1>3, <1>5, <1>10, <2>2 DEF ViewerAgrees, AttachedOK, DoingIs, Closes
  <2>7. ClosedOK'
    BY <1>1, <1>2, <1>5, <1>9, <1>10 DEF ViewerAgrees, ClosedOK
  <2> QED BY <1>1, <1>2, <1>5, <1>6, <1>7, <1>8, <2>4, <2>5, <2>6, <2>7 DEF ViewerInv, ViewerAgrees
<1>11. ASSUME attached # None, attached' = None, listening' = listening \ {attached},
              doing' = [stage |-> "detaching", wish |-> begun', sub |-> None],
              Request("detach", surface[attached])
       PROVE  ViewerInv'
  <2>1. doing' \in Doing /\ doing' # None
    BY <1>3, <1>11 DEF Doing, Told
  <2>2. doing'.stage = "detaching" /\ doing'.wish = begun'
    BY <1>11
  <2>3. surface[attached] \in Surfaces
    <3>1. begun \in 1 .. Len(target) /\ surface[attached] = target[begun]
      BY <1>1, <1>3, <1>11 DEF ViewerAgrees, AttachedOK
    <3> QED BY <1>3, <3>1
  <2>4. /\ toBurrow' \in Seq(Requests) /\ toBurrow' # <<>> /\ Len(toBurrow') = 1
        /\ Head(toBurrow').kind = "detach" /\ Head(toBurrow').surface = surface[attached]
    BY <1>4, <1>11, <2>3, RequestedOnly
  <2>5. ViewerTypeOK'
    BY <1>1, <1>3, <1>11, <2>1, <2>4 DEF ViewerTypeOK
  <2>6. attachment # None => attachment = attached
    BY <1>1, <1>11 DEF ViewerAgrees, AttachedOK
  <2>7. DoingOK' /\ AskedOK'
    BY <1>2, <1>3, <1>4, <1>5, <1>11, <2>1, <2>2, <2>4, <2>6 DEF DoingOK, AskedOK, Asks, DoingIs
  <2>8. AttachedOK'
    BY <1>11, <2>1, <2>2 DEF AttachedOK, DoingIs
  <2>9. ClosedOK'
    BY <1>1, <1>2, <1>5, <1>9, <1>11 DEF ViewerAgrees, ClosedOK
  <2> QED BY <1>1, <1>2, <1>5, <1>6, <1>7, <1>8, <2>5, <2>7, <2>8, <2>9 DEF ViewerInv, ViewerAgrees
<1>12. ASSUME attached = None, SendAttach(begun'), Request("attach", target[begun']), UNCHANGED attached
       PROVE  ViewerInv'
  <2>1. attachment = None
    BY <1>1, <1>12 DEF ViewerAgrees, AttachedOK
  <2>2. \A q \in listening : q \in closed
    BY <1>1, <1>9, <1>12 DEF ViewerTypeOK, Told, Numbered
  <2> QED BY <1>1, <1>3, <1>4, <1>5, <1>12, <2>1, <2>2, AttachGoesOut DEF ViewerTypeOK
<1> QED BY <1>1, <1>10, <1>11, <1>12 DEF Activate, wish

\* An answer that arrives is the only one, and nothing else is under way.
LEMMA AnswerArrives ==
  ASSUME ViewerInv, NEW kind \in {"attached", "failed", "detached", "resized"}, Got(kind)
  PROVE  /\ ~disposed /\ toBurrow = <<>> /\ Answered(Head(toPhone)) /\ Head(toPhone).kind = kind
         /\ Head(toPhone) \in Messages
         /\ Answers' = {} /\ Pending' \subseteq Pending /\ toPhone' \in Seq(Messages) /\ Distinct'
         /\ \A m \in Pending : m.kind = "closed" => m \in Pending'
         /\ \A r \in Attaches : ~InService(r)
<1>1. ~disposed /\ ViewerTypeOK /\ ViewerAgrees
  BY DEF ViewerInv, Got
<1>2. toPhone \in Seq(Messages) /\ Distinct
  BY <1>1 DEF ViewerTypeOK, ViewerAgrees
<1>3. /\ Head(toPhone) \in Pending /\ Head(toPhone).kind = kind
      /\ toPhone' \in Seq(Messages) /\ Distinct'
      /\ Pending' \subseteq Pending /\ Pending \subseteq Pending' \cup {Head(toPhone)}
      /\ \A n \in Pending' : ~Alike(Head(toPhone), n)
  BY <1>2, GotOnly
<1>4. Head(toPhone) \in Answers
  BY <1>3 DEF Answers
<1>5. toBurrow = <<>> /\ Answered(Head(toPhone)) /\ \A r \in Attaches : ~InService(r)
  BY <1>1, <1>4 DEF ViewerAgrees, AnsweredOK, ServingOK
<1>6. \A n \in Pending' : n.kind = "closed"
  BY <1>3 DEF Alike
<1>7. Answers' = {}
  BY <1>6 DEF Answers
<1>8. Head(toPhone) \in Messages
  BY <1>2, <1>3, PendingIs
<1> QED BY <1>1, <1>3, <1>5, <1>7, <1>8

\* What a phone that just got an answer, and asks for nothing, has to show.
LEMMA AnsweredKeeps ==
  ASSUME ViewerInv, NEW kind \in {"attached", "failed", "detached", "resized"}, Got(kind),
         UNCHANGED <<vars, target, begun, closed, toBurrow>>,
         ViewerTypeOK', DoingOK', AttachedOK',
         \A q \in listening' :
           q \in closed \/ q = attached' \/ (DoingIs({"attaching", "answered"}) /\ q = doing.sub)'
  PROVE  ViewerInv'
<1>1. /\ ~disposed /\ toBurrow = <<>> /\ Answers' = {} /\ Pending' \subseteq Pending /\ Distinct'
      /\ \A r \in Attaches : ~InService(r)
  BY AnswerArrives
<1>2. /\ ViewerAgrees /\ Counted /\ Inv /\ Ordered
      /\ UNCHANGED <<generation, surface, phase, stream, attachment, heard, disposed>>
  BY <1>1 DEF ViewerInv, vars
<1>3. Inv' /\ Ordered' /\ AttachmentOK' /\ \A r \in Attaches : InService(r)' <=> InService(r)
  BY <1>2, SessionRests DEF ViewerAgrees
<1>4. Counted'
  BY <1>2 DEF Counted
<1>5. ServingOK' /\ AskedOK' /\ AnsweredOK'
  BY <1>1, <1>3 DEF ServingOK, AskedOK, AnsweredOK
<1>6. ClosedOK'
  <2>1. \A m \in Pending' : m.kind = "closed" => heard'[m.sub] = "closed" /\ m.sub \notin closed'
    BY <1>1, <1>2 DEF ViewerAgrees, ClosedOK
  <2>2. \A q \in closed' : heard'[q] = "closed"
    BY <1>2 DEF ViewerAgrees, ClosedOK
  <2> QED BY <2>1, <2>2 DEF ClosedOK
<1> QED BY <1>1, <1>2, <1>3, <1>4, <1>5, <1>6 DEF ViewerInv, ViewerAgrees

\* A detach or a resize was answered.
LEMMA LeftKeeps ==
  ASSUME Told, ViewerInv, Detached \/ Settled
  PROVE  ViewerInv'
<1>1. PICK kind \in {"detached", "resized"} :
        /\ Got(kind)
        /\ kind = "resized" => Settled
        /\ kind = "detached" => Detached \/ (Settled /\ doing.stage = "undoing")
  BY DEF Detached, Settled
<1>2. /\ ~disposed /\ toBurrow = <<>> /\ Answered(Head(toPhone)) /\ Head(toPhone).kind = kind
      /\ Answers' = {} /\ Pending' \subseteq Pending /\ toPhone' \in Seq(Messages) /\ Distinct'
      /\ \A m \in Pending : m.kind = "closed" => m \in Pending'
      /\ \A r \in Attaches : ~InService(r)
  BY <1>1, AnswerArrives
<1>3. /\ UNCHANGED <<vars, target, begun, attached, closed>>
      /\ UNCHANGED <<generation, surface, phase, stream, attachment, heard, disposed>>
  BY DEF Detached, Settled, vars
<1>4. ViewerTypeOK /\ ViewerAgrees /\ Counted
  BY <1>2 DEF ViewerInv
<1>5. doing # None
  BY <1>1, <1>2 DEF Answered, DoingIs
<1>6. /\ kind = "detached" => DoingIs({"detaching", "undoing"}) /\ attachment = None /\ attached = None
      /\ kind = "resized" => DoingIs({"resizing"})
  BY <1>2, <1>4 DEF Answered, DoingIs, ViewerAgrees, DoingOK
<1>7. \A q \in listening : q \in closed \/ q = attached
  BY <1>4, <1>6 DEF DoingIs, ViewerAgrees, ClosedOK
<1>8. ASSUME doing' = None, UNCHANGED <<listening, toBurrow>> PROVE ViewerInv'
  <2>1. ViewerTypeOK'
    BY <1>2, <1>3, <1>4, <1>8 DEF ViewerTypeOK
  <2>2. DoingOK'
    BY <1>8 DEF DoingOK, DoingIs
  <2>3. AttachedOK'
    BY <1>1, <1>2, <1>3, <1>4, <1>6, <1>8 DEF ViewerAgrees, AttachedOK, DoingIs, Closes
  <2>4. \A q \in listening' : q \in closed \/ q = attached'
    BY <1>3, <1>7, <1>8
  <2> QED BY <1>1, <1>3, <1>8, <2>1, <2>2, <2>3, <2>4, AnsweredKeeps
<1>9. ASSUME Detached, doing.stage = "detaching", SendAttach(doing.wish), Request("attach", target[doing.wish])
      PROVE  ViewerInv'
  <2>1. Got("detached")
    BY <1>9 DEF Detached
  <2>2. kind = "detached"
    BY <1>1, <2>1 DEF Got
  <2>3. doing.wish = begun' /\ begun >= 1 /\ generation < begun'
    BY <1>3, <1>4, <1>5, <1>9 DEF ViewerAgrees, DoingOK, DoingIs
  <2>4. begun' \in 1 .. Len(target)
    BY <1>3, <1>4, <2>3 DEF ViewerTypeOK
  <2>5. SendAttach(begun') /\ Request("attach", target[begun'])
    BY <1>9, <2>3
  <2>6. attachment = None /\ attached = None
    BY <1>6, <2>2
  <2>7. \A q \in listening : q \in closed
    BY <1>4, <1>7, <2>6 DEF ViewerTypeOK, Told, Numbered
  <2> QED BY <1>2, <1>3, <2>3, <2>4, <2>5, <2>6, <2>7, AttachGoesOut
<1>10. CASE Settled
  BY <1>8, <1>10 DEF Settled
<1>11. CASE Detached
  BY <1>8, <1>9, <1>11 DEF Detached
<1> QED BY <1>10, <1>11

\* An attach failed, or was answered.
LEMMA AttachedOrNotKeeps ==
  ASSUME Told, ViewerInv, AttachFailed \/ AttachAnswered
  PROVE  ViewerInv'
<1>1. PICK kind \in {"failed", "attached"} :
        /\ Got(kind)
        /\ kind = "failed" => AttachFailed
        /\ kind = "attached" => AttachAnswered
  BY DEF AttachFailed, AttachAnswered
<1>2. /\ ~disposed /\ toBurrow = <<>> /\ Answered(Head(toPhone)) /\ Head(toPhone).kind = kind
      /\ Answers' = {} /\ Pending' \subseteq Pending /\ toPhone' \in Seq(Messages) /\ Distinct'
      /\ \A m \in Pending : m.kind = "closed" => m \in Pending'
  BY <1>1, AnswerArrives
<1>3. /\ UNCHANGED <<vars, target, begun, attached, closed, toBurrow>>
      /\ UNCHANGED <<generation, surface, phase, stream, attachment, heard, disposed>>
  BY <1>1 DEF AttachFailed, AttachAnswered, vars
<1>4. ViewerTypeOK /\ ViewerAgrees /\ Counted
  BY <1>2 DEF ViewerInv
<1>5. /\ DoingIs({"attaching"}) /\ doing.sub = Head(toPhone).sub /\ generation = doing.sub
      /\ doing # None /\ doing.stage = "attaching" /\ attached = None
  BY <1>1, <1>2, <1>4 DEF Answered, DoingIs, ViewerAgrees, DoingOK
<1>6. \A q \in listening : q \in closed \/ q = attached \/ q = doing.sub
  BY <1>4, <1>5 DEF DoingIs, ViewerAgrees, ClosedOK
<1>7. CASE kind = "failed"
  <2>1. doing' = None /\ listening' = listening \ {doing.sub} /\ attachment = None
    BY <1>1, <1>2, <1>5, <1>7 DEF AttachFailed, Answered
  <2>2. ViewerTypeOK'
    BY <1>2, <1>3, <1>4, <2>1 DEF ViewerTypeOK
  <2>3. DoingOK' /\ AttachedOK'
    BY <1>3, <1>5, <2>1 DEF DoingOK, AttachedOK, DoingIs
  <2>4. \A q \in listening' : q \in closed \/ q = attached'
    BY <1>3, <1>6, <2>1
  <2> QED BY <1>1, <1>3, <2>2, <2>3, <2>4, AnsweredKeeps
<1>8. CASE kind = "attached"
  <2>1. doing' = [doing EXCEPT !.stage = "answered"] /\ listening' = listening
    BY <1>1, <1>8 DEF AttachAnswered
  <2>2. /\ doing = [stage |-> doing.stage, wish |-> doing.wish, sub |-> doing.sub]
        /\ doing.wish \in Attaches /\ doing.sub \in Attaches \cup {None}
    BY <1>4, <1>5, DoingHas
  <2>3. doing' = [stage |-> "answered", wish |-> doing.wish, sub |-> doing.sub]
    BY <2>1, <2>2
  <2>4. doing' \in Doing /\ doing' # None
    BY <2>2, <2>3 DEF Doing, Told
  <2>5. doing'.stage = "answered" /\ doing'.wish = doing.wish /\ doing'.sub = doing.sub
    BY <2>3
  <2>6. ViewerTypeOK'
    BY <1>2, <1>3, <1>4, <2>1, <2>4 DEF ViewerTypeOK
  <2>7. Agreed(doing.sub)
    BY <1>1, <1>2, <1>5, <1>8 DEF Answered
  <2>8. /\ attachment' = doing'.sub
          \/ (attachment' = None /\ ((\E m \in Pending' : m.kind = "closed" /\ m.sub = doing'.sub)
                                     \/ doing'.sub \in closed'))
    BY <1>2, <1>3, <2>5, <2>7 DEF Agreed, Closes
  <2>9. doing.wish = begun /\ begun >= 1 /\ doing.sub \in listening /\ surface[doing.sub] = target[begun]
    BY <1>4, <1>5 DEF ViewerAgrees, DoingOK, DoingIs
  <2>10. DoingOK'
    BY <1>3, <1>5, <2>1, <2>4, <2>5, <2>8, <2>9 DEF DoingOK, DoingIs, Agreed, Closes
  <2>11. AttachedOK'
    BY <1>3, <1>5, <2>4, <2>5 DEF AttachedOK, DoingIs
  <2>12. \A q \in listening' : q \in closed \/ q = attached' \/ (DoingIs({"attaching", "answered"}) /\ q = doing.sub)'
    BY <1>3, <1>6, <2>1, <2>4, <2>5 DEF DoingIs
  <2> QED BY <1>1, <1>3, <2>6, <2>10, <2>11, <2>12, AnsweredKeeps
<1> QED BY <1>1, <1>7, <1>8

\* The response of an attach is looked at.
LEMMA InstallKeeps ==
  ASSUME Told, ViewerInv, Install
  PROVE  ViewerInv'
<1>1. /\ ~disposed /\ doing # None /\ doing.stage = "answered" /\ DoingIs({"answered"})
      /\ UNCHANGED <<vars, target, begun, closed, toPhone>>
      /\ UNCHANGED <<generation, surface, phase, stream, attachment, heard, disposed>>
  BY DEF Install, vars, DoingIs
<1>2. ViewerTypeOK /\ ViewerAgrees /\ Counted /\ Inv /\ Ordered
  BY <1>1 DEF ViewerInv
<1>3. toBurrow = <<>> /\ Answers = {} /\ \A r \in Attaches : ~InService(r)
  BY <1>1, NothingUnderWay
<1>4. Pending' = Pending /\ Answers' = Answers /\ toPhone' = toPhone /\ Distinct'
  BY <1>1, <1>2 DEF Pending, Answers, Distinct, Alike, ViewerAgrees
<1>5. Inv' /\ Ordered' /\ AttachmentOK' /\ \A r \in Attaches : InService(r)' <=> InService(r)
  BY <1>1, <1>2, SessionRests DEF ViewerAgrees
<1>6. Counted'
  BY <1>1, <1>2 DEF Counted
<1>7. ServingOK' /\ AnsweredOK'
  BY <1>3, <1>4, <1>5 DEF ServingOK, AnsweredOK
<1>8. /\ doing.wish = begun /\ begun >= 1 /\ attached = None /\ doing.sub \in listening
      /\ doing.sub = generation /\ Agreed(doing.sub) /\ surface[doing.sub] = target[begun]
  BY <1>1, <1>2 DEF ViewerAgrees, DoingOK, DoingIs
<1>9. \A q \in listening : q \in closed \/ q = attached \/ q = doing.sub
  BY <1>1, <1>2 DEF ViewerAgrees, ClosedOK
<1>10. /\ doing = [stage |-> doing.stage, wish |-> doing.wish, sub |-> doing.sub]
       /\ doing.wish \in Attaches /\ doing.sub \in Attaches
  BY <1>1, <1>2, <1>8, DoingHas DEF ViewerTypeOK
<1>11. begun \in 1 .. Len(target) /\ target \in Seq(Surfaces) /\ target[begun] \in Surfaces
  <2>1. begun \in 1 .. Len(target) /\ target \in Seq(Surfaces)
    BY <1>2, <1>8 DEF ViewerTypeOK
  <2> QED BY <2>1
<1>12. CASE Gone
  <2>1. /\ listening' = listening \ {doing.sub} /\ doing' = [doing EXCEPT !.stage = "undoing"]
        /\ Request("detach", target[begun]) /\ attached' = attached
    BY <1>8, <1>12 DEF Install
  <2>2. doing' = [stage |-> "undoing", wish |-> doing.wish, sub |-> doing.sub]
    BY <1>10, <2>1
  <2>3. doing' \in Doing /\ doing' # None
    BY <1>10, <2>2 DEF Doing, Told
  <2>4. doing'.stage = "undoing" /\ doing'.wish = doing.wish /\ doing'.sub = doing.sub
    BY <2>2
  <2>5. /\ toBurrow' \in Seq(Requests) /\ toBurrow' # <<>> /\ Len(toBurrow') = 1
        /\ Head(toBurrow').kind = "detach" /\ Head(toBurrow').surface = target[begun]
    BY <1>3, <1>11, <2>1, RequestedOnly
  <2>6. ViewerTypeOK'
    BY <1>1, <1>2, <2>1, <2>3, <2>5 DEF ViewerTypeOK
  <2>7. DoingOK'
    BY <1>1, <1>8, <2>1, <2>3, <2>4 DEF DoingOK, DoingIs
  <2>8. attachment # None => surface[attachment] = target[begun]
    BY <1>8 DEF Agreed
  <2>9. AskedOK'
    BY <1>1, <1>3, <1>4, <2>3, <2>4, <2>5, <2>8 DEF AskedOK, Asks, DoingIs
  <2>10. AttachedOK'
    BY <1>8, <2>1, <2>3, <2>4 DEF AttachedOK, DoingIs
  <2>11. ClosedOK'
    <3>1. \A m \in Pending' : m.kind = "closed" => heard'[m.sub] = "closed" /\ m.sub \notin closed'
      BY <1>1, <1>2, <1>4 DEF ViewerAgrees, ClosedOK
    <3>2. \A q \in closed' : heard'[q] = "closed"
      BY <1>1, <1>2 DEF ViewerAgrees, ClosedOK
    <3>3. \A q \in listening' : q \in closed' \/ q = attached'
      BY <1>1, <1>9, <2>1
    <3> QED BY <3>1, <3>2, <3>3 DEF ClosedOK
  <2> QED BY <1>1, <1>4, <1>5, <1>6, <1>7, <2>6, <2>7, <2>9, <2>10, <2>11 DEF ViewerInv, ViewerAgrees
<1>13. CASE ~Gone
  <2>1. /\ attached' = doing.sub /\ doing' = None /\ UNCHANGED <<listening, toBurrow>>
        /\ doing.sub \notin closed /\ attached' # None
    BY <1>10, <1>13 DEF Install, Gone, Told, Numbered
  <2>2. ViewerTypeOK'
    BY <1>1, <1>2, <1>4, <1>10, <2>1 DEF ViewerTypeOK
  <2>3. DoingOK' /\ AskedOK'
    BY <1>3, <2>1 DEF DoingOK, AskedOK, DoingIs
  <2>4. attachment = doing.sub \/ (attachment = None /\ Closes(doing.sub))
    BY <1>8, <2>1 DEF Agreed
  <2>5. AttachedOK'
    BY <1>1, <1>4, <1>8, <2>1, <2>4 DEF AttachedOK, Closes
  <2>6. ClosedOK'
    <3>1. \A q \in listening' : q \in closed' \/ q = attached'
      BY <1>1, <1>2, <1>8, <1>9, <2>1 DEF ViewerTypeOK, Told, Numbered
    <3> QED BY <1>1, <1>2, <1>4, <3>1 DEF ViewerAgrees, ClosedOK
  <2> QED BY <1>1, <1>4, <1>5, <1>6, <1>7, <2>2, <2>3, <2>5, <2>6 DEF ViewerInv, ViewerAgrees
<1> QED BY <1>12, <1>13

\* The exit of an attach is heard: of the one installed, of one under way, or of
\* one that has no handler any more.
LEMMA ClosedKeeps ==
  ASSUME Told, ViewerInv, Closed
  PROVE  ViewerInv'
<1> DEFINE q == Head(toPhone).sub
<1>1. /\ ~disposed /\ Got("closed") /\ UNCHANGED <<vars, target, begun, doing, listening, toBurrow>>
      /\ UNCHANGED <<generation, surface, phase, stream, attachment, heard, disposed>>
  BY DEF Closed, Got, ViewerInv, vars
<1>2. ViewerTypeOK /\ ViewerAgrees /\ Counted /\ Inv /\ Ordered
  BY <1>1 DEF ViewerInv
<1>3. /\ Head(toPhone) \in Pending /\ Head(toPhone).kind = "closed"
      /\ toPhone' \in Seq(Messages) /\ Distinct'
      /\ Pending' \subseteq Pending /\ Pending \subseteq Pending' \cup {Head(toPhone)}
      /\ \A n \in Pending' : ~Alike(Head(toPhone), n)
  BY <1>1, <1>2, GotOnly DEF ViewerTypeOK, ViewerAgrees
<1>4. q \in Attaches
  BY <1>2, <1>3, PendingIs, MessagesAre DEF ViewerTypeOK
<1>5. Answers' = Answers
  BY <1>3 DEF Answers
<1>6. \A n \in Pending' : n.kind = "closed" => n.sub # q
  BY <1>3 DEF Alike
<1>7. heard[q] = "closed" /\ q \notin closed /\ attachment # q
  BY <1>2, <1>3, <1>4 DEF ViewerAgrees, ClosedOK, AttachmentOK, Told, Numbered
<1>8. \A r \in Attaches : r # q /\ Closes(r) => \E m \in Pending' : m.kind = "closed" /\ m.sub = r
  BY <1>3 DEF Closes
<1>9. \/ /\ q \in listening /\ closed' = closed \cup {q}
         /\ attached' = IF attached # None /\ surface[attached] = surface[q] THEN None ELSE attached
      \/ q \notin listening /\ UNCHANGED <<closed, attached>>
  BY DEF Closed
<1> HIDE DEF q
<1>10. attached # None => (attached = q <=> q \in listening)
  <2>1. CASE DoingIs({"attaching", "answered"})
    BY <1>2, <2>1 DEF ViewerAgrees, DoingOK, DoingIs
  <2>2. CASE ~DoingIs({"attaching", "answered"})
    BY <1>2, <1>7, <2>2 DEF ViewerAgrees, ClosedOK, AttachedOK
  <2> QED BY <2>1, <2>2
<1>11. attached' = (IF attached = q THEN None ELSE attached)
  BY <1>4, <1>9, <1>10 DEF Told, Numbered
<1>12. attached = q => attachment = None
  BY <1>2, <1>4, <1>7 DEF ViewerAgrees, AttachedOK, Told, Numbered
<1>13. closed' \in SUBSET Attaches /\ closed \subseteq closed' /\ closed' \subseteq closed \cup {q}
  BY <1>2, <1>4, <1>9 DEF ViewerTypeOK
<1>14. Inv' /\ Ordered' /\ AttachmentOK' /\ \A r \in Attaches : InService(r)' <=> InService(r)
  BY <1>1, <1>2, SessionRests DEF ViewerAgrees
<1>15. ViewerTypeOK' /\ Counted'
  BY <1>1, <1>2, <1>3, <1>11, <1>13 DEF ViewerTypeOK, Counted
<1>16. ASSUME NEW r \in Attaches, Agreed(r), r \in listening
       PROVE  attachment = r \/ (attachment = None /\ ((\E m \in Pending' : m.kind = "closed" /\ m.sub = r) \/ r \in closed'))
  <2>1. CASE r = q
    BY <1>7, <1>9, <1>16, <2>1 DEF Agreed
  <2>2. CASE r # q
    BY <1>8, <1>13, <1>16, <2>2 DEF Agreed
  <2> QED BY <2>1, <2>2
<1>17. DoingOK'
  <2>1. DoingIs({"answered"}) => doing.sub \in Attaches /\ doing.sub \in listening /\ Agreed(doing.sub)
    BY <1>2 DEF ViewerAgrees, DoingOK, DoingIs, ViewerTypeOK
  <2>2. DoingIs({"answered"}) =>
          attachment = doing.sub
            \/ (attachment = None
                /\ ((\E m \in Pending' : m.kind = "closed" /\ m.sub = doing.sub) \/ doing.sub \in closed'))
    BY <1>16, <2>1
  <2>3. DoingIs({"detaching", "attaching", "answered", "undoing"}) => attached' = None
    BY <1>2, <1>11 DEF ViewerAgrees, DoingOK
  <2> QED BY <1>1, <1>2, <2>2, <2>3 DEF ViewerAgrees, DoingOK, DoingIs, Agreed, Closes
<1>18. ServingOK' /\ AskedOK'
  BY <1>1, <1>2, <1>5, <1>14 DEF ViewerAgrees, ServingOK, AskedOK, Asks, DoingIs
<1>19. AnsweredOK'
  <2> SUFFICES ASSUME NEW m \in Answers PROVE (toBurrow = <<>> /\ Answered(m))'
    BY <1>5 DEF AnsweredOK
  <2>1. toBurrow = <<>> /\ Answered(m)
    BY <1>2 DEF ViewerAgrees, AnsweredOK
  <2>2. m.kind = "attached" => m.sub \in Attaches /\ m.sub \in listening /\ Agreed(m.sub)
    BY <1>2, <2>1 DEF Answered, ViewerAgrees, DoingOK, DoingIs
  <2>3. m.kind = "attached" =>
          attachment = m.sub
            \/ (attachment = None
                /\ ((\E n \in Pending' : n.kind = "closed" /\ n.sub = m.sub) \/ m.sub \in closed'))
    BY <1>16, <2>2
  <2> QED BY <1>1, <2>1, <2>3 DEF Answered, DoingIs, Agreed, Closes
<1>20. AttachedOK'
  <2>1. attached' # None => attached' = attached /\ attached # q /\ attached \in Attaches /\ attached \notin closed'
    BY <1>2, <1>11, <1>13 DEF ViewerAgrees, AttachedOK, ViewerTypeOK
  <2>2. attached' # None /\ Closes(attached) => \E m \in Pending' : m.kind = "closed" /\ m.sub = attached
    BY <1>8, <2>1
  <2>3. attached' # None =>
          /\ attached' = generation' /\ attached' \in listening' /\ attached' \notin closed'
          /\ surface'[attached'] = target'[begun'] /\ begun' >= 1
          /\ attachment' = attached'
               \/ (attachment' = None /\ \E m \in Pending' : m.kind = "closed" /\ m.sub = attached')
          /\ doing' = None \/ DoingIs({"resizing"})'
    BY <1>1, <1>2, <2>1, <2>2 DEF ViewerAgrees, AttachedOK, DoingIs
  <2>4. attached' = None /\ (doing' = None \/ DoingIs({"resizing"})') => attachment' = None
    BY <1>1, <1>2, <1>11, <1>12 DEF ViewerAgrees, AttachedOK, DoingIs
  <2> QED BY <2>3, <2>4 DEF AttachedOK, Closes
<1>21. ClosedOK'
  <2>1. \A m \in Pending' : m.kind = "closed" => heard'[m.sub] = "closed" /\ m.sub \notin closed'
    BY <1>1, <1>2, <1>3, <1>6, <1>13 DEF ViewerAgrees, ClosedOK
  <2>2. \A p \in closed' : heard'[p] = "closed"
    BY <1>1, <1>2, <1>7, <1>13 DEF ViewerAgrees, ClosedOK
  <2>3. \A p \in listening' :
          p \in closed' \/ p = attached' \/ (DoingIs({"attaching", "answered"})' /\ p = doing'.sub)
    BY <1>1, <1>2, <1>9, <1>10, <1>11, <1>13 DEF ViewerAgrees, ClosedOK, DoingIs
  <2> QED BY <2>1, <2>2, <2>3 DEF ClosedOK
<1> QED BY <1>1, <1>3, <1>14, <1>15, <1>17, <1>18, <1>19, <1>20, <1>21 DEF ViewerInv, ViewerAgrees

\* A request that arrives is the only one under way.
LEMMA RequestArrives ==
  ASSUME ViewerInv, NEW kind \in {"attach", "detach", "resize"}, Takes(kind)
  PROVE  /\ ~disposed /\ ViewerTypeOK /\ ViewerAgrees /\ Counted /\ Inv /\ Ordered
         /\ toBurrow # <<>> /\ toBurrow' = <<>> /\ Answers = {} /\ Asks(Head(toBurrow))
         /\ Head(toBurrow).kind = kind /\ Head(toBurrow).surface \in Surfaces
         /\ \A r \in Attaches : ~InService(r)
<1>1. toBurrow # <<>> /\ toBurrow' = Tail(toBurrow) /\ Head(toBurrow).kind = kind
  BY DEF Takes
<1>2. ~disposed /\ ViewerTypeOK /\ ViewerAgrees /\ Counted /\ Inv /\ Ordered
  BY <1>1 DEF ViewerInv
<1>3. Len(toBurrow) = 1 /\ Answers = {} /\ Asks(Head(toBurrow)) /\ toBurrow \in Seq(Requests)
  BY <1>1, <1>2 DEF ViewerAgrees, AskedOK, ViewerTypeOK
<1>4. toBurrow' = <<>>
  BY <1>1, <1>3
<1>5. Head(toBurrow) \in Requests
  BY <1>1, <1>3
<1>6. Head(toBurrow).surface \in Surfaces
  BY <1>5 DEF Requests
<1>7. \A r \in Attaches : ~InService(r)
  BY <1>1, <1>2 DEF ViewerAgrees, ServingOK
<1> QED BY <1>1, <1>2, <1>3, <1>4, <1>6, <1>7

\* The Burrow takes an attach.
LEMMA TakesAttachKeeps ==
  ASSUME Told, ViewerInv, TakesAttach
  PROVE  ViewerInv'
<1>1. /\ ~disposed /\ ViewerTypeOK /\ ViewerAgrees /\ Counted /\ Inv /\ Ordered
      /\ toBurrow' = <<>> /\ Answers = {} /\ Asks(Head(toBurrow))
      /\ Head(toBurrow).kind = "attach" /\ Head(toBurrow).surface \in Surfaces
      /\ \A r \in Attaches : ~InService(r)
  BY RequestArrives DEF TakesAttach
<1>2. PICK s \in Surfaces : Attach(s) /\ s = target[begun]
  BY <1>1 DEF TakesAttach, Asks
<1>3. /\ UNCHANGED <<target, begun, doing, attached, listening, closed, toPhone>>
      /\ UNCHANGED <<stream, attachment, heard, disposed>> /\ generation' = generation + 1
      /\ surface' = [surface EXCEPT ![generation'] = s]
      /\ phase' = [phase EXCEPT ![generation'] = "resolving"]
  BY <1>2 DEF TakesAttach, phone, Attach, Step
<1>4. /\ doing # None /\ doing.stage = "attaching" /\ doing.sub = generation' /\ doing.wish = begun
      /\ doing.sub \in Attaches /\ doing.sub <= begun /\ doing.sub \in listening
      /\ begun >= 1 /\ attached = None
  BY <1>1, <1>3 DEF Asks, DoingIs, ViewerAgrees, DoingOK
<1>5. attachment = None
  <2>1. generation \in Nat
    BY <1>1 DEF Inv, TypeOK
  <2> QED BY <1>1, <1>3, <1>4, <2>1 DEF DoingIs, ViewerAgrees, DoingOK
<1>6. Inv' /\ Ordered'
  BY <1>1, <1>2, PhoneKeeps, PhoneIsOrdered DEF Told
<1>7. Pending' = Pending /\ Answers' = {} /\ Distinct'
  BY <1>1, <1>3 DEF Pending, Answers, Distinct, Alike, ViewerAgrees
<1>8. ViewerTypeOK' /\ Counted'
  BY <1>1, <1>3, <1>4 DEF ViewerTypeOK, Counted
<1>9. surface'[generation'] = target[begun]
  BY <1>1, <1>2, <1>3, <1>4 DEF Inv, TypeOK
<1>10. DoingOK' /\ AttachedOK' /\ AttachmentOK'
  BY <1>3, <1>4, <1>5, <1>9 DEF DoingOK, AttachedOK, AttachmentOK, DoingIs
<1>11. ServingOK'
  <2>1. \A r \in Attaches : r # generation' => phase'[r] = phase[r]
    BY <1>1, <1>3 DEF Inv, TypeOK
  <2>2. \A r \in Attaches : InService(r)' => r = generation'
    BY <1>1, <2>1 DEF InService
  <2> QED BY <1>1, <1>3, <1>4, <1>7, <2>2 DEF ServingOK, DoingIs
<1>12. AskedOK' /\ AnsweredOK'
  BY <1>1, <1>7 DEF AskedOK, AnsweredOK
<1>13. ClosedOK'
  BY <1>1, <1>3, <1>7 DEF ViewerAgrees, ClosedOK, DoingIs
<1> QED BY <1>1, <1>3, <1>6, <1>7, <1>8, <1>10, <1>11, <1>12, <1>13 DEF ViewerInv, ViewerAgrees

\* An answer joins what is on its way.
LEMMA AnswerJoins ==
  ASSUME ViewerInv, ~disposed, Answers = {}, NEW m \in Messages, m.kind # "closed",
         toPhone' = Append(toPhone, m)
  PROVE  /\ toPhone' \in Seq(Messages) /\ Distinct' /\ Pending' = Pending \cup {m} /\ Answers' = {m}
<1>1. toPhone \in Seq(Messages) /\ Distinct
  BY DEF ViewerInv, ViewerTypeOK, ViewerAgrees
<1>2. \A n \in Pending : ~Alike(n, m) /\ ~Alike(m, n)
  BY DEF Answers, Alike
<1>3. toPhone' \in Seq(Messages) /\ Pending' = Pending \cup {m} /\ Distinct'
  BY <1>1, <1>2, SaidLast
<1> QED BY <1>3 DEF Answers

\* The Burrow takes a detach, of what is attached or of nothing, or a resize.
LEMMA TakesLeaveKeeps ==
  ASSUME Told, ViewerInv, TakesDetach \/ TakesResize
  PROVE  ViewerInv'
<1>1. PICK kind \in {"detach", "resize"} :
        Takes(kind) /\ (kind = "detach" => TakesDetach) /\ (kind = "resize" => TakesResize)
  BY DEF TakesDetach, TakesResize
<1>2. /\ ~disposed /\ ViewerTypeOK /\ ViewerAgrees /\ Counted /\ Inv /\ Ordered
      /\ toBurrow' = <<>> /\ Answers = {} /\ Asks(Head(toBurrow))
      /\ Head(toBurrow).kind = kind /\ Head(toBurrow).surface \in Surfaces
      /\ \A r \in Attaches : ~InService(r)
  BY <1>1, RequestArrives
<1> DEFINE m == [kind |-> IF kind = "detach" THEN "detached" ELSE "resized"]
<1>3. m \in Messages /\ m.kind = (IF kind = "detach" THEN "detached" ELSE "resized")
  BY DEF Messages
<1>4. toPhone' = Append(toPhone, m)
  BY <1>1 DEF TakesDetach, TakesResize
<1> HIDE DEF m
<1>5. toPhone' \in Seq(Messages) /\ Distinct' /\ Pending' = Pending \cup {m} /\ Answers' = {m}
  BY <1>2, <1>3, <1>4, AnswerJoins
<1>6. UNCHANGED <<target, begun, doing, attached, listening, closed>>
  BY <1>1 DEF TakesDetach, TakesResize, phone
<1>7. /\ UNCHANGED <<generation, surface, heard, disposed>> /\ Inv' /\ Ordered' /\ AttachmentOK'
      /\ \A r \in Attaches : InService(r)' <=> InService(r)
      /\ kind = "detach" => attachment' = None
      /\ kind = "resize" => attachment' = attachment
  <2>1. CASE kind = "detach" /\ IsAttached(Head(toBurrow).surface)
    <3>1. PICK s \in Surfaces : Detach(s)
      BY <1>1, <1>2, <2>1 DEF TakesDetach
    <3>2. attachment' = None /\ UNCHANGED <<generation, surface, heard, disposed>>
      BY <1>2, <3>1 DEF Detach, Teardown, Inv, TypeOK
    <3>3. Inv' /\ Ordered'
      BY <1>2, <3>1, PhoneKeeps, PhoneIsOrdered DEF Told
    <3>4. \A r \in Attaches : InService(r)' <=> InService(r)
      BY <1>2, <3>1 DEF Detach, InService, Inv, TypeOK
    <3> QED BY <2>1, <3>2, <3>3, <3>4 DEF AttachmentOK
  <2>2. CASE ~(kind = "detach" /\ IsAttached(Head(toBurrow).surface))
    <3>1. UNCHANGED vars
      BY <1>1, <2>2 DEF TakesDetach, TakesResize
    <3>2. kind = "detach" => attachment = None
      BY <1>2, <2>2 DEF Asks, IsAttached
    <3> QED BY <1>2, <3>1, <3>2, SessionRests DEF ViewerAgrees, vars
  <2> QED BY <2>1, <2>2
<1>8. /\ kind = "detach" => DoingIs({"detaching", "undoing"}) /\ attached = None
      /\ kind = "resize" => DoingIs({"resizing"})
  BY <1>2 DEF Asks, DoingIs, ViewerAgrees, DoingOK
<1>9. ViewerTypeOK' /\ Counted'
  BY <1>2, <1>5, <1>6, <1>7 DEF ViewerTypeOK, Counted
<1>10. DoingOK'
  BY <1>2, <1>6, <1>7, <1>8 DEF ViewerAgrees, DoingOK, DoingIs
<1>11. ServingOK' /\ AskedOK'
  BY <1>2, <1>7 DEF ServingOK, AskedOK
<1>12. AnsweredOK'
  BY <1>2, <1>3, <1>5, <1>6, <1>7, <1>8 DEF AnsweredOK, Answered, DoingIs
<1>13. AttachedOK'
  <2>1. kind = "detach" => AttachedOK'
    BY <1>6, <1>7, <1>8 DEF AttachedOK, DoingIs
  <2>2. \A r \in Attaches : Closes(r) => \E n \in Pending' : n.kind = "closed" /\ n.sub = r
    BY <1>5 DEF Closes
  <2>3. kind = "resize" => AttachedOK'
    BY <1>2, <1>6, <1>7, <2>2 DEF ViewerAgrees, ViewerTypeOK, AttachedOK, DoingIs, Closes
  <2> QED BY <2>1, <2>3
<1>14. ClosedOK'
  <2>1. \A n \in Pending' : n.kind = "closed" => n \in Pending
    BY <1>3, <1>5
  <2> QED BY <1>2, <1>6, <1>7, <2>1 DEF ViewerAgrees, ClosedOK, DoingIs
<1> QED BY <1>2, <1>5, <1>7, <1>9, <1>10, <1>11, <1>12, <1>13, <1>14 DEF ViewerInv, ViewerAgrees

\* The session ends, and what was under way with it.
LEMMA EndsKeeps ==
  ASSUME Told, ViewerInv, Ends
  PROVE  ViewerInv'
<1>1. Inv /\ Ordered /\ ViewerTypeOK /\ Counted /\ Dispose
  BY DEF ViewerInv, Ends
<1>2. Inv' /\ Ordered'
  BY <1>1, PhoneKeeps, PhoneIsOrdered DEF Told
<1>3. /\ UNCHANGED <<generation, target, begun, doing, attached, listening, closed>>
      /\ disposed' = TRUE /\ toBurrow' = <<>> /\ toPhone' = <<>>
  BY DEF Ends, Dispose, phone
<1>4. ViewerTypeOK' /\ Counted'
  BY <1>1, <1>3 DEF ViewerTypeOK, Counted
<1> QED BY <1>2, <1>3, <1>4 DEF ViewerInv

\* What the phone is told of an attach.
LEMMA NewsIs ==
  ASSUME Inv, NEW r \in Attaches, NEW h, heard' = [heard EXCEPT ![r] = h],
         toPhone \in Seq(Messages), toPhone' = toPhone \o News
  PROVE  /\ h = heard[r] \/ (heard[r] = "attached" /\ h = "data") => toPhone' = toPhone
         /\ h # heard[r] /\ ~(heard[r] = "attached" /\ h = "data") =>
              toPhone' = Append(toPhone, [kind |-> IF h = "data" THEN "attached" ELSE h, sub |-> r])
<1>1. heard \in [Attaches -> {"nothing", "failed", "attached", "data", "closed"}]
  BY DEF Inv, TypeOK
<1>2. /\ heard'[r] = h /\ \A q \in Attaches : q # r => heard'[q] = heard[q]
      /\ h = heard[r] => heard' = heard
      /\ h # heard[r] => heard' # heard
  BY <1>1
<1>3. CASE h = heard[r]
  <2>1. News = <<>>
    BY <1>2, <1>3 DEF News
  <2> QED BY <1>3, <2>1
<1>4. CASE h # heard[r]
  <2> DEFINE c == CHOOSE q \in Attaches : heard'[q] # heard[q]
  <2>1. c = r
    <3>1. \E q \in Attaches : heard'[q] # heard[q]
      BY <1>2, <1>4
    <3>2. c \in Attaches /\ heard'[c] # heard[c]
      BY <3>1
    <3> QED BY <1>2, <3>2
  <2> HIDE DEF c
  <2>2. News = IF heard' = heard \/ (heard[c] = "attached" /\ heard'[c] = "data") THEN <<>>
               ELSE <<[kind |-> IF heard'[c] = "data" THEN "attached" ELSE heard'[c], sub |-> c]>>
    BY DEF News, c
  <2>3. CASE heard[r] = "attached" /\ h = "data"
    <3>1. News = <<>>
      BY <1>2, <2>1, <2>2, <2>3
    <3> QED BY <1>4, <2>3, <3>1
  <2>4. CASE ~(heard[r] = "attached" /\ h = "data")
    <3> DEFINE m == [kind |-> IF h = "data" THEN "attached" ELSE h, sub |-> r]
    <3>1. News = <<m>>
      BY <1>2, <1>4, <2>1, <2>2, <2>4
    <3> HIDE DEF m
    <3>2. toPhone \o <<m>> = Append(toPhone, m)
      OBVIOUS
    <3> QED BY <1>4, <2>4, <3>1, <3>2 DEF m
  <2> QED BY <2>3, <2>4
<1> QED BY <1>3, <1>4

\* What the Burrow works on is the attach the phone waits for.
LEMMA ServedIsAwaited ==
  ASSUME Told, ViewerInv, ~disposed, NEW r \in Attaches, InService(r)
  PROVE  /\ ViewerTypeOK /\ ViewerAgrees /\ Counted /\ Inv /\ Ordered
         /\ r = generation /\ doing # None /\ doing.stage = "attaching" /\ doing.sub = r /\ doing.wish = begun
         /\ toBurrow = <<>> /\ Answers = {} /\ attached = None /\ heard[r] = "nothing"
         /\ attachment \in {r, None}
<1>1. ViewerTypeOK /\ ViewerAgrees /\ Counted /\ Inv /\ Ordered
  BY DEF ViewerInv
<1>2. /\ r = generation /\ DoingIs({"attaching"}) /\ doing.sub = r /\ toBurrow = <<>> /\ Answers = {}
  BY <1>1 DEF ViewerAgrees, ServingOK
<1> QED BY <1>1, <1>2 DEF ViewerAgrees, DoingOK, DoingIs, AttachmentOK, InService, Inv

\* The attach the phone waits for is answered.
LEMMA ServedIsAnswered ==
  ASSUME Told, ViewerInv, ~disposed, NEW r \in Attaches, InService(r),
         NEW h \in {"failed", "attached", "data"}, heard' = [heard EXCEPT ![r] = h],
         attachment' = (IF h = "failed" THEN None ELSE r), phase' = [phase EXCEPT ![r] = "done"],
         UNCHANGED <<generation, surface, disposed>>, Inv', Ordered', Quietly
  PROVE  ViewerInv'
<1>1. /\ ViewerTypeOK /\ ViewerAgrees /\ Counted /\ Inv /\ Ordered
      /\ r = generation /\ doing # None /\ doing.stage = "attaching" /\ doing.sub = r /\ doing.wish = begun
      /\ toBurrow = <<>> /\ Answers = {} /\ attached = None /\ heard[r] = "nothing"
  BY ServedIsAwaited
<1>2. /\ UNCHANGED <<target, begun, doing, attached, listening, closed, toBurrow>>
      /\ toPhone' = toPhone \o News
  BY DEF Quietly, phone
<1> DEFINE m == [kind |-> IF h = "data" THEN "attached" ELSE h, sub |-> r]
<1>3. toPhone' = Append(toPhone, m)
  BY <1>1, <1>2, NewsIs DEF ViewerTypeOK
<1>4. m \in Messages /\ m.sub = r /\ m.kind = (IF h = "failed" THEN "failed" ELSE "attached")
  BY DEF Messages
<1> HIDE DEF m
<1>5. toPhone' \in Seq(Messages) /\ Distinct' /\ Pending' = Pending \cup {m} /\ Answers' = {m}
  BY <1>1, <1>3, <1>4, AnswerJoins
<1>6. ViewerTypeOK' /\ Counted'
  BY <1>1, <1>2, <1>5 DEF ViewerTypeOK, Counted
<1>7. DoingOK'
  BY <1>1, <1>2 DEF ViewerAgrees, DoingOK, DoingIs
<1>8. ServingOK'
  <2>1. \A q \in Attaches : InService(q)' => InService(q) /\ q # r
    BY <1>1 DEF InService, Inv, TypeOK
  <2>2. \A q \in Attaches : InService(q) => q = r
    BY <1>1 DEF ViewerAgrees, ServingOK
  <2> QED BY <2>1, <2>2 DEF ServingOK
<1>9. AskedOK'
  BY <1>1, <1>2 DEF AskedOK
<1>10. AnsweredOK'
  BY <1>1, <1>2, <1>4, <1>5 DEF AnsweredOK, Answered, DoingIs, Agreed
<1>11. AttachedOK'
  BY <1>1, <1>2 DEF AttachedOK, DoingIs
<1>12. heard'[r] = h /\ \A q \in Attaches : q # r => heard'[q] = heard[q]
  BY <1>1 DEF Inv, TypeOK
<1>13. ClosedOK'
  <2>1. \A n \in Pending' : n.kind = "closed" => n \in Pending /\ n.sub \in Attaches /\ n.sub # r
    BY <1>1, <1>4, <1>5, PendingIs, MessagesAre DEF ViewerAgrees, ClosedOK, ViewerTypeOK
  <2>2. r \notin closed /\ closed \subseteq Attaches
    BY <1>1 DEF ViewerAgrees, ClosedOK, ViewerTypeOK
  <2> QED BY <1>1, <1>2, <1>12, <2>1, <2>2 DEF ViewerAgrees, ClosedOK, DoingIs
<1>14. AttachmentOK'
  BY <1>1, <1>12 DEF AttachmentOK, Inv, TypeOK
<1> QED BY <1>5, <1>6, <1>7, <1>8, <1>9, <1>10, <1>11, <1>13, <1>14 DEF ViewerInv, ViewerAgrees

\* The attach the phone waits for comes further.
LEMMA ServedGoesOn ==
  ASSUME Told, ViewerInv, ~disposed, NEW r \in Attaches, InService(r),
         NEW next \in {"subscribing", "resizing"}, phase' = [phase EXCEPT ![r] = next],
         attachment' = r, UNCHANGED <<generation, surface, heard, disposed>>, Inv', Ordered', Quietly
  PROVE  ViewerInv'
<1>1. /\ ViewerTypeOK /\ ViewerAgrees /\ Counted /\ Inv /\ Ordered
      /\ r = generation /\ doing # None /\ doing.stage = "attaching" /\ doing.sub = r /\ doing.wish = begun
      /\ toBurrow = <<>> /\ Answers = {} /\ attached = None /\ heard[r] = "nothing"
  BY ServedIsAwaited
<1>2. /\ UNCHANGED <<target, begun, doing, attached, listening, closed, toBurrow>>
      /\ toPhone' = toPhone \o News
  BY DEF Quietly, phone
<1>3. News = <<>>
  BY DEF News
<1>4. toPhone' = toPhone
  BY <1>1, <1>2, <1>3 DEF ViewerTypeOK
<1>5. Pending' = Pending /\ Answers' = {} /\ Distinct'
  BY <1>1, <1>4 DEF Pending, Answers, Distinct, Alike, ViewerAgrees
<1>6. ViewerTypeOK' /\ Counted'
  BY <1>1, <1>2, <1>4 DEF ViewerTypeOK, Counted
<1>7. DoingOK' /\ AskedOK' /\ AnsweredOK' /\ AttachedOK'
  BY <1>1, <1>2, <1>5 DEF ViewerAgrees, DoingOK, DoingIs, AskedOK, AnsweredOK, AttachedOK
<1>8. phase'[r] = next /\ \A q \in Attaches : q # r => phase'[q] = phase[q]
  BY <1>1 DEF Inv, TypeOK
<1>9. ServingOK'
  <2>1. \A q \in Attaches : InService(q)' => q = r
    BY <1>1, <1>8 DEF InService, ViewerAgrees, ServingOK
  <2> QED BY <1>1, <1>2, <1>5, <2>1 DEF ServingOK, DoingIs
<1>10. ClosedOK'
  BY <1>1, <1>2, <1>5 DEF ViewerAgrees, ClosedOK, DoingIs
<1>11. AttachmentOK'
  BY <1>1, <1>8 DEF AttachmentOK
<1> QED BY <1>4, <1>5, <1>6, <1>7, <1>9, <1>10, <1>11 DEF ViewerInv, ViewerAgrees

\* Once the session is over nothing more is said.
LEMMA NothingSaidAfter ==
  ASSUME Told, ViewerInv, disposed, disposed' = disposed, heard' = heard, generation' = generation,
         Inv', Ordered', Quietly
  PROVE  ViewerInv'
<1>1. /\ UNCHANGED <<target, begun, doing, attached, listening, closed, toBurrow>>
      /\ toPhone' = toPhone \o News /\ toPhone = <<>> /\ toBurrow = <<>>
      /\ ViewerTypeOK /\ Counted
  BY DEF Quietly, phone, ViewerInv
<1>2. News = <<>>
  BY DEF News
<1>3. toPhone' = <<>>
  BY <1>1, <1>2
<1> QED BY <1>1, <1>3 DEF ViewerInv, ViewerTypeOK, Counted

\* An attach comes a step further, or is answered.
LEMMA ViewerSettleKeeps ==
  ASSUME Told, ViewerInv, NEW r \in Attaches, Settle(r), Quietly
  PROVE  ViewerInv'
<1>1. Inv /\ Ordered /\ Inv' /\ Ordered'
  BY SettleKeeps, SettleIsOrdered DEF ViewerInv, Told
<1>2. InService(r)
  BY DEF Settle, InService, NotResolved, SubscribeFails, Subscribe, Overtaken, Moot, ProviderFails,
         Resize, Finish, Waiting
<1>3. UNCHANGED <<generation, surface, disposed>>
  BY DEF Settle, NotResolved, SubscribeFails, Subscribe, Overtaken, ProviderFails, Resize, Finish
<1>4. CASE disposed
  <2>1. heard' = heard
    BY <1>4 DEF Settle, NotResolved, SubscribeFails, Subscribe, Overtaken, ProviderFails, Resize, Finish,
                Fail, Failed, Installed, Current
  <2> QED BY <1>1, <1>3, <1>4, <2>1, NothingSaidAfter
<1>5. CASE ~disposed
  <2>1. attachment \in {r, None} /\ r = generation /\ ViewerAgrees
    BY <1>2, <1>5, ServedIsAwaited
  <2>2. CASE NotResolved(r) \/ SubscribeFails(r) \/ Overtaken(r) \/ ProviderFails(r)
    <3>1. heard' = [heard EXCEPT ![r] = "failed"] /\ phase' = [phase EXCEPT ![r] = "done"]
      BY <1>5, <2>2 DEF NotResolved, SubscribeFails, Overtaken, ProviderFails, Fail, Failed, Step
    <3>2. attachment' = None
      <4>1. CASE NotResolved(r)
        <5>1. attachment' = attachment /\ phase[r] = "resolving"
          BY <4>1 DEF NotResolved, Waiting
        <5>2. attachment # r
          BY <2>1, <5>1 DEF ViewerAgrees, AttachmentOK, Told, Numbered
        <5> QED BY <2>1, <5>1, <5>2
      <4>2. CASE SubscribeFails(r) \/ Overtaken(r) \/ ProviderFails(r)
        BY <2>1, <4>2 DEF SubscribeFails, Overtaken, ProviderFails, Fail, Teardown, Prior
      <4> QED BY <2>2, <4>1, <4>2
    <3> QED BY <1>1, <1>2, <1>3, <1>5, <3>1, <3>2, ServedIsAnswered
  <2>3. CASE Subscribe(r)
    BY <1>1, <1>2, <1>5, <2>3, ServedGoesOn DEF Subscribe, Step
  <2>4. CASE Resize(r)
    BY <1>1, <1>2, <1>5, <2>4, ServedGoesOn DEF Resize, Installed, Step
  <2>5. CASE Finish(r)
    <3>1. PICK h \in {"attached", "data"} : heard' = [heard EXCEPT ![r] = h]
      BY <2>5 DEF Finish
    <3>2. attachment' = r /\ phase' = [phase EXCEPT ![r] = "done"]
      BY <2>5 DEF Finish, Installed, Step
    <3> QED BY <1>1, <1>2, <1>3, <1>5, <3>1, <3>2, ServedIsAnswered
  <2> QED BY <2>2, <2>3, <2>4, <2>5 DEF Settle
<1> QED BY <1>4, <1>5

\* The PTY speaks: what the phone was told stands.
LEMMA ViewerDataKeeps ==
  ASSUME Told, ViewerInv, NEW r \in Attaches, Data(r), Quietly
  PROVE  ViewerInv'
<1>1. Inv /\ Ordered /\ Inv' /\ Ordered' /\ ViewerTypeOK /\ Counted
  BY StreamKeeps, StreamIsOrdered DEF ViewerInv, Told
<1>2. ~disposed /\ attachment = r
  BY <1>1 DEF Data, Inv, Ordered, Told, Numbered
<1>3. /\ UNCHANGED <<target, begun, doing, attached, listening, closed, toBurrow>>
      /\ UNCHANGED <<generation, surface, phase, stream, attachment, disposed>>
      /\ heard' = [heard EXCEPT ![r] = "data"] /\ heard[r] \in {"attached", "data"}
      /\ toPhone' = toPhone \o News
  BY DEF Data, Streaming, Quietly, phone
<1>4. toPhone' = toPhone
  BY <1>1, <1>3, NewsIs DEF ViewerTypeOK
<1>5. ViewerAgrees
  BY <1>2 DEF ViewerInv
<1>6. Pending' = Pending /\ Answers' = Answers /\ Distinct'
  BY <1>4, <1>5 DEF Pending, Answers, Distinct, Alike, ViewerAgrees
<1>7. ViewerTypeOK' /\ Counted'
  BY <1>1, <1>3, <1>4 DEF ViewerTypeOK, Counted
<1>8. DoingOK' /\ AttachedOK'
  BY <1>3, <1>5, <1>6 DEF ViewerAgrees, DoingOK, AttachedOK, DoingIs, Agreed, Closes
<1>9. ServingOK' /\ AskedOK'
  BY <1>3, <1>5, <1>6 DEF ViewerAgrees, ServingOK, InService, AskedOK, Asks, DoingIs
<1>10. AnsweredOK'
  BY <1>3, <1>5, <1>6 DEF ViewerAgrees, AnsweredOK, Answered, DoingIs, Agreed, Closes
<1>11. heard'[r] = "data" /\ \A q \in Attaches : q # r => heard'[q] = heard[q]
  BY <1>1, <1>3 DEF Inv, TypeOK
<1>12. ClosedOK'
  <2>1. \A n \in Pending : n.kind = "closed" => n.sub \in Attaches /\ n.sub # r
    BY <1>1, <1>3, <1>5, PendingIs, MessagesAre DEF ViewerAgrees, ClosedOK, ViewerTypeOK
  <2>2. r \notin closed /\ closed \subseteq Attaches
    BY <1>1, <1>3, <1>5 DEF ViewerAgrees, ClosedOK, ViewerTypeOK
  <2> QED BY <1>3, <1>5, <1>6, <1>11, <2>1, <2>2 DEF ViewerAgrees, ClosedOK, DoingIs
<1>13. AttachmentOK'
  BY <1>2, <1>3, <1>5, <1>11 DEF ViewerAgrees, AttachmentOK
<1> QED BY <1>1, <1>2, <1>3, <1>6, <1>7, <1>8, <1>9, <1>10, <1>12, <1>13 DEF ViewerInv, ViewerAgrees

\* The PTY ends: silently before its attach was answered, and told after.
LEMMA ViewerExitKeeps ==
  ASSUME Told, ViewerInv, NEW r \in Attaches, Exit(r), Quietly
  PROVE  ViewerInv'
<1>1. Inv /\ Ordered /\ Inv' /\ Ordered' /\ ViewerTypeOK /\ Counted
  BY StreamKeeps, StreamIsOrdered DEF ViewerInv, Told
<1>2. ~disposed /\ attachment = r
  BY <1>1 DEF Exit, Inv, Ordered, Told, Numbered
<1>3. ViewerAgrees
  BY <1>2 DEF ViewerInv
<1>4. /\ UNCHANGED <<target, begun, doing, attached, listening, closed, toBurrow>>
      /\ UNCHANGED <<generation, surface, phase, disposed>> /\ attachment' = None
      /\ toPhone' = toPhone \o News
  BY <1>2 DEF Exit, Teardown, Quietly, phone
<1>5. attachment # None /\ r = generation
  BY <1>2, <1>3 DEF Told, Numbered, ViewerAgrees, AttachmentOK
<1>6. DoingOK' /\ ServingOK' /\ AskedOK' /\ AnsweredOK' /\ AttachedOK' /\ ClosedOK' /\ Distinct'
      /\ toPhone' \in Seq(Messages)
  <2>1. CASE ~Streaming(r)
    <3>1. heard' = heard /\ heard[r] \notin {"attached", "data"}
      BY <2>1 DEF Exit, Streaming
    <3>2. InService(r)
      BY <1>2, <1>3, <1>5, <3>1 DEF ViewerAgrees, AttachmentOK, InService
    <3>3. /\ doing # None /\ doing.stage = "attaching" /\ doing.sub = r /\ doing.wish = begun
          /\ toBurrow = <<>> /\ Answers = {} /\ attached = None
      BY <1>2, <3>2, ServedIsAwaited
    <3>4. News = <<>>
      BY <3>1 DEF News
    <3>5. toPhone' = toPhone
      BY <1>1, <1>4, <3>4 DEF ViewerTypeOK
    <3>6. Pending' = Pending /\ Answers' = {} /\ Distinct'
      BY <1>3, <3>3, <3>5 DEF Pending, Answers, Distinct, Alike, ViewerAgrees
    <3>7. DoingOK' /\ AskedOK' /\ AnsweredOK' /\ AttachedOK'
      BY <1>3, <1>4, <1>5, <3>3, <3>6 DEF ViewerAgrees, DoingOK, DoingIs, AskedOK, AnsweredOK, AttachedOK
    <3>8. ServingOK'
      BY <1>3, <1>4, <3>6 DEF ViewerAgrees, ServingOK, InService, DoingIs
    <3>9. ClosedOK'
      BY <1>3, <1>4, <3>1, <3>6 DEF ViewerAgrees, ClosedOK, DoingIs
    <3> QED BY <1>1, <3>5, <3>6, <3>7, <3>8, <3>9 DEF ViewerTypeOK
  <2>2. CASE Streaming(r)
    <3> DEFINE m == [kind |-> "closed", sub |-> r]
    <3>1. heard' = [heard EXCEPT ![r] = "closed"] /\ heard[r] \in {"attached", "data"}
      BY <2>2 DEF Exit, Streaming
    <3>2. toPhone' = Append(toPhone, m)
      BY <1>1, <1>4, <3>1, NewsIs DEF ViewerTypeOK
    <3>3. m \in Messages /\ m.kind = "closed" /\ m.sub = r
      BY DEF Messages
    <3> HIDE DEF m
    <3>4. \A n \in Pending : n.kind = "closed" => n.sub \in Attaches /\ n.sub # r
      BY <1>1, <1>3, <3>1, PendingIs, MessagesAre DEF ViewerAgrees, ClosedOK, ViewerTypeOK
    <3>5. \A n \in Pending : ~Alike(n, m) /\ ~Alike(m, n)
      BY <3>3, <3>4 DEF Alike
    <3>6. toPhone' \in Seq(Messages) /\ Pending' = Pending \cup {m} /\ Distinct'
      BY <1>1, <1>3, <3>2, <3>3, <3>5, SaidLast DEF ViewerAgrees, ViewerTypeOK
    <3>7. Answers' = Answers
      BY <3>3, <3>6 DEF Answers
    <3>8. ~InService(r)
      BY <1>2, <1>3, <1>5, <3>1 DEF ViewerAgrees, AttachmentOK, InService
    <3>9. \A q : Agreed(q) \/ q = r => \E n \in Pending' : n.kind = "closed" /\ n.sub = r
      BY <3>3, <3>6
    <3>10. \A q : Agreed(q) => q = r
      BY <1>2, <1>5 DEF Agreed
    <3>11. DoingOK'
      BY <1>3, <1>4, <3>9, <3>10 DEF ViewerAgrees, DoingOK, DoingIs, Agreed, Closes
    <3>12. ServingOK'
      BY <1>3, <1>4, <3>7 DEF ViewerAgrees, ServingOK, InService, DoingIs
    <3>13. AskedOK'
      BY <1>3, <1>4, <3>7 DEF ViewerAgrees, AskedOK, Asks, DoingIs
    <3>14. AnsweredOK'
      BY <1>3, <1>4, <3>7, <3>9, <3>10 DEF ViewerAgrees, AnsweredOK, Answered, DoingIs, Agreed, Closes
    <3>15. AttachedOK'
      BY <1>3, <1>4, <1>5, <3>9 DEF ViewerAgrees, AttachedOK, DoingIs, Closes
    <3>16. heard'[r] = "closed" /\ \A q \in Attaches : q # r => heard'[q] = heard[q]
      BY <1>1, <3>1 DEF Inv, TypeOK
    <3>17. ClosedOK'
      <4>1. r \notin closed /\ closed \subseteq Attaches
        BY <1>1, <1>3, <3>1 DEF ViewerAgrees, ClosedOK, ViewerTypeOK
      <4>2. \A n \in Pending' : n.kind = "closed" => heard'[n.sub] = "closed" /\ n.sub \notin closed'
        BY <1>3, <1>4, <3>3, <3>4, <3>6, <3>16, <4>1 DEF ViewerAgrees, ClosedOK
      <4>3. \A q \in closed' : heard'[q] = "closed"
        BY <1>3, <1>4, <3>16, <4>1 DEF ViewerAgrees, ClosedOK
      <4> QED BY <1>3, <1>4, <4>2, <4>3 DEF ViewerAgrees, ClosedOK, DoingIs
    <3> QED BY <3>6, <3>11, <3>12, <3>13, <3>14, <3>15, <3>17
  <2> QED BY <2>1, <2>2
<1>7. ViewerTypeOK' /\ Counted'
  BY <1>1, <1>4, <1>6 DEF ViewerTypeOK, Counted
<1>8. AttachmentOK'
  BY <1>4 DEF AttachmentOK
<1> QED BY <1>1, <1>2, <1>4, <1>6, <1>7, <1>8 DEF ViewerInv, ViewerAgrees

\* A phone that chose nothing, and a session that attached nothing, agree.
LEMMA ViewerInitAgrees == Told /\ ViewerInit => ViewerInv
<1> SUFFICES ASSUME Told, ViewerInit PROVE ViewerInv
  OBVIOUS
<1>1. /\ Init /\ target = <<>> /\ begun = 0 /\ doing = None /\ attached = None
      /\ listening = {} /\ closed = {} /\ toBurrow = <<>> /\ toPhone = <<>>
  BY DEF ViewerInit
<1>2. Inv /\ Ordered
  BY <1>1, InitInv DEF Told, Numbered, Init, Ordered
<1>3. generation = 0 /\ disposed = FALSE /\ attachment = None /\ \A r \in Attaches : phase[r] = "unsent"
  BY <1>1 DEF Init
<1>4. Len(target) = 0 /\ MaxAttaches \in Nat /\ Len(toPhone) = 0
  BY <1>1 DEF Told, Numbered
<1>5. ViewerTypeOK /\ Counted
  BY <1>1, <1>3, <1>4 DEF ViewerTypeOK, Counted
<1>6. Pending = {} /\ Answers = {} /\ Distinct
  BY <1>4 DEF Pending, Answers, Distinct
<1>7. ViewerAgrees
  BY <1>1, <1>3, <1>6 DEF ViewerAgrees, DoingOK, DoingIs, ServingOK, InService, AskedOK, AnsweredOK,
                          AttachedOK, ClosedOK, AttachmentOK
<1> QED BY <1>2, <1>3, <1>5, <1>7 DEF ViewerInv

\* Every step of a viewer keeps the agreement.
LEMMA ViewerStep ==
  ASSUME Told, ViewerInv, ViewerNext
  PROVE  ViewerInv'
<1>1. CASE PhoneSteps
  BY <1>1, ActivateKeeps, LeftKeeps, AttachedOrNotKeeps, InstallKeeps, ClosedKeeps DEF PhoneSteps
<1>2. CASE BurrowSteps
  BY <1>2, TakesAttachKeeps, TakesLeaveKeeps DEF BurrowSteps
<1>3. ASSUME NEW r \in Attaches, (Settle(r) \/ Data(r) \/ Exit(r)) /\ Quietly PROVE ViewerInv'
  BY <1>3, ViewerSettleKeeps, ViewerDataKeeps, ViewerExitKeeps
<1> QED BY <1>1, <1>2, <1>3, ChoiceKeeps, EndsKeeps DEF ViewerNext, Settle

\* What does not touch a viewer keeps the agreement.
LEMMA ViewerRests ==
  ASSUME ViewerInv, UNCHANGED all
  PROVE  ViewerInv'
<1>1. UNCHANGED vars /\ UNCHANGED <<target, begun, doing, attached, listening, closed, toBurrow, toPhone>>
  BY DEF all, phone
<1>2. UNCHANGED <<generation, surface, phase, stream, attachment, heard, disposed>>
  BY <1>1 DEF vars
<1>3. Pending' = Pending /\ Answers' = Answers /\ Distinct' = Distinct
  BY <1>1 DEF Pending, Answers, Distinct, Alike
<1>4. Inv' /\ Ordered' /\ (AttachmentOK => AttachmentOK') /\ \A r \in Attaches : InService(r)' <=> InService(r)
  BY <1>1, SessionRests DEF ViewerInv
<1>5. ViewerTypeOK' /\ Counted'
  BY <1>1, <1>2 DEF ViewerInv, ViewerTypeOK, Counted
<1>6. ViewerAgrees => ViewerAgrees'
  <2> SUFFICES ASSUME ViewerAgrees PROVE ViewerAgrees'
    OBVIOUS
  <2>1. DoingOK' /\ AttachedOK'
    BY <1>1, <1>2, <1>3 DEF ViewerAgrees, DoingOK, AttachedOK, DoingIs, Agreed, Closes
  <2>2. ServingOK' /\ AskedOK'
    BY <1>1, <1>2, <1>3, <1>4 DEF ViewerAgrees, ServingOK, AskedOK, Asks, DoingIs
  <2>3. AnsweredOK'
    BY <1>1, <1>2, <1>3 DEF ViewerAgrees, AnsweredOK, Answered, DoingIs, Agreed, Closes
  <2>4. ClosedOK'
    BY <1>1, <1>2, <1>3 DEF ViewerAgrees, ClosedOK, DoingIs
  <2> QED BY <1>3, <1>4, <2>1, <2>2, <2>3, <2>4 DEF ViewerAgrees
<1> QED BY <1>1, <1>2, <1>4, <1>5, <1>6 DEF ViewerInv

\* Two that agree on every step agree at rest.
LEMMA AgreeAtRestFollows == ViewerInv => ViewerTypeOK /\ AgreeAtRest
<1> SUFFICES ASSUME ViewerInv, ~disposed, AtRest
             PROVE  attached = attachment /\ (attached # None => surface[attached] = target[wish])
  BY DEF ViewerInv, AgreeAtRest
<1>1. ViewerAgrees /\ doing = None /\ begun = Len(target) /\ toPhone = <<>>
  BY DEF ViewerInv, AtRest, wish
<1>2. \A r \in Attaches : ~Closes(r)
  BY <1>1 DEF Closes, Pending
<1> QED BY <1>1, <1>2 DEF ViewerAgrees, AttachedOK, ViewerInv, ViewerTypeOK, wish

\* A phone and the session that serves it agree what is attached whenever
\* nothing is under way, in every run of the two (activatePane of
\* remote-adapter.ts, beginAttach of remote-api.ts).
THEOREM ViewerAndSessionAgree ==
  ASSUME Told
  PROVE  ViewerSpec => []AgreeAtRest
<1>1. ViewerInv /\ [ViewerNext]_all => ViewerInv'
  BY ViewerStep, ViewerRests
<1>2. ViewerInit => ViewerInv
  BY ViewerInitAgrees
<1>3. ViewerInv => AgreeAtRest
  BY AgreeAtRestFollows
<1> QED BY <1>1, <1>2, <1>3, PTL DEF ViewerSpec

\* A step of a viewer is a step of the session that serves it, or none.
LEMMA ViewerStepIsSessionStep ==
  ASSUME ViewerInv, [ViewerNext]_all
  PROVE  [Next]_vars
<1>1. CASE (\E s \in Surfaces : SetActivePane(s)) \/ PhoneSteps \/ TakesResize \/ UNCHANGED all
  BY <1>1 DEF SetActivePane, PhoneSteps, Activate, Detached, Settled, AttachFailed, AttachAnswered,
              Install, Closed, TakesResize, all
<1>2. CASE TakesAttach
  <2>1. Head(toBurrow).surface \in Surfaces /\ Attach(Head(toBurrow).surface)
    BY <1>2, RequestArrives DEF TakesAttach
  <2> QED BY <2>1 DEF Next
<1>3. CASE TakesDetach
  <2>1. Head(toBurrow).surface \in Surfaces
    BY <1>3, RequestArrives DEF TakesDetach
  <2>2. Detach(Head(toBurrow).surface) \/ UNCHANGED vars
    BY <1>3 DEF TakesDetach
  <2> QED BY <2>1, <2>2 DEF Next
<1>4. CASE Ends
  BY <1>4 DEF Ends, Next
<1>5. ASSUME NEW r \in Attaches, Settle(r) \/ Data(r) \/ Exit(r) PROVE [Next]_vars
  BY <1>5 DEF Next
<1> QED BY <1>1, <1>2, <1>3, <1>4, <1>5 DEF ViewerNext, BurrowSteps, Settle

\* A viewer and its Burrow implement the session of remote-api.ts: whatever a
\* phone asks, in whatever order its answers arrive, the session takes none but
\* its own steps, and what is proved of those holds of the two.
THEOREM ViewerImplementsSession ==
  ASSUME Told
  PROVE  ViewerSpec => Spec
<1>1. ViewerInv /\ [ViewerNext]_all => ViewerInv'
  BY ViewerStep, ViewerRests
<1>2. ViewerInit => ViewerInv /\ Init
  BY ViewerInitAgrees DEF ViewerInit
<1>3. ViewerInv /\ [ViewerNext]_all => [Next]_vars
  BY ViewerStepIsSessionStep
<1> QED BY <1>1, <1>2, <1>3, PTL DEF ViewerSpec, Spec

-----------------------------------------------------------------------------
(* The three parts side by side (MCRemoteTerminals).                       *)

\* Each part keeps its invariant, and the others rest.
PartsInv ==
  /\ DirectoryInv /\ Inv /\ Ordered /\ ViewerTypeOK
  /\ part = "viewer" => ViewerInv

\* A step is one of the part it belongs to.
LEMMA StepsAreOfAPart ==
  ASSUME [MCNext]_<<part, parts>>
  PROVE  \/ part = "viewer" /\ part' = part /\ ViewerNext /\ UNCHANGED directories
         \/ part = "session" /\ part' = part /\ Next /\ UNCHANGED <<phone, toBurrow, toPhone, directories>>
         \/ part = "directory" /\ part' = part /\ Directory!Next /\ UNCHANGED all
         \/ UNCHANGED <<part, all, directories>>
<1>1. CASE UNCHANGED <<part, parts>>
  BY <1>1 DEF parts
<1>2. CASE MCNext
  <2>1. CASE \E s \in Surfaces : InViewer /\ SetActivePane(s)
    BY <2>1 DEF InViewer, Only, ViewerNext
  <2>2. CASE InViewer /\ (PhoneSteps \/ BurrowSteps \/ Ends)
    BY <2>2 DEF InViewer, Only, ViewerNext
  <2>3. ASSUME NEW r \in Attaches, InViewer, Settle(r) \/ Data(r) \/ Exit(r), Quietly
        PROVE  part = "viewer" /\ part' = part /\ ViewerNext /\ UNCHANGED directories
    BY <2>3 DEF InViewer, Only, ViewerNext, Settle
  <2>4. ASSUME NEW r \in Attaches, InSession, Settle(r) \/ Data(r) \/ Exit(r)
        PROVE  part = "session" /\ part' = part /\ Next /\ UNCHANGED <<phone, toBurrow, toPhone, directories>>
    BY <2>4 DEF InSession, Only, Next
  <2>5. CASE InSession /\ ((\E s \in Surfaces : Attach(s) \/ Detach(s)) \/ Dispose)
    BY <2>5 DEF InSession, Only, Next
  <2>6. CASE InDirectory /\ Directory!Next
    BY <2>6 DEF InDirectory, Only
  <2> QED BY <1>2, <2>1, <2>2, <2>3, <2>4, <2>5, <2>6
          DEF MCNext, PhoneSteps, BurrowSteps, Settle, Directory!Next
<1> QED BY <1>1, <1>2

\* The step of one part leaves the others as they were.
LEMMA PartsStep ==
  ASSUME Told, Bounded, PartsInv, [MCNext]_<<part, parts>>
  PROVE  PartsInv'
<1>1. (DirectoryInv /\ UNCHANGED directories) => DirectoryInv'
  BY DirectoryStep DEF directories, Directory!vars
<1>2. CASE part = "viewer" /\ part' = part /\ ViewerNext /\ UNCHANGED directories
  <2>1. ViewerInv'
    BY <1>2, ViewerStep DEF PartsInv
  <2> QED BY <1>1, <1>2, <2>1 DEF PartsInv, ViewerInv
<1>3. CASE part = "session" /\ part' = part /\ Next /\ UNCHANGED <<phone, toBurrow, toPhone, directories>>
  <2>1. Inv' /\ Ordered'
    BY <1>3, PhoneKeeps, SettleKeeps, StreamKeeps, PhoneIsOrdered, SettleIsOrdered, StreamIsOrdered
       DEF PartsInv, Next, Told
  <2>2. ViewerTypeOK'
    BY <1>3 DEF PartsInv, ViewerTypeOK, phone
  <2> QED BY <1>1, <1>3, <2>1, <2>2 DEF PartsInv
<1>4. CASE (part = "directory" /\ part' = part /\ Directory!Next /\ UNCHANGED all)
             \/ UNCHANGED <<part, all, directories>>
  <2>1. DirectoryInv'
    BY <1>1, <1>4, DirectoryStep DEF PartsInv
  <2>2. UNCHANGED all /\ UNCHANGED vars /\ UNCHANGED <<target, begun, doing, attached, listening, closed, toBurrow, toPhone>>
        /\ part' = part
    BY <1>4 DEF all, phone
  <2>3. Inv' /\ Ordered' /\ ViewerTypeOK'
    BY <2>2, SessionRests DEF PartsInv, ViewerTypeOK
  <2>4. part' = "viewer" => ViewerInv'
    BY <2>2, ViewerRests DEF PartsInv
  <2> QED BY <2>1, <2>3, <2>4 DEF PartsInv
<1> QED BY <1>2, <1>3, <1>4, StepsAreOfAPart

\* In the three parts a window consists of, a phone and its session agree at
\* rest, streams are attachments and no change of the directory is lost.
THEOREM WindowsAgree ==
  ASSUME Told, Bounded
  PROVE  MCSpec => [](ViewerAgreesAtRest /\ StreamIsAttachment /\ NoChangeLost)
<1>1. PartsInv /\ [MCNext]_<<part, parts>> => PartsInv'
  BY PartsStep
<1>2. MCInit => PartsInv
  BY ViewerInitAgrees, DirectoryInit DEF MCInit, PartsInv, ViewerInv
<1>3. PartsInv => ViewerAgreesAtRest /\ StreamIsAttachment /\ NoChangeLost
  BY AgreeAtRestFollows DEF PartsInv, ViewerAgreesAtRest, Inv, NoChangeLost, DirectoryInv
<1> QED BY <1>1, <1>2, <1>3, PTL DEF MCSpec

\* The three parts side by side implement the session and the directory.
THEOREM WindowsImplementTheirParts ==
  ASSUME Told, Bounded
  PROVE  MCSpec => Spec /\ Directory!Spec
<1>1. PartsInv /\ [MCNext]_<<part, parts>> => PartsInv'
  BY PartsStep
<1>2. MCInit => PartsInv /\ Init /\ Directory!Init
  BY ViewerInitAgrees, DirectoryInit DEF MCInit, PartsInv, ViewerInv, ViewerInit
<1>3. PartsInv /\ [MCNext]_<<part, parts>> => [Next]_vars /\ [Directory!Next]_(Directory!vars)
  <2> SUFFICES ASSUME PartsInv, [MCNext]_<<part, parts>>
               PROVE  [Next]_vars /\ [Directory!Next]_(Directory!vars)
    OBVIOUS
  <2>1. CASE part = "viewer" /\ ViewerNext /\ UNCHANGED directories
    BY <2>1, ViewerStepIsSessionStep DEF PartsInv, directories, Directory!vars
  <2>2. CASE Next /\ UNCHANGED directories
    BY <2>2 DEF directories, Directory!vars
  <2>3. CASE (Directory!Next \/ UNCHANGED directories) /\ UNCHANGED all
    BY <2>3 DEF directories, Directory!vars, all
  <2> QED BY <2>1, <2>2, <2>3, StepsAreOfAPart
<1> QED BY <1>1, <1>2, <1>3, PTL DEF MCSpec, Spec, Directory!Spec
=============================================================================
