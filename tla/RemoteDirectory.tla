-------------------------- MODULE RemoteDirectory --------------------------
(***************************************************************************)
(* lib/src/remote/burrow/remote-api.ts: the directory a phone watches.      *)
(* Changes are coalesced by a timer, a snapshot is collected from every     *)
(* webview while more changes come, collects overlap and any may fail. A    *)
(* webview that spends its budget is left out of the snapshot and answers   *)
(* late: to the Burrow's own process, or over the link between windows.     *)
(* The panes of a webview are the number of changes they have seen.         *)
(***************************************************************************)
EXTENDS Integers

CONSTANTS
  Local,       \* webviews the Burrow's process asks itself
  Peers,       \* webviews of the other windows, asked over the link
  MaxChanges,  \* bound: changes of one webview's panes
  MaxWatches,  \* bound: directory.watch requests
  MaxCollects  \* bound: collects

VARIABLES
  directory,  \* the panes of each webview
  watches,    \* directory.watch requests so far; the last is #directorySubId
  watching,   \* #directorySubId, #unsubDirectory
  armed,      \* #directoryTimer
  generation, \* #directoryGeneration
  collects,   \* collects under way: their generation and watch, the panes they began at, who missed
  late,       \* answers that will come after their collect stopped waiting for them
  shown,      \* the last snapshot: its watch and generation, the panes last seen, who is not in it
  failed      \* the newest collect failed

vars == <<directory, watches, watching, armed, generation, collects, late, shown, failed>>

Webviews == Local \cup Peers
Generations == 0 .. MaxCollects
Panes == [Webviews -> 0 .. MaxChanges]

TypeOK ==
  /\ directory \in Panes /\ watches \in 0 .. MaxWatches
  /\ watching \in BOOLEAN /\ armed \in BOOLEAN /\ generation \in Generations
  /\ collects \subseteq [generation : Generations, watch : 1 .. MaxWatches,
                         from : Panes, missed : SUBSET Webviews]
  /\ late \subseteq [generation : Generations, webview : Webviews]
  /\ shown \in [watch : 0 .. MaxWatches, generation : Generations,
                directory : [Webviews -> -1 .. MaxChanges], without : SUBSET Webviews]
  /\ failed \in BOOLEAN

Init ==
  /\ directory = [w \in Webviews |-> 0] /\ watches = 0 /\ watching = FALSE /\ armed = FALSE
  /\ generation = 0 /\ collects = {} /\ late = {} /\ failed = FALSE
  /\ shown = [watch |-> 0, generation |-> 0, directory |-> [w \in Webviews |-> -1], without |-> {}]

-----------------------------------------------------------------------------
\* emitDirectory to its await.
Collect(watch) ==
  /\ generation < MaxCollects /\ generation' = generation + 1
  /\ collects' = collects \cup
       {[generation |-> generation + 1, watch |-> watch, from |-> directory, missed |-> {}]}
  /\ failed' = FALSE

\* directory.watch
Watch ==
  /\ watches < MaxWatches /\ watches' = watches + 1
  /\ watches = 0 \/ watching
  /\ watching' = TRUE
  /\ Collect(watches + 1)
  /\ UNCHANGED <<directory, armed, late, shown>>

Armed_UnlessCollecting == watching /\ collects = {}
\* scheduleDirectory: one timer at a time.
Armed == watching

Change(w) ==
  /\ directory[w] < MaxChanges /\ directory' = [directory EXCEPT ![w] = @ + 1]
  /\ armed' = (armed \/ Armed)
  /\ UNCHANGED <<watches, watching, generation, collects, late, shown, failed>>

TimerFires ==
  /\ armed /\ armed' = FALSE
  /\ Collect(watches)
  /\ UNCHANGED <<directory, watches, watching, late, shown>>

\* The budget of a collect passes without the answer of one webview.
Misses(c, w) ==
  /\ w \notin c.missed
  /\ collects' = (collects \ {c}) \cup {[c EXCEPT !.missed = @ \cup {w}]}
  /\ late' = late \cup {[generation |-> c.generation, webview |-> w]}
  /\ UNCHANGED <<directory, watches, watching, armed, generation, shown, failed>>

\* A late answer invalidates the directory of the process that asked. Over the
\* link it is dropped: the broker knows the request no more, and the window it
\* comes from watches nothing.
LateAnswer(l) ==
  /\ late' = late \ {l}
  /\ armed' = (armed \/ (l.webview \in Local /\ Armed))
  /\ UNCHANGED <<directory, watches, watching, generation, collects, shown, failed>>

Newest_OfAnyCollect(c) == watching /\ c.watch = watches
\* Only the newest collect of the present watch emits.
Newest(c) == watching /\ c.watch = watches /\ c.generation = generation

\* A collect answers, whoever missed, with the panes that each of the others
\* had at some moment since it began.
Collected(c) ==
  /\ collects' = collects \ {c}
  /\ \E read \in Panes :
       /\ \A w \in Webviews : c.from[w] <= read[w] /\ read[w] <= directory[w]
       /\ shown' = IF Newest(c)
                   THEN [watch |-> c.watch, generation |-> c.generation, without |-> c.missed,
                         directory |-> [w \in Webviews |->
                                          IF w \in c.missed THEN shown.directory[w] ELSE read[w]]]
                   ELSE shown
  /\ UNCHANGED <<directory, watches, watching, armed, generation, late, failed>>

CollectFails(c) ==
  /\ collects' = collects \ {c}
  /\ failed' = (failed \/ Newest(c))
  /\ UNCHANGED <<directory, watches, watching, armed, generation, late, shown>>

Dispose ==
  /\ watching /\ watching' = FALSE
  /\ armed' = FALSE
  /\ UNCHANGED <<directory, watches, generation, collects, late, shown, failed>>

Next ==
  \/ Watch \/ TimerFires \/ Dispose
  \/ \E w \in Webviews : Change(w)
  \/ \E c \in collects : Collected(c) \/ CollectFails(c) \/ \E w \in Webviews : Misses(c, w)
  \/ \E l \in late : LateAnswer(l)

Spec == Init /\ [][Next]_vars

-----------------------------------------------------------------------------
(* Properties.                                                             *)

\* What is still to repair the picture the phone has of a webview.
Current(c) == c.watch = watches /\ c.generation = generation
Underway(w) ==
  \/ armed
  \/ \E c \in collects : Current(c) /\ c.from[w] = directory[w]
  \/ failed
AnswersLate(w) == \E l \in late : l.webview = w

Seen(w) == w \notin shown.without /\ shown.directory[w] = directory[w]
LeftOut(w) == w \in shown.without /\ (w \in Local => AnswersLate(w))

\* No change is lost: the snapshot of the present watch has the panes of a
\* webview as they are, or a timer, a collect begun after their last change or
\* the failure of the newest stands between them. A webview left out of that
\* snapshot is still to answer, which sets the timer, unless it answers over
\* the link (scheduleDirectory, emitDirectory, the late 'peer:answer').
NoChangeLost ==
  watching => \A w \in Webviews :
    Underway(w) \/ (shown.watch = watches /\ (Seen(w) \/ LeftOut(w)))

\* The picker never goes back: a slow collect, one whose budgets all passed
\* included, does not overwrite what a newer one showed, no panes are replaced
\* by older ones, and nothing is sent once the session is over (the generation
\* and the subId compared in emitDirectory).
SnapshotsGoForward ==
  [][shown' # shown =>
       /\ watching
       /\ shown'.watch >= shown.watch /\ shown'.generation > shown.generation
       /\ \A w \in Webviews : shown'.directory[w] >= shown.directory[w]]_vars
=============================================================================
