------------------------- MODULE MCRemoteTerminals -------------------------
(* The panes of a window on a phone, one part in each behaviour: a phone     *)
(* looks at one pane at a time (RemoteViewer), any client drives a session   *)
(* (RemoteAttach), and a phone watches the directory (RemoteDirectory).      *)
EXTENDS RemoteViewer

CONSTANTS Local, Peers, MaxChanges, MaxWatches, MaxCollects

VARIABLES
  part,
  directory, watches, watching, armed, collectGeneration, collects, late, shown, failed

Directory == INSTANCE RemoteDirectory WITH generation <- collectGeneration

directories == <<directory, watches, watching, armed, collectGeneration, collects, late, shown, failed>>
parts == <<all, directories>>

MCInit ==
  /\ part \in {"viewer", "session", "directory"}
  /\ ViewerInit /\ Directory!Init

Only(p) == part = p /\ UNCHANGED part
InViewer == Only("viewer") /\ UNCHANGED directories
InSession == Only("session") /\ UNCHANGED <<phone, toBurrow, toPhone, directories>>
InDirectory == Only("directory") /\ UNCHANGED all

\* The next-state relations of the three, with the others at rest.
MCNext ==
  \/ \E s \in Surfaces : InViewer /\ SetActivePane(s)
  \/ InViewer /\ Activate
  \/ InViewer /\ Detached
  \/ InViewer /\ Settled
  \/ InViewer /\ AttachFailed
  \/ InViewer /\ AttachAnswered
  \/ InViewer /\ Install
  \/ InViewer /\ Closed
  \/ InViewer /\ TakesAttach
  \/ InViewer /\ TakesDetach
  \/ InViewer /\ TakesResize
  \/ InViewer /\ Ends
  \/ \E r \in Attaches :
       \/ InViewer /\ NotResolved(r) /\ Quietly
       \/ InViewer /\ SubscribeFails(r) /\ Quietly
       \/ InViewer /\ Subscribe(r) /\ Quietly
       \/ InViewer /\ Overtaken(r) /\ Quietly
       \/ InViewer /\ ProviderFails(r) /\ Quietly
       \/ InViewer /\ Resize(r) /\ Quietly
       \/ InViewer /\ Finish(r) /\ Quietly
       \/ InViewer /\ Data(r) /\ Quietly
       \/ InViewer /\ Exit(r) /\ Quietly
       \/ InSession /\ NotResolved(r)
       \/ InSession /\ SubscribeFails(r)
       \/ InSession /\ Subscribe(r)
       \/ InSession /\ Overtaken(r)
       \/ InSession /\ ProviderFails(r)
       \/ InSession /\ Resize(r)
       \/ InSession /\ Finish(r)
       \/ InSession /\ Data(r)
       \/ InSession /\ Exit(r)
  \/ \E s \in Surfaces :
       \/ InSession /\ Attach(s)
       \/ InSession /\ Detach(s)
  \/ InSession /\ Dispose
  \/ InDirectory /\ Directory!Watch
  \/ \E w \in Directory!Webviews : InDirectory /\ Directory!Change(w)
  \/ InDirectory /\ Directory!TimerFires
  \/ InDirectory /\ Directory!Dispose
  \/ \E c \in collects : InDirectory /\ Directory!Collected(c)
  \/ \E c \in collects : InDirectory /\ Directory!CollectFails(c)
  \/ \E c \in collects, w \in Directory!Webviews : InDirectory /\ Directory!Misses(c, w)
  \/ \E l \in late : InDirectory /\ Directory!LateAnswer(l)

\* The fairness of each part.
MCSpec ==
  /\ MCInit /\ [][MCNext]_<<part, parts>>
  /\ WF_parts(InViewer /\ PhoneSteps) /\ WF_parts(InViewer /\ BurrowSteps)
  /\ \A r \in Attaches : WF_parts(InViewer /\ Settle(r) /\ Quietly)

\* AgreeAtRest of RemoteViewer: a phone and the Burrow agree what is attached
\* whenever nothing is under way.
ViewerAgreesAtRest == ViewerTypeOK /\ (part = "viewer" => AgreeAtRest)

\* NoChangeLost of RemoteDirectory: no change of the directory is lost.
NoChangeLost == Directory!TypeOK /\ Directory!NoChangeLost

\* SnapshotsGoForward of RemoteDirectory: the picker never goes back.
SnapshotsGoForward == Directory!SnapshotsGoForward
=============================================================================
