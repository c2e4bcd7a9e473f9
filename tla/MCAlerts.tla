------------------------------ MODULE MCAlerts ------------------------------
(* How a Session comes to ring, one part in each behaviour: the detector of   *)
(* its output with its clock (QuiesceDetector), and the AlertManager, which   *)
(* knows a detector by what it promises.                                      *)
EXTENDS AlertManager

CONSTANTS TBusyCandidate, TBusyConfirm, TMightNeed, TSettled, TResize

VARIABLES
  part,
  status, timer, resizeGrace, first, last, accepted, count, detectorDisposed, settles

Quiesce == INSTANCE QuiesceDetector WITH disposed <- detectorDisposed
ASSUME DelaysHold == Quiesce!DelaysAssumption

detector == <<status, timer, resizeGrace, first, last, accepted, count, detectorDisposed, settles>>
parts == <<vars, detector>>

MCInit == part \in {"alerts", "detector"} /\ Init /\ Quiesce!Init

InAlerts == part = "alerts" /\ UNCHANGED <<part, detector>> /\ ~disposed /\ UNCHANGED disposed
InDetector == part = "detector" /\ UNCHANGED <<part, vars>>

\* The next-state relations of the two, with the other at rest.
MCNext ==
  \/ InAlerts /\ AnyData
  \/ \E id \in Sessions :
       \/ InAlerts /\ Resize(id)
       \/ InAlerts /\ Notification(id)
       \/ InAlerts /\ EmptyReport(id)
       \/ InAlerts /\ ProgressActive(id)
       \/ InAlerts /\ ProgressEnds(id)
       \/ InAlerts /\ CommandLine(id)
       \/ InAlerts /\ DetectorSettles(id)
       \/ InAlerts /\ DeferredTimer(id)
       \/ InAlerts /\ Attend(id)
       \/ InAlerts /\ DismissAlert(id)
       \/ InAlerts /\ ToggleTodo(id)
       \/ InAlerts /\ MarkTodo(id)
       \/ InAlerts /\ ClearTodo(id)
       \/ InAlerts /\ Remove(id)
  \/ \E id \in Sessions, argv0 \in Commands \cup {None} : InAlerts /\ CommandStart(id, argv0)
  \/ \E id \in Sessions, ranLong \in BOOLEAN : InAlerts /\ CommandFinish(id, ranLong)
  \/ \E id \in Sessions, ranLong \in BOOLEAN : InAlerts /\ Exit(id, ranLong)
  \/ \E id \in Sessions, d \in Detector : InAlerts /\ DetectorTimer(id, d)
  \/ InAlerts /\ LoseAttention
  \/ \E w \in Waiters, outcome \in {"idle", "timeout", "cancelled"} : InAlerts /\ AwaitEnds(w, outcome)
  \/ \E names \in SUBSET Commands : InAlerts /\ SetWatchedCommands(names)
  \/ \E on \in BOOLEAN : InAlerts /\ SetDeferAlertsUntilQuiet(on)
  \/ \E id \in MayBeHelper, helper \in BOOLEAN : InAlerts /\ SetHelper(id, helper)
  \/ \E id \in Sessions, todo \in BOOLEAN, n \in {None, "protocol", "COMMAND_EXIT"} : InAlerts /\ Seed(id, todo, n)
  \/ \E w \in Waiters, id \in Sessions : InAlerts /\ AwaitRefused(w, id)
  \/ \E w \in Waiters, id \in Sessions, until \in Until : InAlerts /\ AwaitAnswered(w, id, until)
  \/ \E w \in Waiters, id \in Sessions, until \in Until : InAlerts /\ AwaitParks(w, id, until)
  \/ part = "alerts" /\ UNCHANGED <<part, detector>> /\ ~disposed /\ Dispose
  \/ InDetector /\ Quiesce!OnData
  \/ InDetector /\ Quiesce!OnResize
  \/ InDetector /\ Quiesce!OnReset
  \/ InDetector /\ Quiesce!Dispose
  \/ InDetector /\ Quiesce!CandidateTimer
  \/ InDetector /\ Quiesce!ConfirmTimer
  \/ InDetector /\ Quiesce!MightNeedTimer
  \/ InDetector /\ Quiesce!SettledTimer
  \/ InDetector /\ Quiesce!ResizeTimer
  \/ InDetector /\ Quiesce!Tick

\* The fairness of each part.
MCSpec ==
  /\ MCInit /\ [][MCNext]_<<part, parts>>
  /\ \A id \in Sessions :
       /\ SF_parts(InAlerts /\ QuietTimer(id))
       /\ WF_parts(InAlerts /\ ActivityTimer(id))
       /\ WF_parts(InAlerts /\ DeferredTimer(id))
  /\ WF_parts(InDetector /\ Quiesce!Tick) /\ WF_parts(InDetector /\ Quiesce!TimerFires)

\* TimersMatchStatus and ImplementsOutputDetector of QuiesceDetector: the timers
\* follow the status and keep the promise the AlertManager builds on.
DetectorKeepsItsPromise ==
  [](Quiesce!TypeOK /\ Quiesce!TimersMatchStatus) /\ Quiesce!ImplementsOutputDetector

\* SettlesWhenOutputStops of QuiesceDetector: a busy detector comes to rest.
SettlesWhenOutputStops == Quiesce!SettlesWhenOutputStops
=============================================================================
