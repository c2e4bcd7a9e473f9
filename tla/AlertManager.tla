---------------------------- MODULE AlertManager ----------------------------
(***************************************************************************)
(* lib/src/lib/alert-manager.ts: the three alarm tracks of every Session,  *)
(* attention, deferral behind animation, TODO, and the awaits parked on a  *)
(* Session.                                                                *)
(*                                                                         *)
(* One action per entry point and per timer callback; each runs to         *)
(* completion.  Detectors follow DetectorRules, which QuiesceDetector      *)
(* implements; clocks are otherwise left out, so a timer that is armed may *)
(* fire at any later step and whether a command ran long enough is a       *)
(* choice.  A Session's record is NewEntry while the map has none, and     *)
(* pendingCommandLine is left out: the program a command start names is an *)
(* input.                                                                  *)
(* Notification text is reduced to the track it came from, and ringSeq,    *)
(* which is only compared, is kept modulo RingSeqBase.                     *)
(***************************************************************************)
EXTENDS DetectorRules, Naturals

CONSTANTS
  Sessions,     \* ids
  Commands,     \* program names (argv0)
  Waiters,      \* slots for awaits parked at the same time
  MayBeHelper,  \* ids a host may mark as helper Sessions
  RingSeqBase,  \* ringSeq is kept modulo this
  None          \* null

ASSUME BaseAssumption == RingSeqBase \in Nat /\ RingSeqBase > 2
ASSUME HelperAssumption == MayBeHelper \subseteq Sessions

VARIABLES
  live,         \* keys of entries
  entry,        \* entries
  removed,      \* removed: tombstones
  helpers,      \* helpers
  attentionId,  \* attentionId; its timer is armed iff it is not null
  watched,      \* watchedCommands
  deferring,    \* deferAlertsUntilQuiet
  wait,         \* awaits: what each slot is parked on
  answered,     \* the outcome each slot's promise resolved to in the last step
  published,    \* lastEmitted: what the listeners last heard of each Session
  disposed      \* dispose() was called

vars == <<live, entry, removed, helpers, attentionId, watched, deferring, wait, answered, published, disposed>>
settings == <<helpers, watched, deferring>>

NoWatch == [argv0 |-> None, seen |-> FALSE, running |-> FALSE]
Watch == [argv0 : Commands \cup {None}, seen : BOOLEAN, running : {TRUE}] \cup {NoWatch}
Entry ==
  [ detector : Detector,
    ringCommand : Commands \cup {None},    \* watchingRingingCommand
    outputSinceRing : BOOLEAN,             \* outputSinceWatchingRing
    ringSeq : 0 .. RingSeqBase - 1,
    protocol : {"IDLE", "OSC_NOTIF_BUSY", "ALERT_RINGING"},
    progress : BOOLEAN,                    \* progress # null
    commandExit : {"IDLE", "COMMAND_EXIT_ARMED", "ALERT_RINGING"},
    watch : Watch,                         \* commandExitWatch
    todo : BOOLEAN,
    notification : {None, "protocol", "COMMAND_EXIT"},
    dismissed : BOOLEAN,                   \* attentionDismissedRing
    deferred : BOOLEAN ]                   \* deferredNotification # null, timer armed
NewEntry ==
  [ detector |-> NewDetector, ringCommand |-> None, outputSinceRing |-> FALSE, ringSeq |-> 0,
    protocol |-> "IDLE", progress |-> FALSE, commandExit |-> "IDLE", watch |-> NoWatch,
    todo |-> FALSE, notification |-> None, dismissed |-> FALSE, deferred |-> FALSE ]

Until == {"quiet", "exit"}
Outcome == {"quiet", "exit", "bell", "idle", "timeout", "died", "cancelled"}
ASSUME NoneAssumption == None \notin Sessions \cup Commands \cup Outcome \cup {"protocol", "COMMAND_EXIT"}
Free == [id |-> None, until |-> "quiet", grace |-> FALSE]
Wait == [id : Sessions, until : Until, grace : BOOLEAN] \cup {Free}

SessionStatus == QuiesceStatus \cup
  {"WATCHING_DISABLED", "ALERT_RINGING", "OSC_NOTIF_BUSY", "COMMAND_EXIT_ARMED"}
AlertState ==
  [status : SessionStatus, watching : BOOLEAN, todo : BOOLEAN,
   notification : {None, "protocol", "COMMAND_EXIT"}, dismissed : BOOLEAN,
   awaited : BOOLEAN, ringSeq : 0 .. RingSeqBase - 1]
DefaultState ==
  [status |-> "WATCHING_DISABLED", watching |-> FALSE, todo |-> FALSE,
   notification |-> None, dismissed |-> FALSE, awaited |-> FALSE, ringSeq |-> 0]
Unheard == [DefaultState EXCEPT !.status = "unheard"]

TypeOK ==
  /\ live \subseteq Sessions
  /\ entry \in [Sessions -> Entry]
  /\ removed \subseteq Sessions /\ helpers \subseteq MayBeHelper
  /\ attentionId \in Sessions \cup {None}
  /\ watched \subseteq Commands
  /\ deferring \in BOOLEAN
  /\ wait \in [Waiters -> Wait]
  /\ answered \in [Waiters -> Outcome \cup {None}]
  /\ published \in [Sessions -> AlertState \cup {Unheard}]
  /\ disposed \in BOOLEAN

Init ==
  /\ live = {} /\ entry = [id \in Sessions |-> NewEntry]
  /\ removed = {} /\ helpers = {} /\ attentionId = None
  /\ watched = {} /\ deferring = FALSE
  /\ wait = [w \in Waiters |-> Free] /\ answered = [w \in Waiters |-> None]
  /\ published = [id \in Sessions |-> Unheard] /\ disposed = FALSE

-----------------------------------------------------------------------------
(* Predicates.                                                             *)

Ringing(e) ==
  e.protocol = "ALERT_RINGING" \/ e.commandExit = "ALERT_RINGING" \/ e.ringCommand # None

WatchedBy(e, names) == e.watch.argv0 # None /\ e.watch.argv0 \in names
IsWatching(e) == WatchedBy(e, watched)
HasAttention(id) == attentionId = id
Parked_Anywhere(id) == {w \in Waiters : wait[w].id # None}
Parked(id) == {w \in Waiters : wait[w].id = id}

\* getProjectedStatus and getState.
StatusOf(e, names) ==
  CASE Ringing(e) -> "ALERT_RINGING"
    [] ~Ringing(e) /\ e.protocol = "OSC_NOTIF_BUSY" -> "OSC_NOTIF_BUSY"
    [] ~Ringing(e) /\ e.protocol = "IDLE" /\ WatchedBy(e, names) -> e.detector.status
    [] OTHER -> IF e.commandExit = "COMMAND_EXIT_ARMED" THEN "COMMAND_EXIT_ARMED"
                ELSE "WATCHING_DISABLED"
StateOf(id, e, names, waits) ==
  [status |-> StatusOf(e, names), watching |-> WatchedBy(e, names), todo |-> e.todo,
   notification |-> e.notification, dismissed |-> e.dismissed,
   awaited |-> \E w \in Waiters : waits[w].id = id, ringSeq |-> e.ringSeq]
State(id) == IF id \in live THEN StateOf(id, entry[id], watched, wait) ELSE DefaultState

-----------------------------------------------------------------------------
(* Changes to one entry.                                                   *)

ResetDetector(e) == [e EXCEPT !.detector = Reset(@)]

LatchRing_AlwaysSilent(e, wasRinging) == e
\* latchRing: a track that is already ringing is not a fresh summons.
LatchRing(e, wasRinging) ==
  [e EXCEPT !.ringSeq = IF wasRinging THEN @ ELSE (@ + 1) % RingSeqBase]

ApplyProtocolRinging_NoTodo(e) ==
  [LatchRing(e, e.protocol = "ALERT_RINGING") EXCEPT
     !.notification = "protocol", !.protocol = "ALERT_RINGING", !.progress = FALSE]
ApplyProtocolRinging(e) ==
  [LatchRing(e, e.protocol = "ALERT_RINGING") EXCEPT
     !.notification = "protocol", !.todo = TRUE, !.protocol = "ALERT_RINGING", !.progress = FALSE]

ApplyCommandExitRinging(e) ==
  [LatchRing(e, e.commandExit = "ALERT_RINGING") EXCEPT
     !.commandExit = "ALERT_RINGING", !.todo = TRUE,
     !.notification = IF e.protocol = "ALERT_RINGING" THEN @ ELSE "COMMAND_EXIT"]

\* releaseRing, per track.
ReleaseProtocol(e) == [e EXCEPT !.protocol = "IDLE", !.progress = FALSE]
ReleaseCommandExit(e) == [e EXCEPT !.commandExit = "IDLE"]
ReleaseWatching(e) == ResetDetector([e EXCEPT !.ringCommand = None, !.outputSinceRing = FALSE])

\* clearAllRingsIfActive: a deferred delivery is cancelled with the rings.
ClearAllRings(e) ==
  LET e1 == IF e.protocol = "ALERT_RINGING" THEN ReleaseProtocol(e) ELSE e
      e2 == IF e.commandExit = "ALERT_RINGING" THEN ReleaseCommandExit(e1) ELSE e1
      e3 == IF e.ringCommand # None THEN ReleaseWatching(e2) ELSE e2
  IN [e3 EXCEPT !.deferred = FALSE]

\* flushDeferredNotification.
Flush(id, e) ==
  IF e.deferred /\ ~HasAttention(id)
  THEN ApplyProtocolRinging([e EXCEPT !.deferred = FALSE])
  ELSE [e EXCEPT !.deferred = FALSE]

\* The ring rules of dispatchCompletion, one per kind of completion.
RingSettled(id, e) ==
  IF IsWatching(e) /\ ~HasAttention(id)
  THEN [LatchRing(e, e.ringCommand # None) EXCEPT
          !.ringCommand = e.watch.argv0, !.outputSinceRing = FALSE]
  ELSE e

RingFinished(id, e, armed, ranLong) ==
  IF armed /\ ranLong /\ ~HasAttention(id) THEN Flush(id, ApplyCommandExitRinging(e)) ELSE e

RingNotified_EvenAttended(id, e) == ApplyProtocolRinging([e EXCEPT !.deferred = FALSE])
RingNotified_DeferAgain(id, e) ==
  CASE HasAttention(id) -> e
    [] ~HasAttention(id) /\ deferring /\ ConfirmedBusy(e.detector) -> [e EXCEPT !.deferred = TRUE]
    [] OTHER -> ApplyProtocolRinging(e)
RingNotified(id, e) ==
  CASE HasAttention(id) -> e
    [] ~HasAttention(id) /\ deferring /\ ~Ringing(e) /\ (e.deferred \/ ConfirmedBusy(e.detector)) ->
         [e EXCEPT !.deferred = TRUE]
    [] OTHER -> ApplyProtocolRinging([e EXCEPT !.deferred = FALSE])

\* awaitCauseFor: which parked awaits claim a completion.
Claimants(id, kind) ==
  {w \in Parked(id) : kind = "commandFinished" \/ wait[w].until = "quiet"}
Claimed_OnlyInBand(id, kind) == kind # "commandFinished" /\ Claimants(id, kind) # {}
Claimed(id, kind) == Claimants(id, kind) # {}

-----------------------------------------------------------------------------
(* What a handler leaves behind.                                           *)

\* Settling a slot frees it and resolves its promise.
Settle(S, outcome) ==
  /\ wait' = [w \in Waiters |-> IF w \in S THEN Free ELSE wait[w]]
  /\ answered' = [w \in Waiters |-> IF w \in S THEN outcome ELSE None]
NobodySettles == Settle({}, None)
EndGrace(S) ==
  /\ wait' = [w \in Waiters |-> IF w \in S THEN [wait[w] EXCEPT !.grace = FALSE] ELSE wait[w]]
  /\ answered' = [w \in Waiters |-> None]

\* notify(id) for the Sessions in S, after everything else the handler did.
Publish_IgnoringSeq(S) ==
  published' = [id \in Sessions |->
    IF id \notin S THEN published[id]
    ELSE IF id \notin live'
    THEN IF published[id] \in {Unheard, DefaultState} THEN published[id] ELSE Unheard
    ELSE LET state == StateOf(id, entry'[id], watched', wait')
         IN IF [state EXCEPT !.ringSeq = published[id].ringSeq] = published[id]
            THEN published[id] ELSE state]
Publish(S) ==
  published' = [id \in Sessions |->
    IF id \notin S THEN published[id]
    ELSE IF id \in live' THEN StateOf(id, entry'[id], watched', wait')
    ELSE IF published[id] \in {Unheard, DefaultState} THEN published[id] ELSE Unheard]

\* The handler got or created id's entry and turned it into e.
Put(id, e) == live' = live \cup {id} /\ entry' = [entry EXCEPT ![id] = e]

\* streamEntry: raw output does not revive a removed Session.
Stream(id) == id \notin helpers \cup removed /\ UNCHANGED removed
\* reportedEntry: a report from the terminal does.
Reported(id) == id \notin helpers /\ removed' = removed \ {id}

\* armCommandExitOnAttentionLoss
ArmsOnLoss(id) ==
  id \in live /\ entry[id].watch.running /\ entry[id].watch.seen /\ entry[id].commandExit = "IDLE"
Armed(e) == [e EXCEPT !.commandExit = "COMMAND_EXIT_ARMED"]

-----------------------------------------------------------------------------
(* What the terminal does.                                                 *)

\* onData.  d is the detector afterwards: unchanged in the resize grace.
Data(id, d) ==
  /\ Stream(id)
  /\ d \in AfterOutput(entry[id].detector) \cup {entry[id].detector}
  /\ Put(id, [entry[id] EXCEPT !.detector = d, !.outputSinceRing = entry[id].ringCommand # None])
  /\ EndGrace({w \in Parked(id) : wait[w].until = "quiet"})
  /\ UNCHANGED <<attentionId, settings>>
  /\ Publish(IF d.status # entry[id].detector.status /\ IsWatching(entry[id]) THEN {id} ELSE {})

\* onResize: only the detector's grace window changes.
Resize(id) ==
  /\ Stream(id) /\ id \notin live
  /\ Put(id, entry[id]) /\ NobodySettles
  /\ UNCHANGED <<attentionId, settings, published>>

\* A timer of the detector, and its onChange.
DetectorTimer(id, d) ==
  /\ id \in live
  /\ UNCHANGED <<removed, attentionId, settings>>
  /\ LET old == entry[id].detector IN
     /\ d \in CandidateElapsed(old) \cup ConfirmElapsed(old) \cup LullElapsed(old) \cup QuietElapsed(old)
     /\ d # old
     /\ Put(id, [entry[id] EXCEPT !.detector = d]) /\ NobodySettles
     /\ Publish(IF d.status # old.status /\ IsWatching(entry[id]) THEN {id} ELSE {})

\* onSettled: the settle is dispatched first, then what an earlier event left.
DetectorSettles(id) ==
  /\ id \in live /\ CanSettle(entry[id].detector)
  /\ Settle(Claimants(id, "settled"), "quiet")
  /\ UNCHANGED <<removed, attentionId, settings>>
  /\ LET e == IF Claimed(id, "settled") THEN entry[id] ELSE RingSettled(id, entry[id])
         rang == [e EXCEPT !.deferred = FALSE] # [entry[id] EXCEPT !.deferred = FALSE]
     IN /\ Put(id, ResetDetector(Flush(id, e)))
        /\ Publish(IF Claimed(id, "settled") \/ rang \/ e.deferred \/ IsWatching(entry[id])
                   THEN {id} ELSE {})

\* scheduleDeferredNotification: due when the quiet clock says so, which a
\* reset of the detector does not stop.
HeldUntil_Settled(e) == e.deferred /\ CanSettle(e.detector)
HeldUntil(e) == e.deferred /\ e.detector.quiet
DeferredTimer(id) ==
  /\ id \in live /\ HeldUntil(entry[id])
  /\ Put(id, Flush(id, entry[id])) /\ NobodySettles
  /\ UNCHANGED <<removed, attentionId, settings>>
  /\ Publish({id})

\* dispatchCompletion of a notification, from an entry that is already e.
DispatchNotification(id, e) ==
  /\ Put(id, IF Claimed(id, "notification") THEN e ELSE RingNotified(id, e))
  /\ Settle(Claimants(id, "notification"), "bell")
  /\ Publish({id})

\* notifyFromProtocol
Notification(id) ==
  /\ Reported(id) /\ UNCHANGED <<attentionId, settings>>
  /\ DispatchNotification(id, entry[id])

\* A report with nothing in it: a notification without text, a "clear" with
\* no progress.
EmptyReport(id) ==
  /\ Reported(id) /\ Put(id, entry[id]) /\ NobodySettles
  /\ UNCHANGED <<attentionId, settings, published>>

\* updateProtocolProgress, while the cycle runs: a ring of the track is
\* overwritten.
ProgressActive(id) ==
  /\ Reported(id)
  /\ Put(id, [entry[id] EXCEPT !.progress = TRUE, !.protocol = "OSC_NOTIF_BUSY"])
  /\ NobodySettles
  /\ UNCHANGED <<attentionId, settings>>
  /\ Publish({id})

\* finishProtocolProgressCycle: cleared before anyone is offered the event.
CycleOver(e) ==
  [e EXCEPT !.progress = FALSE, !.protocol = IF @ = "OSC_NOTIF_BUSY" THEN "IDLE" ELSE @]
ProgressEnds(id) ==
  /\ Reported(id) /\ UNCHANGED <<attentionId, settings>>
  /\ DispatchNotification(id, CycleOver(entry[id]))

\* commandLine: only the line a later command start resolves.
CommandLine(id) ==
  /\ Reported(id) /\ Put(id, entry[id]) /\ NobodySettles
  /\ UNCHANGED <<attentionId, settings>>
  /\ Publish({id})

\* startCommandExitWatch
CommandStart(id, argv0) ==
  /\ Reported(id)
  /\ Put(id, ResetDetector([entry[id] EXCEPT
                !.commandExit = IF @ = "ALERT_RINGING" THEN @ ELSE "IDLE",
                !.watch = [argv0 |-> argv0, seen |-> HasAttention(id), running |-> TRUE]]))
  /\ EndGrace(Parked(id))
  /\ UNCHANGED <<attentionId, settings>>
  /\ Publish({id})

\* finishCommandExitWatch: disarmed, dispatched and only then reset.
Disarmed_Resets(e) == [e EXCEPT !.watch = NoWatch, !.commandExit = "IDLE"]
Disarmed(e) ==
  [e EXCEPT !.watch = NoWatch, !.commandExit = IF @ = "ALERT_RINGING" THEN @ ELSE "IDLE"]
Finished(id, ranLong) ==
  LET e == Disarmed(entry[id])
      armed == entry[id].commandExit = "COMMAND_EXIT_ARMED"
  IN ResetDetector(IF entry[id].watch.running /\ ~Claimed(id, "commandFinished")
                   THEN RingFinished(id, e, armed, ranLong) ELSE e)

\* commandFinish, or the prompt that means the same.
CommandFinish(id, ranLong) ==
  /\ Reported(id)
  /\ Put(id, Finished(id, ranLong))
  /\ Settle(IF entry[id].watch.running THEN Parked(id) ELSE {}, "exit")
  /\ UNCHANGED <<attentionId, settings>>
  /\ Publish(IF entry[id].watch.running THEN {id} ELSE {})

\* onExit: who is still parked after the finish waits on a dead Session.
Exit(id, ranLong) ==
  /\ id \in live \ helpers
  /\ Put(id, Finished(id, ranLong))
  /\ Settle(Parked(id), IF entry[id].watch.running THEN "exit" ELSE "died")
  /\ UNCHANGED <<removed, attentionId, settings>>
  /\ Publish(IF entry[id].watch.running \/ Parked(id) # {} THEN {id} ELSE {})

-----------------------------------------------------------------------------
(* What the user and the host do.                                          *)

\* setAttention, and the rings of id it clears.
Attended_NotSeen(e) ==
  LET c == ClearAllRings(e)
  IN IF Ringing(e) THEN [c EXCEPT !.dismissed = TRUE, !.todo = TRUE] ELSE c
Attended(e) ==
  LET c == ClearAllRings(e)
      seen == [c EXCEPT !.watch = IF @.running THEN [@ EXCEPT !.seen = TRUE] ELSE @,
                        !.commandExit = IF c.watch.running /\ @ = "COMMAND_EXIT_ARMED" THEN "IDLE" ELSE @]
  IN IF Ringing(e) THEN [seen EXCEPT !.dismissed = TRUE, !.todo = TRUE] ELSE seen
Attend(id) ==
  /\ id \notin helpers
  /\ NobodySettles
  /\ UNCHANGED <<removed, settings>>
  /\ LET left == {prev \in Sessions : attentionId = prev /\ prev # id /\ ArmsOnLoss(prev)} IN
     /\ live' = live \cup {id}
     /\ entry' = [s \in Sessions |->
          IF s = id THEN Attended(entry[s]) ELSE IF s \in left THEN Armed(entry[s]) ELSE entry[s]]
     /\ attentionId' = id
     /\ Publish({id} \cup left)

\* The attention timer, or clearAttention.
LoseAttention ==
  /\ attentionId # None
  /\ attentionId' = None
  /\ NobodySettles
  /\ UNCHANGED <<live, removed, settings>>
  /\ LET left == {prev \in Sessions : attentionId = prev /\ ArmsOnLoss(prev)} IN
     /\ entry' = [s \in Sessions |-> IF s \in left THEN Armed(entry[s]) ELSE entry[s]]
     /\ Publish(left)

DismissAlert(id) ==
  /\ id \in live
  /\ NobodySettles
  /\ UNCHANGED <<removed, attentionId, settings>>
  /\ LET e == entry[id] IN
     /\ Put(id, [ClearAllRings(e) EXCEPT !.todo = @ \/ Ringing(e), !.dismissed = FALSE])
     /\ Publish(IF Ringing(e) \/ e.dismissed THEN {id} ELSE {})

\* toggleTodo, markTodo and clearTodo.
SetTodo(id, todo) ==
  /\ id \notin helpers
  /\ Put(id, [ClearAllRings(entry[id]) EXCEPT !.todo = todo, !.notification = IF todo THEN @ ELSE None])
  /\ NobodySettles
  /\ UNCHANGED <<removed, attentionId, settings>>
ToggleTodo(id) == SetTodo(id, ~entry[id].todo) /\ Publish({id})
MarkTodo(id) ==
  /\ SetTodo(id, TRUE)
  /\ Publish(IF entry[id].todo /\ ~Ringing(entry[id]) THEN {} ELSE {id})
ClearTodo(id) == SetTodo(id, FALSE) /\ Publish({id})

SetWatchedCommands(names) ==
  /\ names # watched
  /\ watched' = names
  /\ entry' = [s \in Sessions |->
       IF s \in live /\ entry[s].ringCommand \notin names \cup {None}
       THEN [entry[s] EXCEPT !.ringCommand = None, !.outputSinceRing = FALSE] ELSE entry[s]]
  /\ NobodySettles
  /\ UNCHANGED <<live, removed, attentionId, helpers, deferring>>
  /\ Publish(live)

SetDeferAlertsUntilQuiet(on) ==
  /\ on # deferring
  /\ deferring' = on
  /\ entry' = [s \in Sessions |-> IF s \in live /\ ~on THEN Flush(s, entry[s]) ELSE entry[s]]
  /\ NobodySettles
  /\ UNCHANGED <<live, removed, attentionId, helpers, watched>>
  /\ Publish({s \in live : ~on /\ entry[s].deferred})

SetHelper(id, helper) ==
  /\ helper # (id \in helpers)
  /\ helpers' = IF helper THEN helpers \cup {id} ELSE helpers \ {id}
  /\ NobodySettles
  /\ UNCHANGED <<live, entry, removed, attentionId, watched, deferring, published>>

\* The PTY is destroyed.
Remove(id) ==
  /\ helpers' = helpers \ {id}
  /\ removed' = removed \cup {id}
  /\ Settle(Parked(id), "died")
  /\ live' = live \ {id} /\ entry' = [entry EXCEPT ![id] = NewEntry]
  /\ attentionId' = IF id \in live /\ HasAttention(id) THEN None ELSE attentionId
  /\ UNCHANGED <<watched, deferring>>
  /\ Publish(live \cap {id})

\* A persisted Session comes back with its reminder and nothing else.
Seed(id, todo, notification) ==
  /\ id \notin helpers
  /\ notification # None => todo
  /\ Put(id, [NewEntry EXCEPT !.detector = Reset(entry[id].detector), !.ringSeq = entry[id].ringSeq,
                              !.dismissed = entry[id].dismissed,
                              !.todo = todo, !.notification = notification])
  /\ NobodySettles
  /\ UNCHANGED <<removed, attentionId, settings>>
  /\ Publish({id})

-----------------------------------------------------------------------------
(* Awaits.                                                                 *)

\* consumeAwaitableRing: the ring an await arriving now resolves on.
ExitAnswers(e) == ~e.watch.running /\ e.commandExit = "ALERT_RINGING"
AwaitableRing(e, until) ==
  CASE until = "quiet" /\ e.protocol = "ALERT_RINGING" -> "bell"
    [] ~(until = "quiet" /\ e.protocol = "ALERT_RINGING") /\ ExitAnswers(e) -> "exit"
    [] OTHER -> IF until = "quiet" /\ e.ringCommand # None /\ ~e.outputSinceRing THEN "quiet" ELSE None
Consumed(e, cause) ==
  CASE cause = "bell" -> ReleaseProtocol(e)
    [] cause = "exit" -> ReleaseCommandExit(e)
    [] cause = "quiet" -> ReleaseWatching(e)

\* awaitCompletion, by whether the Session can be awaited, answers at once or
\* has to be waited for.
Idle(w) == wait[w] = Free
Awaitable_Removed(id) == id \notin helpers
Awaitable(id) == id \notin helpers \cup removed
Answer(w, outcome) == wait' = wait /\ answered' = [v \in Waiters |-> IF v = w THEN outcome ELSE None]

AwaitRefused(w, id) ==
  /\ Idle(w) /\ ~Awaitable(id)
  /\ Answer(w, IF id \in helpers THEN "cancelled" ELSE "died")
  /\ UNCHANGED <<live, entry, removed, attentionId, settings, published>>

AwaitAnswered(w, id, until) ==
  /\ Idle(w) /\ Awaitable(id)
  /\ LET cause == AwaitableRing(entry[id], until) IN
     /\ cause # None
     /\ Put(id, Consumed(entry[id], cause))
     /\ Answer(w, cause)
  /\ UNCHANGED <<removed, attentionId, settings>>
  /\ Publish({id})

ParkedAwait(id, until) == [id |-> id, until |-> until, grace |-> ~entry[id].watch.running]
AwaitParks(w, id, until) ==
  /\ Idle(w) /\ Awaitable(id)
  /\ AwaitableRing(entry[id], until) = None
  /\ Put(id, entry[id])
  /\ wait' = [wait EXCEPT ![w] = ParkedAwait(id, until)]
  /\ answered' = [v \in Waiters |-> None]
  /\ UNCHANGED <<removed, attentionId, settings>>
  /\ Publish({id})

\* The grace window, the ceiling, or the caller's cancel.
AwaitEnds(w, outcome) ==
  /\ ~Idle(w)
  /\ outcome = "idle" => wait[w].grace
  /\ Settle({w}, outcome)
  /\ UNCHANGED <<live, entry, removed, attentionId, settings>>
  /\ Publish({wait[w].id})

\* dispose: whoever is parked is told; attentionId and the rules are left.
Dispose ==
  /\ disposed' = TRUE
  /\ Settle({w \in Waiters : ~Idle(w)}, "cancelled")
  /\ live' = {} /\ entry' = [id \in Sessions |-> NewEntry]
  /\ removed' = {} /\ helpers' = {}
  /\ published' = [id \in Sessions |-> Unheard]
  /\ UNCHANGED <<attentionId, watched, deferring>>

-----------------------------------------------------------------------------
AnyData == \E id \in Sessions, d \in Detector : Data(id, d)

TerminalEvent ==
  \/ AnyData
  \/ \E id \in Sessions :
       \/ Resize(id) \/ Notification(id) \/ EmptyReport(id)
       \/ ProgressActive(id) \/ ProgressEnds(id) \/ CommandLine(id)
       \/ \E argv0 \in Commands \cup {None} : CommandStart(id, argv0)
       \/ \E ranLong \in BOOLEAN : CommandFinish(id, ranLong) \/ Exit(id, ranLong)

TimerEvent ==
  \/ \E id \in Sessions :
       \/ \E d \in Detector : DetectorTimer(id, d)
       \/ DetectorSettles(id) \/ DeferredTimer(id)
  \/ LoseAttention
  \/ \E w \in Waiters, outcome \in {"idle", "timeout", "cancelled"} : AwaitEnds(w, outcome)

UserEvent ==
  \/ \E id \in Sessions :
       \/ Attend(id) \/ DismissAlert(id) \/ ToggleTodo(id) \/ MarkTodo(id) \/ ClearTodo(id)
  \/ \E names \in SUBSET Commands : SetWatchedCommands(names)
  \/ \E on \in BOOLEAN : SetDeferAlertsUntilQuiet(on)

HostEvent ==
  \/ \E id \in MayBeHelper, helper \in BOOLEAN : SetHelper(id, helper)
  \/ \E id \in Sessions : Remove(id)
  \/ \E id \in Sessions, todo \in BOOLEAN, n \in {None, "protocol", "COMMAND_EXIT"} : Seed(id, todo, n)

AwaitEvent ==
  \E w \in Waiters, id \in Sessions :
    \/ AwaitRefused(w, id)
    \/ \E until \in Until : AwaitAnswered(w, id, until) \/ AwaitParks(w, id, until)

Next ==
  /\ ~disposed
  /\ \/ (TerminalEvent \/ TimerEvent \/ UserEvent \/ HostEvent \/ AwaitEvent) /\ UNCHANGED disposed
     \/ Dispose

Spec == Init /\ [][Next]_vars

\* The event loop runs due timers.  The quiet deadline is a point in time, so
\* the detector's other timers do not put it off for ever.
QuietTimer(id) ==
  DetectorTimer(id, [entry[id].detector EXCEPT !.quiet = TRUE])
ActivityTimer(id) ==
  \E d \in {Reset(entry[id].detector), [entry[id].detector EXCEPT !.status = "MIGHT_NEED_ATTENTION"]} :
    DetectorTimer(id, d)
Fairness ==
  \A id \in Sessions :
    /\ SF_vars(~disposed /\ QuietTimer(id) /\ UNCHANGED disposed)
    /\ WF_vars(~disposed /\ ActivityTimer(id) /\ UNCHANGED disposed)
    /\ WF_vars(~disposed /\ DeferredTimer(id) /\ UNCHANGED disposed)
FairSpec == Spec /\ Fairness

-----------------------------------------------------------------------------
(* Properties.                                                             *)

\* Nothing rings, and nothing waits to ring, on the Session the user is
\* looking at; it is not armed either (dispatchCompletion, attend,
\* flushDeferredNotification, armCommandExitOnAttentionLoss).
AttendedIsQuiet ==
  \A id \in Sessions : attentionId = id /\ ~disposed =>
    id \in live /\ ~Ringing(entry[id]) /\ ~entry[id].deferred /\ entry[id].commandExit = "IDLE"

\* A report or an exit that rang leaves a TODO that outlives the ring, and
\* notification text is never shown without one (applyProtocolRinging,
\* applyCommandExitRinging, toggleTodo, clearTodo, seed).
RingKeepsTodo ==
  \A id \in Sessions :
    LET e == entry[id] IN
    "ALERT_RINGING" \in {e.protocol, e.commandExit} \/ e.notification # None => e.todo

\* The text of a protocol ring is richer and no other track overwrites it while
\* it rings (applyCommandExitRinging, releaseRing).
ProtocolTextWins ==
  \A id \in Sessions :
    entry[id].protocol = "ALERT_RINGING" => entry[id].notification = "protocol"

\* Only a command that is still running and was seen while attended is armed,
\* so an exit cannot ring for a command nobody watched start or for its
\* predecessor (armCommandExitOnAttentionLoss, finishCommandExitWatch, seed).
ArmedHasWatch ==
  \A id \in Sessions :
    entry[id].commandExit = "COMMAND_EXIT_ARMED" => entry[id].watch.running /\ entry[id].watch.seen

\* Whoever loses attention with a command still running is armed from then on,
\* however attention was lost and wherever it went (setAttention, its timer,
\* clearAttention, markCommandExitSeen).
LosingAttentionArms ==
  [][\A id \in live \cap live' :
       attentionId = id /\ attentionId' # id /\ entry[id].watch.running =>
         entry'[id].commandExit = "COMMAND_EXIT_ARMED"]_vars

\* The progress track is busy exactly while it has progress to report
\* (updateProtocolProgress, finishProtocolProgressCycle, applyProtocolRinging).
ProgressAgrees ==
  \A id \in Sessions : entry[id].progress <=> entry[id].protocol = "OSC_NOTIF_BUSY"

\* A notification held behind animation never outlives the moment any track
\* rings: its timer would overwrite newer detail (deferOrDeliverNotification,
\* onSettled, the commandFinished rule).
RingSupersedesDeferral ==
  \A id \in Sessions : Ringing(entry[id]) => ~entry[id].deferred

\* After every step the listeners know each Session's current state: no
\* handler changes what is visible and forgets notify.
PublishedIsCurrent ==
  \A id \in Sessions :
    \/ published[id] = State(id)
    \/ published[id] = Unheard /\ State(id) = DefaultState

\* An await is parked only on a live Session that still has a PTY, so its
\* waiter is told when that goes away (awaitCompletion, remove, dispose).
NobodyWaitsOnTheDead ==
  \A w \in Waiters : ~Idle(w) => wait[w].id \in live \ removed /\ ~disposed

\* What every handler has to leave behind of the tracks, the TODO, the held
\* notification and the waiters, which six controls and four timers clear in
\* any order (dispatchCompletion, attend, latchRing, remove).
AlarmsAreSound ==
  TypeOK /\ AttendedIsQuiet /\ RingKeepsTodo /\ RingSupersedesDeferral /\ NobodyWaitsOnTheDead

\* What an await answers is so: exit only for a command that ended (never the
\* ring of a previous one), idle only with no command running, and an exit
\* await on nothing but an exit.
AwaitIsHonest ==
  [][\A w \in Waiters :
       LET id == wait[w].id IN
       IF Idle(w)
       THEN answered'[w] = "exit" =>
              \E s \in live : ~entry[s].watch.running /\ entry[s].commandExit = "ALERT_RINGING"
                              /\ entry'[s].commandExit = "IDLE"
       ELSE /\ answered'[w] = "exit" => entry[id].watch.running /\ ~entry'[id].watch.running
            /\ answered'[w] = "idle" => ~entry[id].watch.running
            /\ answered'[w] \in {"quiet", "bell"} => wait[w].until = "quiet"]_vars

\* A completion an await takes never rings and leaves the user's channel as it
\* was (dispatchCompletion, awaitCompletion); only an earlier one that had been
\* held comes out with a claimed settle.
ClaimedNeverRings ==
  [][\A w \in Waiters, id \in Sessions :
       answered'[w] \in {"quiet", "exit", "bell"}
       /\ (wait[w].id = id \/ Idle(w))
       /\ ~(answered'[w] = "quiet" /\ entry[id].deferred) =>
         /\ entry'[id].ringSeq = entry[id].ringSeq
         /\ entry'[id].todo = entry[id].todo
         /\ entry'[id].notification = entry[id].notification]_vars

\* The counter the bell animation watches advances exactly when a track that
\* was not ringing latches (latchRing).
Latched(id) ==
  \/ entry[id].protocol # "ALERT_RINGING" /\ entry'[id].protocol = "ALERT_RINGING"
  \/ entry[id].commandExit # "ALERT_RINGING" /\ entry'[id].commandExit = "ALERT_RINGING"
  \/ entry[id].ringCommand = None /\ entry'[id].ringCommand # None
SeqCountsLatches ==
  [][\A id \in live \cap live' : Latched(id) <=> entry'[id].ringSeq # entry[id].ringSeq]_vars

\* What the terminal reports, a timer or an await's end adds to what the user
\* has not seen and takes nothing of it away: not a TODO, not the text, not a
\* ring of any track, in whatever order commands finish and start, notifications
\* are held and flushed, and attention runs out.  One report breaks in: progress
\* overwrites a protocol ring, and then its text and TODO stay
\* (dispatchCompletion, finishCommandExitWatch, updateProtocolProgress).
Outlasts(e, f) ==
  /\ e.todo => f.todo
  /\ e.notification # None => f.notification # None
  /\ e.protocol = "ALERT_RINGING" => f.notification = "protocol" /\ (f.protocol = "ALERT_RINGING" \/ f.progress)
  /\ e.commandExit = "ALERT_RINGING" => f.commandExit = "ALERT_RINGING"
  /\ e.ringCommand # None => f.ringCommand # None
RingsOutliveReports ==
  [][\A id \in Sessions :
       Outlasts(entry[id], entry'[id]) \/ ~(TerminalEvent \/ TimerEvent)]_vars

\* News held behind animation is not lost when a command boundary resets the
\* detector: once output stops for good it is delivered or superseded
\* (scheduleDeferredNotification).
DeferralEnds ==
  \A id \in Sessions : []<><<AnyData>>_vars \/ []<>(~entry[id].deferred)

\* docs/specs/alert.md:9 of the terminal-report track: it latches its own ring
\* until cleared.  Only the user, an await, a restore or the end of the
\* Session clears it, never a further report.
RingLatchedUntilCleared ==
  [][\A id \in Sessions :
       entry[id].protocol = "ALERT_RINGING" /\ TerminalEvent => entry'[id].protocol = "ALERT_RINGING"]_vars
=============================================================================
