------------------------ MODULE AlertManager_proofs ------------------------
(***************************************************************************)
(* Proofs about AlertManager, for any Sessions, programs and awaits.       *)
(*                                                                         *)
(* The invariant speaks of one entry at a time (SoundEntry), so the first  *)
(* part proves one lemma per operator on entries: a sound entry stays      *)
(* sound, and a quiet one stays quiet while attended.  The second part     *)
(* proves once what it takes for a step to keep the invariant; every       *)
(* action is then an application of that lemma.  The last part is about    *)
(* the detector, which implements the rules the AlertManager runs.         *)
(***************************************************************************)
EXTENDS MCAlerts, Integers, TLAPS

USE NoneAssumption, BaseAssumption

-----------------------------------------------------------------------------
(* Entries.                                                                *)

Held(e) ==
  /\ "ALERT_RINGING" \in {e.protocol, e.commandExit} \/ e.notification # None => e.todo
  /\ e.protocol = "ALERT_RINGING" => e.notification = "protocol"
  /\ e.commandExit = "COMMAND_EXIT_ARMED" => e.watch.running /\ e.watch.seen
  /\ e.progress <=> e.protocol = "OSC_NOTIF_BUSY"
SoundEntry(e) == Held(e) /\ (Ringing(e) => ~e.deferred)
QuietEntry(e) == ~Ringing(e) /\ ~e.deferred /\ e.commandExit = "IDLE"

\* The fields of a command watch.
LEMMA WatchFields ==
  ASSUME NEW w \in Watch
  PROVE  w.argv0 \in Commands \cup {None} /\ w.seen \in BOOLEAN /\ w.running \in BOOLEAN
<1>1. CASE w = NoWatch
  BY <1>1 DEF NoWatch
<1>2. CASE w \in [argv0 : Commands \cup {None}, seen : BOOLEAN, running : {TRUE}]
  BY <1>2
<1> QED BY <1>1, <1>2 DEF Watch

\* A new entry is sound and quiet (getOrCreateEntry).
LEMMA NewEntryIsSound ==
  NewEntry \in Entry /\ SoundEntry(NewEntry) /\ QuietEntry(NewEntry)
BY DEF NewEntry, Entry, SoundEntry, QuietEntry, Held, Ringing, NoWatch, Watch, NewDetector, Detector, QuiesceStatus

\* Resetting the detector touches nothing an alarm depends on (reset).
LEMMA ResetIsSound ==
  ASSUME NEW e \in Entry
  PROVE  /\ ResetDetector(e) \in Entry
         /\ SoundEntry(e) => SoundEntry(ResetDetector(e))
         /\ QuietEntry(e) => QuietEntry(ResetDetector(e))
<1>1. e.detector \in Detector
  BY DEF Entry
<1>2. PICK d \in Detector : d = Reset(e.detector)
  BY <1>1 DEF Reset, Detector, QuiesceStatus
<1>3. ResetDetector(e) = [e EXCEPT !.detector = d]
  BY <1>2 DEF ResetDetector
<1>4. ResetDetector(e) \in Entry
  BY <1>3 DEF Entry
<1>5. /\ ResetDetector(e).protocol = e.protocol /\ ResetDetector(e).commandExit = e.commandExit
      /\ ResetDetector(e).ringCommand = e.ringCommand /\ ResetDetector(e).deferred = e.deferred
      /\ ResetDetector(e).notification = e.notification /\ ResetDetector(e).watch = e.watch
      /\ ResetDetector(e).todo = e.todo /\ ResetDetector(e).progress = e.progress
  BY <1>3 DEF Entry
<1>6. SoundEntry(e) => SoundEntry(ResetDetector(e))
  BY <1>5 DEF SoundEntry, Held, Ringing
<1>7. QuietEntry(e) => QuietEntry(ResetDetector(e))
  BY <1>5 DEF QuietEntry, Ringing
<1> QED BY <1>4, <1>6, <1>7

\* Counting a latch changes the counter only (latchRing).
LEMMA LatchIsSound ==
  ASSUME NEW e \in Entry, NEW wasRinging \in BOOLEAN
  PROVE  /\ LatchRing(e, wasRinging) \in Entry
         /\ \A f \in (DOMAIN e) \ {"ringSeq"} : LatchRing(e, wasRinging)[f] = e[f]
<1>1. (e.ringSeq + 1) % RingSeqBase \in 0 .. RingSeqBase - 1
  BY DEF Entry
<1> QED BY <1>1 DEF LatchRing, Entry

\* The three ways a track rings (latchRing and the ring rules).
LEMMA ProtocolRingIsSound ==
  ASSUME NEW e \in Entry, Held(e)
  PROVE  /\ ApplyProtocolRinging(e) \in Entry
         /\ Held(ApplyProtocolRinging(e))
         /\ ApplyProtocolRinging(e).deferred = e.deferred
<1>1. PICK f \in Entry : f = LatchRing(e, e.protocol = "ALERT_RINGING")
  BY LatchIsSound
<1>2. /\ f.protocol = e.protocol /\ f.commandExit = e.commandExit /\ f.notification = e.notification
      /\ f.watch = e.watch /\ f.progress = e.progress /\ f.deferred = e.deferred
  BY <1>1 DEF LatchRing, Entry
<1>3. ApplyProtocolRinging(e) = [f EXCEPT !.notification = "protocol", !.todo = TRUE, !.protocol = "ALERT_RINGING", !.progress = FALSE]
  BY <1>1 DEF ApplyProtocolRinging, Entry
<1>4. ApplyProtocolRinging(e) \in Entry
  BY <1>3 DEF Entry
<1>5. Held(ApplyProtocolRinging(e)) /\ ApplyProtocolRinging(e).deferred = e.deferred
  BY <1>2, <1>3 DEF Entry, Held
<1> QED BY <1>4, <1>5

\* The same for a finished command (applyCommandExitRinging).
LEMMA CommandExitRingIsSound ==
  ASSUME NEW e \in Entry, Held(e)
  PROVE  /\ ApplyCommandExitRinging(e) \in Entry
         /\ Held(ApplyCommandExitRinging(e))
         /\ ApplyCommandExitRinging(e).deferred = e.deferred
<1>1. PICK f \in Entry : f = LatchRing(e, e.commandExit = "ALERT_RINGING")
  BY LatchIsSound
<1>2. /\ f.protocol = e.protocol /\ f.commandExit = e.commandExit /\ f.notification = e.notification
      /\ f.watch = e.watch /\ f.progress = e.progress /\ f.deferred = e.deferred
  BY <1>1 DEF LatchRing, Entry
<1>3. ApplyCommandExitRinging(e) = [f EXCEPT !.commandExit = "ALERT_RINGING", !.todo = TRUE,
                                                !.notification = IF e.protocol = "ALERT_RINGING" THEN f.notification
                                                                 ELSE "COMMAND_EXIT"]
  BY <1>1 DEF ApplyCommandExitRinging, Entry
<1>4. ApplyCommandExitRinging(e) \in Entry
  BY <1>3 DEF Entry
<1>5. Held(ApplyCommandExitRinging(e)) /\ ApplyCommandExitRinging(e).deferred = e.deferred
  BY <1>2, <1>3 DEF Entry, Held
<1> QED BY <1>4, <1>5

\* Clearing every ring leaves none, nor a delivery to come
\* (clearAllRingsIfActive).
LEMMA ClearIsSound ==
  ASSUME NEW e \in Entry, Held(e)
  PROVE  /\ ClearAllRings(e) \in Entry
         /\ Held(ClearAllRings(e)) /\ ~Ringing(ClearAllRings(e)) /\ ~ClearAllRings(e).deferred
         /\ ClearAllRings(e).commandExit \in {e.commandExit, "IDLE"}
         /\ ClearAllRings(e).watch = e.watch
<1> DEFINE e1 == IF e.protocol = "ALERT_RINGING" THEN ReleaseProtocol(e) ELSE e
           e2 == IF e.commandExit = "ALERT_RINGING" THEN ReleaseCommandExit(e1) ELSE e1
           e3 == IF e.ringCommand # None THEN ReleaseWatching(e2) ELSE e2
<1>1. /\ e1 \in Entry /\ Held(e1) /\ e1.protocol # "ALERT_RINGING"
      /\ e1.commandExit = e.commandExit /\ e1.watch = e.watch /\ e1.ringCommand = e.ringCommand
  <2>1. CASE e.protocol # "ALERT_RINGING"
    BY <2>1
  <2>2. CASE e.protocol = "ALERT_RINGING"
    <3>1. e1 = ReleaseProtocol(e)
      BY <2>2
    <3> HIDE DEF e1
    <3>2. e1 \in Entry
      BY <3>1 DEF ReleaseProtocol, Entry
    <3>3. Held(e1) /\ e1.protocol # "ALERT_RINGING"
      BY <2>2, <3>1 DEF ReleaseProtocol, Entry, Held
    <3>4. e1.commandExit = e.commandExit /\ e1.watch = e.watch /\ e1.ringCommand = e.ringCommand
      BY <3>1 DEF ReleaseProtocol, Entry
    <3> QED BY <3>2, <3>3, <3>4
  <2> QED BY <2>1, <2>2
<1>2. /\ e2 \in Entry /\ Held(e2) /\ e2.protocol # "ALERT_RINGING" /\ e2.commandExit # "ALERT_RINGING"
      /\ e2.commandExit \in {e.commandExit, "IDLE"} /\ e2.watch = e.watch /\ e2.ringCommand = e.ringCommand
  <2> HIDE DEF e1
  <2> QED BY <1>1 DEF ReleaseCommandExit, Entry, Held
<1>3. /\ e3 \in Entry /\ Held(e3) /\ ~Ringing(e3)
      /\ e3.commandExit \in {e.commandExit, "IDLE"} /\ e3.watch = e.watch
  <2> HIDE DEF e2
  <2>1. e2.detector \in Detector
    BY <1>2 DEF Entry
  <2>2. Reset(e2.detector) \in Detector
    BY <2>1 DEF Reset, Detector, QuiesceStatus
  <2>3. CASE e.ringCommand = None
    BY <1>2, <2>3 DEF Ringing
  <2>4. CASE e.ringCommand # None
    <3> HIDE DEF e3
    <3>1. e3 = [e2 EXCEPT !.ringCommand = None, !.outputSinceRing = FALSE, !.detector = Reset(e2.detector)]
      BY <1>2, <2>4 DEF e3, ReleaseWatching, ResetDetector, Entry
    <3> QED BY <1>2, <2>2, <3>1 DEF Entry, Held, Ringing
  <2> QED BY <2>3, <2>4
<1>4. ClearAllRings(e) = [e3 EXCEPT !.deferred = FALSE]
  BY DEF ClearAllRings
<1> HIDE DEF e3
<1>5. /\ ClearAllRings(e).protocol = e3.protocol /\ ClearAllRings(e).commandExit = e3.commandExit
      /\ ClearAllRings(e).ringCommand = e3.ringCommand /\ ClearAllRings(e).notification = e3.notification
      /\ ClearAllRings(e).todo = e3.todo /\ ClearAllRings(e).progress = e3.progress
      /\ ClearAllRings(e).watch = e3.watch /\ ~ClearAllRings(e).deferred
  BY <1>3, <1>4 DEF Entry
<1>6. ClearAllRings(e) \in Entry
  BY <1>3, <1>4 DEF Entry
<1> QED BY <1>3, <1>5, <1>6 DEF Held, Ringing

\* Releasing one track's ring (releaseRing, consumeAwaitableRing).
LEMMA ConsumeIsSound ==
  ASSUME NEW e \in Entry, NEW until \in Until, AwaitableRing(e, until) # None, SoundEntry(e)
  PROVE  /\ Consumed(e, AwaitableRing(e, until)) \in Entry
         /\ SoundEntry(Consumed(e, AwaitableRing(e, until)))
         /\ Ringing(e)
<1> DEFINE cause == AwaitableRing(e, until)
<1>1. cause \in {"bell", "exit", "quiet"} /\ Ringing(e)
  BY DEF AwaitableRing, ExitAnswers, Ringing
<1>2. CASE cause = "bell"
  BY <1>1, <1>2 DEF Consumed, ReleaseProtocol, AwaitableRing, Entry, SoundEntry, Held, Ringing
<1>3. CASE cause = "exit"
  BY <1>1, <1>3 DEF Consumed, ReleaseCommandExit, Entry, SoundEntry, Held, Ringing
<1>4. CASE cause = "quiet"
  BY <1>1, <1>4 DEF Consumed, ReleaseWatching, ResetDetector, Reset, Entry, Detector, QuiesceStatus,
                    SoundEntry, Held, Ringing
<1> QED BY <1>1, <1>2, <1>3, <1>4

\* Delivering or dropping what was held restores what a ring alone may break
\* (flushDeferredNotification).
LEMMA FlushIsSound ==
  ASSUME NEW id, NEW e \in Entry, Held(e)
  PROVE  /\ Flush(id, e) \in Entry /\ SoundEntry(Flush(id, e))
         /\ QuietEntry(e) => QuietEntry(Flush(id, e))
<1> DEFINE f == [e EXCEPT !.deferred = FALSE]
<1>1. f \in Entry /\ Held(f) /\ ~f.deferred /\ (QuietEntry(e) => QuietEntry(f))
  BY DEF Entry, Held, QuietEntry, Ringing
<1>2. ApplyProtocolRinging(f) \in Entry /\ Held(ApplyProtocolRinging(f)) /\ ~ApplyProtocolRinging(f).deferred
  BY <1>1, ProtocolRingIsSound
<1>3. Flush(id, e) \in {f, ApplyProtocolRinging(f)} /\ (QuietEntry(e) => Flush(id, e) = f)
  BY DEF Flush, QuietEntry
<1> HIDE DEF f
<1> QED BY <1>1, <1>2, <1>3 DEF SoundEntry

\* The rule for a settle; an attended Session does not ring (dispatchCompletion).
LEMMA SettledIsSound ==
  ASSUME NEW id, NEW e \in Entry, SoundEntry(e)
  PROVE  /\ RingSettled(id, e) \in Entry /\ Held(RingSettled(id, e))
         /\ HasAttention(id) => RingSettled(id, e) = e
<1>1. (e.ringSeq + 1) % RingSeqBase \in 0 .. RingSeqBase - 1
  BY DEF Entry
<1>2. e.watch.argv0 \in Commands \cup {None}
  BY WatchFields DEF Entry
<1>3. CASE IsWatching(e) /\ ~HasAttention(id)
  <2>1. PICK q \in 0 .. RingSeqBase - 1 :
          LatchRing(e, e.ringCommand # None) = [e EXCEPT !.ringSeq = q]
    BY <1>1 DEF LatchRing, Entry
  <2>2. RingSettled(id, e) = [e EXCEPT !.ringSeq = q, !.ringCommand = e.watch.argv0, !.outputSinceRing = FALSE]
    BY <1>3, <2>1 DEF RingSettled, Entry
  <2>3. RingSettled(id, e) \in Entry
    BY <1>2, <2>2 DEF Entry
  <2>4. /\ RingSettled(id, e).protocol = e.protocol /\ RingSettled(id, e).commandExit = e.commandExit
        /\ RingSettled(id, e).notification = e.notification /\ RingSettled(id, e).watch = e.watch
        /\ RingSettled(id, e).todo = e.todo /\ RingSettled(id, e).progress = e.progress
    BY <2>2 DEF Entry
  <2>5. Held(RingSettled(id, e))
    BY <2>4 DEF Held, SoundEntry
  <2> QED BY <1>3, <2>3, <2>5
<1>4. CASE ~(IsWatching(e) /\ ~HasAttention(id))
  BY <1>4 DEF RingSettled, SoundEntry
<1> QED BY <1>3, <1>4 DEF RingSettled

\* The rule for a finished command.
LEMMA FinishedIsSound ==
  ASSUME NEW id, NEW e \in Entry, SoundEntry(e), NEW armed, NEW ranLong
  PROVE  /\ RingFinished(id, e, armed, ranLong) \in Entry /\ SoundEntry(RingFinished(id, e, armed, ranLong))
         /\ HasAttention(id) => RingFinished(id, e, armed, ranLong) = e
<1>1. Held(e)
  BY DEF SoundEntry
<1>2. ApplyCommandExitRinging(e) \in Entry /\ Held(ApplyCommandExitRinging(e))
  BY <1>1, CommandExitRingIsSound
<1>3. /\ Flush(id, ApplyCommandExitRinging(e)) \in Entry
      /\ SoundEntry(Flush(id, ApplyCommandExitRinging(e)))
  BY <1>2, FlushIsSound
<1> QED BY <1>3 DEF RingFinished

\* The rule for a notification.
LEMMA NotifiedIsSound ==
  ASSUME NEW id, NEW e \in Entry, SoundEntry(e)
  PROVE  /\ RingNotified(id, e) \in Entry /\ SoundEntry(RingNotified(id, e))
         /\ HasAttention(id) => RingNotified(id, e) = e
<1> DEFINE f == [e EXCEPT !.deferred = FALSE]
           g == [e EXCEPT !.deferred = TRUE]
<1>1. f \in Entry /\ Held(f) /\ ~f.deferred
  BY DEF Entry, Held, SoundEntry
<1>2. ApplyProtocolRinging(f) \in Entry /\ Held(ApplyProtocolRinging(f)) /\ ~ApplyProtocolRinging(f).deferred
  BY <1>1, ProtocolRingIsSound
<1>3. g \in Entry /\ (~Ringing(e) => SoundEntry(g))
  BY DEF Entry, Held, SoundEntry, Ringing
<1>4. /\ RingNotified(id, e) \in {e, g, ApplyProtocolRinging(f)}
      /\ HasAttention(id) => RingNotified(id, e) = e
      /\ RingNotified(id, e) = g /\ g # e => ~Ringing(e)
  <2>1. CASE HasAttention(id)
    BY <2>1 DEF RingNotified
  <2>2. CASE ~HasAttention(id) /\ deferring /\ ~Ringing(e) /\ (e.deferred \/ ConfirmedBusy(e.detector))
    BY <2>2 DEF RingNotified
  <2>3. CASE ~HasAttention(id) /\ ~(deferring /\ ~Ringing(e) /\ (e.deferred \/ ConfirmedBusy(e.detector)))
    <3>1. RingNotified(id, e) = ApplyProtocolRinging(f)
      BY <2>3 DEF RingNotified
    <3>2. ~ApplyProtocolRinging(f).deferred /\ g.deferred
      BY <1>2 DEF Entry
    <3> QED BY <2>3, <3>1, <3>2
  <2> QED BY <2>1, <2>2, <2>3
<1> HIDE DEF f, g
<1> QED BY <1>2, <1>3, <1>4 DEF SoundEntry

-----------------------------------------------------------------------------
(* What a step has to do.                                                  *)

EntriesAreSound == \A id \in Sessions : SoundEntry(entry[id])
Inv == TypeOK /\ EntriesAreSound /\ AttendedIsQuiet /\ NobodyWaitsOnTheDead

\* What listeners are told is a state (getState, notify).
LEMMA StateTyped ==
  ASSUME NEW id, NEW e \in Entry, NEW names, NEW waits
  PROVE  StateOf(id, e, names, waits) \in AlertState
<1>1. e.detector.status \in QuiesceStatus
  BY DEF Entry, Detector
<1>2. StatusOf(e, names) \in SessionStatus
  BY <1>1 DEF StatusOf, SessionStatus
<1>3. WatchedBy(e, names) \in BOOLEAN
  BY DEF WatchedBy
<1> QED BY <1>2, <1>3 DEF StateOf, AlertState, Entry

\* What a handler publishes is what listeners can read (notify).
LEMMA PublishTyped ==
  ASSUME TypeOK, NEW S, Publish(S), entry' \in [Sessions -> Entry]
  PROVE  published' \in [Sessions -> AlertState \cup {Unheard}]
<1> SUFFICES ASSUME NEW id \in Sessions
             PROVE  (IF id \notin S THEN published[id]
                     ELSE IF id \in live' THEN StateOf(id, entry'[id], watched', wait')
                     ELSE IF published[id] \in {Unheard, DefaultState} THEN published[id] ELSE Unheard)
                    \in AlertState \cup {Unheard}
  BY DEF Publish
<1>1. StateOf(id, entry'[id], watched', wait') \in AlertState
  BY StateTyped
<1>2. published[id] \in AlertState \cup {Unheard}
  BY DEF TypeOK
<1> QED BY <1>1, <1>2

Published == published' = published \/ \E S : Publish(S)

\* The invariant from what a handler did to the entries, to attention and to
\* the parked awaits.
LEMMA StepKeeps ==
  ASSUME Inv, Published,
         live' \subseteq Sessions, removed' \subseteq Sessions, helpers' \subseteq MayBeHelper,
         attentionId' \in Sessions \cup {None}, watched' \subseteq Commands, deferring' \in BOOLEAN,
         wait' \in [Waiters -> Wait], answered' \in [Waiters -> Outcome \cup {None}],
         disposed' = FALSE,
         entry' \in [Sessions -> Entry], \A id \in Sessions : SoundEntry(entry'[id]),
         \A id \in Sessions : attentionId' = id => id \in live' /\ QuietEntry(entry'[id]),
         \A w \in Waiters : wait'[w] # Free => wait'[w].id \in live' \ removed'
  PROVE  Inv'
<1>1. published' \in [Sessions -> AlertState \cup {Unheard}]
  BY PublishTyped DEF Inv, Published, TypeOK
<1>2. TypeOK'
  BY <1>1 DEF TypeOK
<1>3. EntriesAreSound'
  BY DEF EntriesAreSound, SoundEntry, Held, Ringing
<1>4. AttendedIsQuiet'
  BY DEF AttendedIsQuiet, QuietEntry, Ringing
<1>5. NobodyWaitsOnTheDead'
  BY DEF NobodyWaitsOnTheDead, Idle
<1> QED BY <1>2, <1>3, <1>4, <1>5 DEF Inv

\* Awaits that were parked stay parked on the same Session or are settled.
WaitsKept ==
  /\ wait' \in [Waiters -> Wait] /\ answered' \in [Waiters -> Outcome \cup {None}]
  /\ \A w \in Waiters : wait'[w] # Free => wait[w] # Free /\ wait'[w].id = wait[w].id

\* Settling slots frees them and moves nobody (settleAwait).
LEMMA SettleKeepsWaits ==
  ASSUME TypeOK, NEW S, NEW outcome \in Outcome \cup {None}, Settle(S, outcome)
  PROVE  WaitsKept
BY DEF TypeOK, Settle, WaitsKept, Wait, Free

\* A handler that settles nobody.
LEMMA NobodyKeepsWaits == TypeOK /\ NobodySettles => WaitsKept
BY SettleKeepsWaits DEF NobodySettles

\* Ending a grace window leaves the await parked (onData, commandStart).
LEMMA EndGraceKeepsWaits ==
  ASSUME TypeOK, NEW id \in Sessions, NEW S \in SUBSET Parked(id), EndGrace(S)
  PROVE  WaitsKept
<1>1. \A x \in [id : Sessions, until : Until, grace : BOOLEAN] :
        /\ [x EXCEPT !.grace = FALSE] \in [id : Sessions, until : Until, grace : BOOLEAN]
        /\ [x EXCEPT !.grace = FALSE].id = x.id
  OBVIOUS
<1>2. \A w \in S : w \in Waiters /\ wait[w] # Free
  BY DEF Parked, Free
<1>3. \A w \in Waiters : wait[w] \in Wait
  BY DEF TypeOK
<1>4. \A w \in S : wait[w] \in [id : Sessions, until : Until, grace : BOOLEAN]
  BY <1>2, <1>3 DEF Wait
<1>5. \A w \in Waiters : wait'[w] = IF w \in S THEN [wait[w] EXCEPT !.grace = FALSE] ELSE wait[w]
  BY DEF EndGrace
<1>6. \A w \in Waiters : wait'[w] \in Wait
  BY <1>1, <1>3, <1>4, <1>5 DEF Wait
<1>7. wait' \in [Waiters -> Wait] /\ answered' \in [Waiters -> Outcome \cup {None}]
  BY <1>6 DEF EndGrace
<1>8. \A w \in Waiters : wait'[w] # Free => wait[w] # Free /\ wait'[w].id = wait[w].id
  BY <1>1, <1>2, <1>4, <1>5
<1> QED BY <1>7, <1>8 DEF WaitsKept

\* Most handlers: one entry, attention and settings untouched.
LEMMA PutKeeps ==
  ASSUME Inv, NEW id \in Sessions, NEW e \in Entry, SoundEntry(e), Put(id, e),
         attentionId = id => QuietEntry(e),
         removed' \subseteq removed, WaitsKept, Published,
         UNCHANGED <<attentionId, settings>>, disposed = FALSE, UNCHANGED disposed
  PROVE  Inv'
<1>1. entry' \in [Sessions -> Entry] /\ live' = live \cup {id} /\ live' \subseteq Sessions
  BY DEF Inv, TypeOK, Put
<1>2. \A s \in Sessions : entry'[s] = IF s = id THEN e ELSE entry[s]
  BY DEF Inv, TypeOK, Put
<1>3. \A s \in Sessions : SoundEntry(entry'[s])
  BY <1>2 DEF Inv, EntriesAreSound
<1>4. \A s \in Sessions : attentionId' = s => s \in live' /\ QuietEntry(entry'[s])
  <2>1. \A s \in Sessions : attentionId = s => s \in live /\ QuietEntry(entry[s])
    BY DEF Inv, AttendedIsQuiet, QuietEntry
  <2> QED BY <1>1, <1>2, <2>1
<1>5. \A w \in Waiters : wait'[w] # Free => wait'[w].id \in live' \ removed'
  BY <1>1 DEF WaitsKept, Inv, NobodyWaitsOnTheDead, Idle
<1>6. /\ removed' \subseteq Sessions /\ helpers' \subseteq MayBeHelper /\ watched' \subseteq Commands
      /\ deferring' \in BOOLEAN /\ attentionId' \in Sessions \cup {None}
  BY DEF Inv, TypeOK, settings
<1> QED BY <1>1, <1>3, <1>4, <1>5, <1>6, StepKeeps DEF WaitsKept

\* An entry the handlers start from.
LEMMA EntryFacts ==
  ASSUME Inv, disposed = FALSE, NEW id \in Sessions
  PROVE  /\ entry[id] \in Entry /\ SoundEntry(entry[id])
         /\ attentionId = id => id \in live /\ QuietEntry(entry[id])
BY DEF Inv, TypeOK, EntriesAreSound, AttendedIsQuiet, QuietEntry

-----------------------------------------------------------------------------
(* One lemma per action.                                                   *)

\* Output, and the timers of the detector.
LEMMA DataKeeps ==
  ASSUME Inv, disposed = FALSE, UNCHANGED disposed, NEW id \in Sessions, NEW d \in Detector, Data(id, d)
  PROVE  Inv'
<1> DEFINE e == [entry[id] EXCEPT !.detector = d, !.outputSinceRing = entry[id].ringCommand # None]
<1>1. entry[id] \in Entry /\ SoundEntry(entry[id]) /\ (attentionId = id => QuietEntry(entry[id]))
  BY EntryFacts
<1>2. e \in Entry /\ SoundEntry(e) /\ (attentionId = id => QuietEntry(e))
  BY <1>1 DEF Entry, SoundEntry, QuietEntry, Held, Ringing
<1>3. WaitsKept
  <2>1. {w \in Parked(id) : wait[w].until = "quiet"} \in SUBSET Parked(id)
    OBVIOUS
  <2> QED BY <2>1, EndGraceKeepsWaits DEF Data, Inv
<1>4. Put(id, e) /\ removed' \subseteq removed /\ Published /\ UNCHANGED <<attentionId, settings>>
  BY DEF Data, Stream, Published
<1> HIDE DEF e
<1> QED BY <1>2, <1>3, <1>4, PutKeeps

\* A timer of the detector changes no track (onChange).
LEMMA DetectorTimerKeeps ==
  ASSUME Inv, disposed = FALSE, UNCHANGED disposed, NEW id \in Sessions, NEW d \in Detector, DetectorTimer(id, d)
  PROVE  Inv'
<1> DEFINE e == [entry[id] EXCEPT !.detector = d]
<1>1. entry[id] \in Entry /\ SoundEntry(entry[id]) /\ (attentionId = id => QuietEntry(entry[id]))
  BY EntryFacts
<1>2. e \in Entry /\ SoundEntry(e) /\ (attentionId = id => QuietEntry(e))
  BY <1>1 DEF Entry, SoundEntry, QuietEntry, Held, Ringing
<1>3. WaitsKept
  BY NobodyKeepsWaits DEF DetectorTimer, Inv
<1>4. Put(id, e) /\ removed' \subseteq removed /\ Published /\ UNCHANGED <<attentionId, settings>>
  BY DEF DetectorTimer, Published
<1> HIDE DEF e
<1> QED BY <1>2, <1>3, <1>4, PutKeeps

\* Handlers that only make sure the entry exists.
LEMMA TouchKeeps ==
  ASSUME Inv, disposed = FALSE, UNCHANGED disposed, NEW id \in Sessions,
         Resize(id) \/ EmptyReport(id) \/ CommandLine(id)
  PROVE  Inv'
<1>1. entry[id] \in Entry /\ SoundEntry(entry[id]) /\ (attentionId = id => QuietEntry(entry[id]))
  BY EntryFacts
<1>2. WaitsKept
  BY NobodyKeepsWaits DEF Resize, EmptyReport, CommandLine, Inv
<1>3. Put(id, entry[id]) /\ removed' \subseteq removed /\ Published /\ UNCHANGED <<attentionId, settings>>
  BY DEF Resize, EmptyReport, CommandLine, Stream, Reported, Published
<1> QED BY <1>1, <1>2, <1>3, PutKeeps

\* The settle, first offered, then rung, then followed by what was held.
LEMMA SettlesKeeps ==
  ASSUME Inv, disposed = FALSE, UNCHANGED disposed, NEW id \in Sessions, DetectorSettles(id)
  PROVE  Inv'
<1> DEFINE e == IF Claimed(id, "settled") THEN entry[id] ELSE RingSettled(id, entry[id])
           f == Flush(id, e)
<1>1. entry[id] \in Entry /\ SoundEntry(entry[id]) /\ (attentionId = id => QuietEntry(entry[id]))
  BY EntryFacts
<1>2. e \in Entry /\ Held(e) /\ (attentionId = id => QuietEntry(e))
  BY <1>1, SettledIsSound DEF SoundEntry, HasAttention
<1>3. f \in Entry /\ SoundEntry(f) /\ (attentionId = id => QuietEntry(f))
  <2> HIDE DEF e
  <2> QED BY <1>2, FlushIsSound
<1>4. /\ ResetDetector(f) \in Entry /\ SoundEntry(ResetDetector(f))
      /\ attentionId = id => QuietEntry(ResetDetector(f))
  <2> HIDE DEF f
  <2> QED BY <1>3, ResetIsSound
<1>5. WaitsKept
  BY SettleKeepsWaits DEF DetectorSettles, Inv, Outcome
<1>6. /\ Put(id, ResetDetector(f)) /\ removed' \subseteq removed /\ Published
      /\ UNCHANGED <<attentionId, settings>>
  BY DEF DetectorSettles, Published
<1> HIDE DEF f
<1> QED BY <1>4, <1>5, <1>6, PutKeeps

\* The deferred delivery comes due (scheduleDeferredNotification).
LEMMA DeferredTimerKeeps ==
  ASSUME Inv, disposed = FALSE, UNCHANGED disposed, NEW id \in Sessions, DeferredTimer(id)
  PROVE  Inv'
<1>1. entry[id] \in Entry /\ SoundEntry(entry[id]) /\ (attentionId = id => QuietEntry(entry[id]))
  BY EntryFacts
<1>2. /\ Flush(id, entry[id]) \in Entry /\ SoundEntry(Flush(id, entry[id]))
      /\ attentionId = id => QuietEntry(Flush(id, entry[id]))
  BY <1>1, FlushIsSound DEF SoundEntry
<1>3. WaitsKept
  BY NobodyKeepsWaits DEF DeferredTimer, Inv
<1>4. /\ Put(id, Flush(id, entry[id])) /\ removed' \subseteq removed /\ Published
      /\ UNCHANGED <<attentionId, settings>>
  BY DEF DeferredTimer, Published
<1> QED BY <1>2, <1>3, <1>4, PutKeeps

\* Reports in the terminal's own protocol.
LEMMA DispatchKeeps ==
  ASSUME Inv, disposed = FALSE, UNCHANGED disposed, NEW id \in Sessions,
         NEW e \in Entry, SoundEntry(e), attentionId = id => QuietEntry(e),
         DispatchNotification(id, e), removed' \subseteq removed, UNCHANGED <<attentionId, settings>>
  PROVE  Inv'
<1> DEFINE f == IF Claimed(id, "notification") THEN e ELSE RingNotified(id, e)
<1>1. f \in Entry /\ SoundEntry(f) /\ (attentionId = id => QuietEntry(f))
  BY NotifiedIsSound DEF HasAttention
<1>2. WaitsKept
  BY SettleKeepsWaits DEF DispatchNotification, Inv, Outcome
<1>3. Put(id, f) /\ Published
  BY DEF DispatchNotification, Published
<1> HIDE DEF f
<1> QED BY <1>1, <1>2, <1>3, PutKeeps

\* The terminal's reports (notifyFromProtocol, updateProtocolProgress).
LEMMA ReportKeeps ==
  ASSUME Inv, disposed = FALSE, UNCHANGED disposed, NEW id \in Sessions,
         Notification(id) \/ ProgressActive(id) \/ ProgressEnds(id)
  PROVE  Inv'
<1>1. entry[id] \in Entry /\ SoundEntry(entry[id]) /\ (attentionId = id => QuietEntry(entry[id]))
  BY EntryFacts
<1>2. CASE Notification(id)
  BY <1>1, <1>2, DispatchKeeps DEF Notification, Reported
<1>3. CASE ProgressActive(id)
  <2> DEFINE e == [entry[id] EXCEPT !.progress = TRUE, !.protocol = "OSC_NOTIF_BUSY"]
  <2>1. e \in Entry /\ SoundEntry(e) /\ (attentionId = id => QuietEntry(e))
    BY <1>1 DEF Entry, SoundEntry, QuietEntry, Held, Ringing
  <2>2. WaitsKept
    BY <1>3, NobodyKeepsWaits DEF ProgressActive, Inv
  <2>3. Put(id, e) /\ removed' \subseteq removed /\ Published /\ UNCHANGED <<attentionId, settings>>
    BY <1>3 DEF ProgressActive, Reported, Published
  <2> HIDE DEF e
  <2> QED BY <2>1, <2>2, <2>3, PutKeeps
<1>4. CASE ProgressEnds(id)
  <2>1. /\ CycleOver(entry[id]) \in Entry /\ SoundEntry(CycleOver(entry[id]))
        /\ attentionId = id => QuietEntry(CycleOver(entry[id]))
    BY <1>1 DEF CycleOver, Entry, SoundEntry, QuietEntry, Held, Ringing
  <2> QED BY <1>4, <2>1, DispatchKeeps DEF ProgressEnds, Reported
<1> QED BY <1>2, <1>3, <1>4

\* Commands.
LEMMA FinishedCommandIsSound ==
  ASSUME Inv, disposed = FALSE, NEW id \in Sessions, NEW ranLong \in BOOLEAN
  PROVE  /\ Finished(id, ranLong) \in Entry /\ SoundEntry(Finished(id, ranLong))
         /\ attentionId = id => QuietEntry(Finished(id, ranLong))
<1> DEFINE d == Disarmed(entry[id])
           armed == entry[id].commandExit = "COMMAND_EXIT_ARMED"
           f == IF entry[id].watch.running /\ ~Claimed(id, "commandFinished")
                THEN RingFinished(id, d, armed, ranLong) ELSE d
<1>1. entry[id] \in Entry /\ SoundEntry(entry[id]) /\ (attentionId = id => QuietEntry(entry[id]))
  BY EntryFacts
<1>2. d \in Entry /\ SoundEntry(d) /\ (attentionId = id => QuietEntry(d))
  <2>0. NoWatch \in Watch
    BY DEF Watch
  <2>1. d \in Entry
    BY <1>1, <2>0 DEF Disarmed, Entry
  <2>2. /\ d.protocol = entry[id].protocol /\ d.commandExit # "COMMAND_EXIT_ARMED"
        /\ d.commandExit \in {entry[id].commandExit, "IDLE"}
        /\ d.ringCommand = entry[id].ringCommand /\ d.deferred = entry[id].deferred
        /\ d.notification = entry[id].notification
        /\ d.todo = entry[id].todo /\ d.progress = entry[id].progress
    BY <1>1 DEF Disarmed, Entry
  <2> HIDE DEF d
  <2>3. SoundEntry(d)
    BY <1>1, <2>2 DEF SoundEntry, Held, Ringing
  <2>4. attentionId = id => QuietEntry(d)
    BY <1>1, <2>2 DEF QuietEntry, Ringing
  <2> QED BY <2>1, <2>3, <2>4
<1>3. f \in Entry /\ SoundEntry(f) /\ (attentionId = id => QuietEntry(f))
  <2> HIDE DEF d
  <2>1. /\ RingFinished(id, d, armed, ranLong) \in Entry /\ SoundEntry(RingFinished(id, d, armed, ranLong))
        /\ HasAttention(id) => RingFinished(id, d, armed, ranLong) = d
    BY <1>2, FinishedIsSound
  <2> QED BY <1>2, <2>1 DEF HasAttention
<1>4. Finished(id, ranLong) = ResetDetector(f)
  BY DEF Finished
<1> HIDE DEF f
<1> QED BY <1>3, <1>4, ResetIsSound

\* A command starts, ends, or ends with its PTY (startCommandExitWatch, finishCommandExitWatch, onExit).
LEMMA CommandKeeps ==
  ASSUME Inv, disposed = FALSE, UNCHANGED disposed, NEW id \in Sessions,
         NEW argv0 \in Commands \cup {None}, NEW ranLong \in BOOLEAN,
         CommandStart(id, argv0) \/ CommandFinish(id, ranLong) \/ Exit(id, ranLong)
  PROVE  Inv'
<1>1. entry[id] \in Entry /\ SoundEntry(entry[id]) /\ (attentionId = id => QuietEntry(entry[id]))
  BY EntryFacts
<1>2. CASE CommandStart(id, argv0)
  <2> DEFINE e == [entry[id] EXCEPT
                     !.commandExit = IF @ = "ALERT_RINGING" THEN @ ELSE "IDLE",
                     !.watch = [argv0 |-> argv0, seen |-> HasAttention(id), running |-> TRUE]]
  <2>1. [argv0 |-> argv0, seen |-> HasAttention(id), running |-> TRUE] \in Watch
    BY DEF Watch, HasAttention
  <2>2. e \in Entry /\ SoundEntry(e) /\ (attentionId = id => QuietEntry(e))
    BY <1>1, <2>1 DEF Entry, SoundEntry, QuietEntry, Held, Ringing
  <2>3. WaitsKept
    BY <1>2, EndGraceKeepsWaits DEF CommandStart, Inv
  <2>4. Put(id, ResetDetector(e)) /\ removed' \subseteq removed /\ Published /\ UNCHANGED <<attentionId, settings>>
    BY <1>2 DEF CommandStart, Reported, Published
  <2> HIDE DEF e
  <2>5. /\ ResetDetector(e) \in Entry /\ SoundEntry(ResetDetector(e))
        /\ attentionId = id => QuietEntry(ResetDetector(e))
    BY <2>2, ResetIsSound
  <2> QED BY <2>3, <2>4, <2>5, PutKeeps
<1>3. CASE CommandFinish(id, ranLong)
  <2>1. WaitsKept
    BY <1>3, SettleKeepsWaits DEF CommandFinish, Inv, Outcome
  <2>2. /\ Put(id, Finished(id, ranLong)) /\ removed' \subseteq removed /\ Published
        /\ UNCHANGED <<attentionId, settings>>
    BY <1>3 DEF CommandFinish, Reported, Published
  <2> QED BY <2>1, <2>2, FinishedCommandIsSound, PutKeeps
<1>4. CASE Exit(id, ranLong)
  <2>1. WaitsKept
    <3>1. (IF entry[id].watch.running THEN "exit" ELSE "died") \in Outcome
      BY DEF Outcome
    <3> QED BY <1>4, <3>1, SettleKeepsWaits DEF Exit, Inv
  <2>2. /\ Put(id, Finished(id, ranLong)) /\ removed' \subseteq removed /\ Published
        /\ UNCHANGED <<attentionId, settings>>
    BY <1>4 DEF Exit, Published
  <2> QED BY <2>1, <2>2, FinishedCommandIsSound, PutKeeps
<1> QED BY <1>2, <1>3, <1>4

\* Attention: what its holder becomes, and what its loser becomes.
LEMMA AttendedIsSound ==
  ASSUME NEW e \in Entry, SoundEntry(e)
  PROVE  Attended(e) \in Entry /\ SoundEntry(Attended(e)) /\ QuietEntry(Attended(e))
<1> DEFINE c == ClearAllRings(e)
           seen == [c EXCEPT !.watch = IF @.running THEN [@ EXCEPT !.seen = TRUE] ELSE @,
                             !.commandExit = IF c.watch.running /\ @ = "COMMAND_EXIT_ARMED" THEN "IDLE" ELSE @]
           r == [seen EXCEPT !.dismissed = TRUE, !.todo = TRUE]
<1>1. /\ c \in Entry /\ Held(c) /\ ~Ringing(c) /\ ~c.deferred
      /\ c.commandExit \in {"IDLE", "COMMAND_EXIT_ARMED"}
  <2>1. Held(e)
    BY DEF SoundEntry
  <2>2. c \in Entry /\ Held(c) /\ ~Ringing(c) /\ ~c.deferred
    BY <2>1, ClearIsSound
  <2> QED BY <2>2 DEF Entry, Ringing
<1> HIDE DEF c
<1>2. (IF c.watch.running THEN [c.watch EXCEPT !.seen = TRUE] ELSE c.watch) \in Watch
  <2>1. c.watch \in Watch
    BY <1>1 DEF Entry
  <2>2. CASE c.watch.running
    <3>1. c.watch \in [argv0 : Commands \cup {None}, seen : BOOLEAN, running : {TRUE}]
      <4>1. c.watch # NoWatch
        BY <2>2 DEF NoWatch
      <4> QED BY <2>1, <4>1 DEF Watch
    <3> QED BY <2>2, <3>1 DEF Watch
  <2> QED BY <2>1, <2>2
<1>3. /\ seen \in Entry /\ seen.commandExit = "IDLE" /\ ~seen.deferred /\ ~Ringing(seen) /\ Held(seen)
  <2>1. c.commandExit = "COMMAND_EXIT_ARMED" => c.watch.running
    BY <1>1 DEF Held
  <2>2. seen.commandExit = "IDLE"
    BY <1>1, <2>1 DEF Entry
  <2>3. seen \in Entry
    <3>1. PICK w \in Watch : w = IF c.watch.running THEN [c.watch EXCEPT !.seen = TRUE] ELSE c.watch
      BY <1>2
    <3>2. PICK x \in {"IDLE", "COMMAND_EXIT_ARMED"} :
            x = IF c.watch.running /\ c.commandExit = "COMMAND_EXIT_ARMED" THEN "IDLE" ELSE c.commandExit
      BY <1>1
    <3>3. seen = [c EXCEPT !.watch = w, !.commandExit = x]
      BY <1>1, <3>1, <3>2 DEF Entry
    <3> HIDE DEF seen
    <3> QED BY <1>1, <3>3 DEF Entry
  <2>4. /\ seen.protocol = c.protocol /\ seen.ringCommand = c.ringCommand /\ seen.deferred = c.deferred
        /\ seen.notification = c.notification /\ seen.todo = c.todo /\ seen.progress = c.progress
    BY <1>1 DEF Entry
  <2> HIDE DEF seen
  <2> QED BY <1>1, <2>2, <2>3, <2>4 DEF Held, Ringing
<1> HIDE DEF seen
<1>4. r \in Entry /\ r.commandExit = "IDLE" /\ ~r.deferred /\ ~Ringing(r) /\ Held(r)
  BY <1>3 DEF Entry, Held, Ringing
<1>5. Attended(e) \in {seen, r}
  BY DEF Attended, c, seen
<1> HIDE DEF r
<1> QED BY <1>3, <1>4, <1>5 DEF SoundEntry, QuietEntry

\* Arming asks for a command that runs and was seen (armCommandExitOnAttentionLoss).
LEMMA ArmedIsSound ==
  ASSUME NEW e \in Entry, SoundEntry(e), e.watch.running, e.watch.seen, e.commandExit = "IDLE"
  PROVE  Armed(e) \in Entry /\ SoundEntry(Armed(e))
BY DEF Armed, Entry, SoundEntry, Held, Ringing

\* Attention moves or lapses (setAttention, clearAttention).
LEMMA AttentionKeeps ==
  ASSUME Inv, disposed = FALSE, UNCHANGED disposed, NEW id \in Sessions, Attend(id) \/ LoseAttention
  PROVE  Inv'
<1>1. \A s \in Sessions : entry[s] \in Entry /\ SoundEntry(entry[s])
  BY EntryFacts
<1>2. \A s \in Sessions : ArmsOnLoss(s) => Armed(entry[s]) \in Entry /\ SoundEntry(Armed(entry[s]))
  BY <1>1, ArmedIsSound DEF ArmsOnLoss
<1>3. \A s \in Sessions : Attended(entry[s]) \in Entry /\ SoundEntry(Attended(entry[s])) /\ QuietEntry(Attended(entry[s]))
  BY <1>1, AttendedIsSound
<1>4. WaitsKept
  BY NobodyKeepsWaits DEF Attend, LoseAttention, Inv
<1>5. /\ removed' \subseteq Sessions /\ helpers' \subseteq MayBeHelper /\ watched' \subseteq Commands
      /\ deferring' \in BOOLEAN /\ removed' = removed
  BY DEF Attend, LoseAttention, settings, Inv, TypeOK
<1>6. Published
  BY DEF Attend, LoseAttention, Published
<1>7. CASE Attend(id)
  <2>1. live' = live \cup {id} /\ live' \subseteq Sessions /\ attentionId' = id
    BY <1>7 DEF Attend, Inv, TypeOK
  <2>2. \A s \in Sessions : \/ entry'[s] \in {entry[s], Attended(entry[s])}
                            \/ ArmsOnLoss(s) /\ entry'[s] = Armed(entry[s])
    BY <1>7 DEF Attend
  <2>3. entry' \in [Sessions -> Entry]
    BY <1>7, <1>1, <1>2, <1>3 DEF Attend
  <2>4. \A s \in Sessions : SoundEntry(entry'[s])
    BY <1>1, <1>2, <1>3, <2>2
  <2>5. QuietEntry(entry'[id])
    BY <1>7, <1>3 DEF Attend
  <2>6. \A w \in Waiters : wait'[w] # Free => wait'[w].id \in live' \ removed'
    BY <1>4, <1>5, <2>1 DEF WaitsKept, Inv, NobodyWaitsOnTheDead, Idle
  <2> QED BY <1>4, <1>5, <1>6, <2>1, <2>3, <2>4, <2>5, <2>6, StepKeeps DEF WaitsKept
<1>8. CASE LoseAttention
  <2>1. live' = live /\ live' \subseteq Sessions /\ attentionId' = None
    BY <1>8 DEF LoseAttention, Inv, TypeOK
  <2>2. \A s \in Sessions : entry'[s] = entry[s] \/ (ArmsOnLoss(s) /\ entry'[s] = Armed(entry[s]))
    BY <1>8 DEF LoseAttention
  <2>3. entry' \in [Sessions -> Entry]
    BY <1>8, <1>1, <1>2 DEF LoseAttention
  <2>4. \A s \in Sessions : SoundEntry(entry'[s])
    BY <1>1, <1>2, <2>2
  <2>6. \A w \in Waiters : wait'[w] # Free => wait'[w].id \in live' \ removed'
    BY <1>4, <1>5, <2>1 DEF WaitsKept, Inv, NobodyWaitsOnTheDead, Idle
  <2> QED BY <1>4, <1>5, <1>6, <2>1, <2>3, <2>4, <2>6, StepKeeps DEF WaitsKept
<1> QED BY <1>7, <1>8

\* The user's controls on one Session.
LEMMA ControlKeeps ==
  ASSUME Inv, disposed = FALSE, UNCHANGED disposed, NEW id \in Sessions,
         DismissAlert(id) \/ ToggleTodo(id) \/ MarkTodo(id) \/ ClearTodo(id)
  PROVE  Inv'
<1> DEFINE c == ClearAllRings(entry[id])
<1>1. entry[id] \in Entry /\ SoundEntry(entry[id]) /\ (attentionId = id => QuietEntry(entry[id]))
  BY EntryFacts
<1>2. /\ c \in Entry /\ Held(c) /\ ~Ringing(c) /\ ~c.deferred
      /\ attentionId = id => c.commandExit = "IDLE"
  BY <1>1, ClearIsSound DEF SoundEntry, QuietEntry
<1>3. WaitsKept
  BY NobodyKeepsWaits DEF DismissAlert, ToggleTodo, MarkTodo, ClearTodo, SetTodo, Inv
<1>4. removed' \subseteq removed /\ Published /\ UNCHANGED <<attentionId, settings>>
  BY DEF DismissAlert, ToggleTodo, MarkTodo, ClearTodo, SetTodo, Published
<1>5. CASE DismissAlert(id)
  <2> DEFINE e == [c EXCEPT !.todo = @ \/ Ringing(entry[id]), !.dismissed = FALSE]
  <2>1. (c.todo \/ Ringing(entry[id])) \in BOOLEAN
    OBVIOUS
  <2>2. Put(id, e)
    BY <1>5 DEF DismissAlert
  <2>3. e \in Entry /\ SoundEntry(e) /\ (attentionId = id => QuietEntry(e))
    <3> HIDE DEF c
    <3> QED BY <1>2, <2>1 DEF Entry, SoundEntry, QuietEntry, Held, Ringing
  <2> HIDE DEF e
  <2> QED BY <1>3, <1>4, <2>2, <2>3, PutKeeps
<1>6. ASSUME NEW todo \in BOOLEAN, SetTodo(id, todo) PROVE Inv'
  <2> DEFINE e == [c EXCEPT !.todo = todo, !.notification = IF todo THEN @ ELSE None]
  <2>1. Put(id, e)
    BY <1>6 DEF SetTodo
  <2>2. e \in Entry /\ SoundEntry(e) /\ (attentionId = id => QuietEntry(e))
    <3> HIDE DEF c
    <3> QED BY <1>2 DEF Entry, SoundEntry, QuietEntry, Held, Ringing
  <2> HIDE DEF e
  <2> QED BY <1>3, <1>4, <2>1, <2>2, PutKeeps
<1>7. CASE ToggleTodo(id)
  <2>1. (~entry[id].todo) \in BOOLEAN
    OBVIOUS
  <2> QED BY <1>6, <1>7, <2>1 DEF ToggleTodo
<1>8. CASE MarkTodo(id) \/ ClearTodo(id)
  BY <1>6, <1>8 DEF MarkTodo, ClearTodo
<1> QED BY <1>5, <1>7, <1>8

Unrung(e) == [e EXCEPT !.ringCommand = None, !.outputSinceRing = FALSE]
\* A watched command's ring is dropped with its rule (setWatchedCommands).
LEMMA UnrungIsSound ==
  ASSUME NEW e \in Entry, SoundEntry(e)
  PROVE  /\ Unrung(e) \in Entry /\ SoundEntry(Unrung(e))
         /\ QuietEntry(e) => QuietEntry(Unrung(e))
BY DEF Unrung, Entry, SoundEntry, QuietEntry, Held, Ringing

\* The settings that reach every Session.
LEMMA SettingKeeps ==
  ASSUME Inv, disposed = FALSE, UNCHANGED disposed, NEW names \in SUBSET Commands, NEW on \in BOOLEAN,
         SetWatchedCommands(names) \/ SetDeferAlertsUntilQuiet(on)
  PROVE  Inv'
<1>1. \A s \in Sessions : /\ entry[s] \in Entry /\ SoundEntry(entry[s])
                          /\ attentionId = s => s \in live /\ QuietEntry(entry[s])
  BY EntryFacts
<1>2. WaitsKept
  BY NobodyKeepsWaits DEF SetWatchedCommands, SetDeferAlertsUntilQuiet, Inv
<1>3. /\ live' = live /\ removed' = removed /\ attentionId' = attentionId /\ helpers' = helpers
      /\ watched' \subseteq Commands /\ deferring' \in BOOLEAN /\ Published
  BY DEF SetWatchedCommands, SetDeferAlertsUntilQuiet, Published, Inv, TypeOK
<1>4. /\ entry' \in [Sessions -> Entry]
      /\ \A s \in Sessions : SoundEntry(entry'[s]) /\ (QuietEntry(entry[s]) => QuietEntry(entry'[s]))
  <2>1. CASE SetWatchedCommands(names)
    <3>1. \A s \in Sessions : /\ Unrung(entry[s]) \in Entry /\ SoundEntry(Unrung(entry[s]))
                              /\ QuietEntry(entry[s]) => QuietEntry(Unrung(entry[s]))
      BY <1>1, UnrungIsSound
    <3>2. \A s \in Sessions : entry'[s] \in {entry[s], Unrung(entry[s])}
      BY <2>1 DEF SetWatchedCommands, Unrung
    <3>3. entry' \in [Sessions -> Entry]
      <4>1. entry' = [s \in Sessions |-> entry'[s]]
        BY <2>1 DEF SetWatchedCommands
      <4>2. \A s \in Sessions : entry'[s] \in Entry
        BY <1>1, <3>1, <3>2
      <4> QED BY <4>1, <4>2
    <3> QED BY <1>1, <3>1, <3>2, <3>3
  <2>2. CASE SetDeferAlertsUntilQuiet(on)
    <3>1. \A s \in Sessions : /\ Flush(s, entry[s]) \in Entry /\ SoundEntry(Flush(s, entry[s]))
                              /\ QuietEntry(entry[s]) => QuietEntry(Flush(s, entry[s]))
      BY <1>1, FlushIsSound DEF SoundEntry
    <3>2. \A s \in Sessions : entry'[s] \in {entry[s], Flush(s, entry[s])}
      BY <2>2 DEF SetDeferAlertsUntilQuiet
    <3>3. entry' \in [Sessions -> Entry]
      BY <1>1, <2>2, <3>1 DEF SetDeferAlertsUntilQuiet
    <3> QED BY <1>1, <3>1, <3>2, <3>3
  <2> QED BY <2>1, <2>2
<1>5. \A s \in Sessions : attentionId' = s => s \in live' /\ QuietEntry(entry'[s])
  BY <1>1, <1>3, <1>4
<1>6. \A w \in Waiters : wait'[w] # Free => wait'[w].id \in live' \ removed'
  BY <1>2, <1>3 DEF WaitsKept, Inv, NobodyWaitsOnTheDead, Idle
<1> QED BY <1>2, <1>3, <1>4, <1>5, <1>6, StepKeeps DEF WaitsKept, Inv, TypeOK

\* A Session is marked, removed or restored.
LEMMA HostKeeps ==
  ASSUME Inv, disposed = FALSE, UNCHANGED disposed, NEW id \in Sessions,
         NEW helper \in BOOLEAN, NEW todo \in BOOLEAN, NEW n \in {None, "protocol", "COMMAND_EXIT"},
         (id \in MayBeHelper /\ SetHelper(id, helper)) \/ Remove(id) \/ Seed(id, todo, n)
  PROVE  Inv'
<1>1. \A s \in Sessions : /\ entry[s] \in Entry /\ SoundEntry(entry[s])
                          /\ attentionId = s => s \in live /\ QuietEntry(entry[s])
  BY EntryFacts
<1>2. CASE id \in MayBeHelper /\ SetHelper(id, helper)
  <2>1. WaitsKept
    BY <1>2, NobodyKeepsWaits DEF SetHelper, Inv
  <2>2. /\ live' = live /\ removed' = removed /\ attentionId' = attentionId /\ helpers' \subseteq MayBeHelper
        /\ watched' = watched /\ deferring' = deferring /\ entry' = entry /\ Published
    BY <1>2 DEF SetHelper, Published, Inv, TypeOK
  <2>3. \A w \in Waiters : wait'[w] # Free => wait'[w].id \in live' \ removed'
    BY <2>1, <2>2 DEF WaitsKept, Inv, NobodyWaitsOnTheDead, Idle
  <2> QED BY <1>1, <2>1, <2>2, <2>3, StepKeeps DEF WaitsKept, Inv, TypeOK
<1>3. CASE Remove(id)
  <2>1. WaitsKept
    BY <1>3, SettleKeepsWaits DEF Remove, Inv, Outcome
  <2>2. /\ live' = live \ {id} /\ removed' = removed \cup {id} /\ entry' = [entry EXCEPT ![id] = NewEntry]
        /\ helpers' \subseteq MayBeHelper /\ removed' \subseteq Sessions /\ live' \subseteq Sessions
        /\ watched' = watched /\ deferring' = deferring /\ Published
    BY <1>3 DEF Remove, Published, Inv, TypeOK
  <2>3. attentionId' \in {None, attentionId} /\ attentionId' # id
    BY <1>1, <1>3 DEF Remove, HasAttention
  <2>4. entry' \in [Sessions -> Entry] /\ \A s \in Sessions : SoundEntry(entry'[s])
    BY <1>1, <2>2, NewEntryIsSound DEF Inv, TypeOK
  <2>5. \A s \in Sessions : attentionId' = s => s \in live' /\ QuietEntry(entry'[s])
    BY <1>1, <2>2, <2>3 DEF Inv, TypeOK
  <2>6. \A w \in Waiters : wait'[w] # Free => wait'[w].id \in live' \ removed'
    <3>1. \A w \in Waiters : wait'[w] # Free => wait[w].id # id
      BY <1>3 DEF Remove, Settle, Parked
    <3> QED BY <2>1, <2>2, <3>1 DEF WaitsKept, Inv, NobodyWaitsOnTheDead, Idle
  <2>7. attentionId' \in Sessions \cup {None}
    BY <2>3 DEF Inv, TypeOK
  <2> QED BY <2>1, <2>2, <2>4, <2>5, <2>6, <2>7, StepKeeps DEF WaitsKept, Inv, TypeOK
<1>4. CASE Seed(id, todo, n)
  <2> DEFINE d == Reset(entry[id].detector)
             e == [NewEntry EXCEPT !.detector = d, !.ringSeq = entry[id].ringSeq,
                                   !.dismissed = entry[id].dismissed, !.todo = todo, !.notification = n]
  <2>1. d \in Detector
    BY <1>1 DEF Entry, Reset, Detector, QuiesceStatus
  <2>2. entry[id].ringSeq \in 0 .. RingSeqBase - 1 /\ entry[id].dismissed \in BOOLEAN
    BY <1>1 DEF Entry
  <2>3. n # None => todo
    BY <1>4 DEF Seed
  <2>4. Put(id, e) /\ removed' \subseteq removed /\ Published /\ UNCHANGED <<attentionId, settings>>
    BY <1>4 DEF Seed, Published
  <2>5. e \in Entry /\ SoundEntry(e) /\ QuietEntry(e)
    <3> HIDE DEF d
    <3> QED BY <2>1, <2>2, <2>3, NewEntryIsSound DEF Entry, SoundEntry, QuietEntry, Held, Ringing
  <2>6. WaitsKept
    BY <1>4, NobodyKeepsWaits DEF Seed, Inv
  <2> HIDE DEF e
  <2> QED BY <2>4, <2>5, <2>6, PutKeeps
<1> QED BY <1>2, <1>3, <1>4

\* Awaits (awaitCompletion, consumeAwaitableRing, settleAwait).
LEMMA AwaitKeeps ==
  ASSUME Inv, disposed = FALSE, UNCHANGED disposed, NEW w \in Waiters, NEW id \in Sessions,
         NEW until \in Until,
         AwaitRefused(w, id) \/ AwaitAnswered(w, id, until) \/ AwaitParks(w, id, until)
  PROVE  Inv'
<1>1. /\ entry[id] \in Entry /\ SoundEntry(entry[id])
      /\ attentionId = id => QuietEntry(entry[id])
  BY EntryFacts
<1>2. \A outcome \in Outcome : Answer(w, outcome) => WaitsKept
  BY DEF Answer, WaitsKept, Inv, TypeOK
<1>3. CASE AwaitRefused(w, id)
  <2>1. WaitsKept
    BY <1>2, <1>3 DEF AwaitRefused, Outcome
  <2>2. UNCHANGED <<live, entry, removed, attentionId, settings, published>>
    BY <1>3 DEF AwaitRefused
  <2>3. \A s \in Sessions : SoundEntry(entry'[s]) /\ (attentionId' = s => s \in live' /\ QuietEntry(entry'[s]))
    BY <2>2, EntryFacts
  <2>4. \A v \in Waiters : wait'[v] # Free => wait'[v].id \in live' \ removed'
    BY <2>1, <2>2 DEF WaitsKept, Inv, NobodyWaitsOnTheDead, Idle
  <2> QED BY <2>1, <2>2, <2>3, <2>4, StepKeeps DEF WaitsKept, Inv, TypeOK, settings, Published
<1>4. CASE AwaitAnswered(w, id, until)
  <2> DEFINE cause == AwaitableRing(entry[id], until)
             e == Consumed(entry[id], cause)
  <2>1. cause # None /\ Put(id, e) /\ Answer(w, cause)
    BY <1>4 DEF AwaitAnswered
  <2>2. e \in Entry /\ SoundEntry(e) /\ attentionId # id
    BY <1>1, <2>1, ConsumeIsSound DEF QuietEntry
  <2>3. cause \in Outcome
    BY <2>1 DEF AwaitableRing, Outcome
  <2>4. WaitsKept
    BY <1>2, <2>1, <2>3
  <2>5. removed' \subseteq removed /\ Published /\ UNCHANGED <<attentionId, settings>>
    BY <1>4 DEF AwaitAnswered, Published
  <2> HIDE DEF e
  <2> QED BY <2>1, <2>2, <2>4, <2>5, PutKeeps
<1>5. CASE AwaitParks(w, id, until)
  <2>1. /\ live' = live \cup {id} /\ entry' = [entry EXCEPT ![id] = entry[id]]
        /\ wait' = [wait EXCEPT ![w] = ParkedAwait(id, until)] /\ answered' = [v \in Waiters |-> None]
        /\ removed' = removed /\ UNCHANGED <<attentionId, settings>> /\ Published /\ id \notin removed
    BY <1>5 DEF AwaitParks, Put, Awaitable, Published
  <2>2. entry' = entry
    BY <2>1 DEF Inv, TypeOK
  <2>3. entry[id].watch.running \in BOOLEAN
    BY <1>1, WatchFields DEF Entry
  <2>4. ParkedAwait(id, until) \in Wait /\ ParkedAwait(id, until).id = id
    BY <2>3 DEF ParkedAwait, Wait
  <2>5. wait' \in [Waiters -> Wait] /\ answered' \in [Waiters -> Outcome \cup {None}]
    BY <2>1, <2>4 DEF Inv, TypeOK
  <2>6. \A s \in Sessions : SoundEntry(entry'[s]) /\ (attentionId' = s => s \in live' /\ QuietEntry(entry'[s]))
    BY <2>1, <2>2, EntryFacts
  <2>7. \A v \in Waiters : wait'[v] # Free => wait'[v].id \in live' \ removed'
    BY <2>1, <2>4 DEF Inv, TypeOK, NobodyWaitsOnTheDead, Idle
  <2> QED BY <2>1, <2>2, <2>5, <2>6, <2>7, StepKeeps DEF Inv, TypeOK, settings
<1> QED BY <1>3, <1>4, <1>5

\* An await that ends by a timer or by its caller.
LEMMA AwaitEndsKeeps ==
  ASSUME Inv, disposed = FALSE, UNCHANGED disposed, NEW w \in Waiters,
         NEW outcome \in {"idle", "timeout", "cancelled"}, AwaitEnds(w, outcome)
  PROVE  Inv'
<1>1. WaitsKept
  BY SettleKeepsWaits DEF AwaitEnds, Inv, Outcome
<1>2. UNCHANGED <<live, entry, removed, attentionId, settings>> /\ Published
  BY DEF AwaitEnds, Published
<1>3. \A s \in Sessions : SoundEntry(entry'[s]) /\ (attentionId' = s => s \in live' /\ QuietEntry(entry'[s]))
  BY <1>2, EntryFacts
<1>4. \A v \in Waiters : wait'[v] # Free => wait'[v].id \in live' \ removed'
  BY <1>1, <1>2 DEF WaitsKept, Inv, NobodyWaitsOnTheDead, Idle
<1> QED BY <1>1, <1>2, <1>3, <1>4, StepKeeps DEF WaitsKept, Inv, TypeOK, settings

\* Nothing is parked and nothing can ring after dispose.
LEMMA DisposeKeeps == Inv /\ Dispose => Inv'
<1> SUFFICES ASSUME Inv, Dispose PROVE Inv'
  OBVIOUS
<1>1. wait' = [w \in Waiters |-> Free] /\ answered' \in [Waiters -> Outcome \cup {None}]
  BY DEF Dispose, Settle, Idle, Outcome, Inv, TypeOK
<1>2. entry' = [id \in Sessions |-> NewEntry] /\ disposed' = TRUE /\ live' = {} /\ removed' = {} /\ helpers' = {}
      /\ published' = [id \in Sessions |-> Unheard] /\ UNCHANGED <<attentionId, watched, deferring>>
  BY DEF Dispose
<1>3. Free \in Wait
  BY DEF Wait
<1>4. wait' \in [Waiters -> Wait] /\ published' \in [Sessions -> AlertState \cup {Unheard}]
  BY <1>1, <1>2, <1>3
<1>5. entry' \in [Sessions -> Entry]
  BY <1>2, NewEntryIsSound
<1>6. TypeOK'
  BY <1>1, <1>2, <1>4, <1>5 DEF Inv, TypeOK
<1>7. EntriesAreSound'
  BY <1>2, NewEntryIsSound DEF EntriesAreSound, SoundEntry, Held, Ringing
<1>8. AttendedIsQuiet' /\ NobodyWaitsOnTheDead'
  BY <1>1, <1>2 DEF AttendedIsQuiet, NobodyWaitsOnTheDead, Idle
<1> QED BY <1>6, <1>7, <1>8 DEF Inv

-----------------------------------------------------------------------------
(* The invariant and what follows from it.                                 *)

\* It holds of an AlertManager that was just constructed.
LEMMA InitInv == Init => Inv
<1> SUFFICES ASSUME Init PROVE Inv
  OBVIOUS
<1>1. entry \in [Sessions -> Entry]
  BY NewEntryIsSound DEF Init
<1>2. wait \in [Waiters -> Wait]
  BY DEF Init, Wait
<1>3. TypeOK
  BY <1>1, <1>2 DEF Init, TypeOK
<1>4. EntriesAreSound
  BY NewEntryIsSound DEF Init, EntriesAreSound
<1>5. AttendedIsQuiet /\ NobodyWaitsOnTheDead
  BY DEF Init, AttendedIsQuiet, NobodyWaitsOnTheDead, Idle
<1> QED BY <1>3, <1>4, <1>5 DEF Inv

\* Every handler, every timer and every stuttering step keeps it.
LEMMA InvStep == Inv /\ [Next]_vars => Inv'
<1> SUFFICES ASSUME Inv, [Next]_vars PROVE Inv'
  OBVIOUS
<1>1. CASE UNCHANGED vars
  BY <1>1 DEF vars, Inv, TypeOK, EntriesAreSound, SoundEntry, Held, Ringing, AttendedIsQuiet,
              NobodyWaitsOnTheDead, Idle
<1>2. CASE disposed = FALSE /\ UNCHANGED disposed /\ (TerminalEvent \/ TimerEvent \/ UserEvent \/ HostEvent \/ AwaitEvent)
  <2>1. CASE TerminalEvent
    BY <1>2, <2>1, DataKeeps, TouchKeeps, ReportKeeps, CommandKeeps DEF TerminalEvent, AnyData
  <2>2. CASE TimerEvent
    <3>1. CASE LoseAttention
      <4>1. attentionId \in Sessions
        BY <3>1 DEF LoseAttention, Inv, TypeOK
      <4> QED BY <1>2, <3>1, <4>1, AttentionKeeps
    <3>2. CASE \E w \in Waiters, outcome \in {"idle", "timeout", "cancelled"} : AwaitEnds(w, outcome)
      BY <1>2, <3>2, AwaitEndsKeeps
    <3>3. CASE \E id \in Sessions : (\E d \in Detector : DetectorTimer(id, d)) \/ DetectorSettles(id) \/ DeferredTimer(id)
      BY <1>2, <3>3, DetectorTimerKeeps, SettlesKeeps, DeferredTimerKeeps
    <3> QED BY <2>2, <3>1, <3>2, <3>3 DEF TimerEvent
  <2>3. CASE UserEvent
    BY <1>2, <2>3, AttentionKeeps, ControlKeeps, SettingKeeps DEF UserEvent
  <2>4. CASE HostEvent
    <3>1. TRUE \in BOOLEAN /\ None \in {None, "protocol", "COMMAND_EXIT"}
      OBVIOUS
    <3>2. CASE \E id \in MayBeHelper, helper \in BOOLEAN : SetHelper(id, helper)
      BY <1>2, <3>1, <3>2, HostKeeps, HelperAssumption
    <3>3. CASE \E id \in Sessions : Remove(id)
      BY <1>2, <3>1, <3>3, HostKeeps
    <3>4. CASE \E id \in Sessions, todo \in BOOLEAN, n \in {None, "protocol", "COMMAND_EXIT"} : Seed(id, todo, n)
      BY <1>2, <3>1, <3>4, HostKeeps
    <3> QED BY <2>4, <3>2, <3>3, <3>4 DEF HostEvent
  <2>5. CASE AwaitEvent
    <3>1. "quiet" \in Until
      BY DEF Until
    <3> QED BY <1>2, <2>5, <3>1, AwaitKeeps DEF AwaitEvent
  <2> QED BY <1>2, <2>1, <2>2, <2>3, <2>4, <2>5
<1>3. CASE Next
  <2>1. disposed = FALSE
    BY <1>3 DEF Next, Inv, TypeOK
  <2> QED BY <1>2, <1>3, <2>1, DisposeKeeps DEF Next
<1> QED BY <1>1, <1>3

\* So it holds of every state the class reaches.
LEMMA InvHolds == Spec => []Inv
BY InitInv, InvStep, PTL DEF Spec

\* The state stays well-typed, whatever arrives in whatever order: every handler
\* leaves an entry the next one can read (alert-manager.ts, all entry points).
THEOREM TypeCorrect == Spec => []TypeOK
<1>1. Inv => TypeOK
  BY DEF Inv
<1> QED BY <1>1, InvHolds, PTL

\* Nothing rings, is held back to ring, or is armed on the Session the user is
\* looking at (dispatchCompletion, attend, flushDeferredNotification).
THEOREM AttendedSessionIsQuiet == Spec => []AttendedIsQuiet
<1>1. Inv => AttendedIsQuiet
  BY DEF Inv
<1> QED BY <1>1, InvHolds, PTL

\* Every parked await is on a Session whose end will be reported to it
\* (awaitCompletion, remove, dispose).
THEOREM WaitersAreOnLiveSessions == Spec => []NobodyWaitsOnTheDead
<1>1. Inv => NobodyWaitsOnTheDead
  BY DEF Inv
<1> QED BY <1>1, InvHolds, PTL

\* A report's or an exit's ring is never without the TODO that outlives it
\* (applyProtocolRinging, applyCommandExitRinging, toggleTodo, seed).
THEOREM RingsLeaveTodo == Spec => []RingKeepsTodo
<1>1. Inv => RingKeepsTodo
  BY DEF Inv, RingKeepsTodo, EntriesAreSound, SoundEntry, Held
<1> QED BY <1>1, InvHolds, PTL

\* No other track overwrites the text of a protocol ring
\* (applyCommandExitRinging, releaseRing).
THEOREM ProtocolTextIsKept == Spec => []ProtocolTextWins
<1>1. Inv => ProtocolTextWins
  BY DEF Inv, ProtocolTextWins, EntriesAreSound, SoundEntry, Held
<1> QED BY <1>1, InvHolds, PTL

\* Only the command running now, seen while attended, is armed
\* (armCommandExitOnAttentionLoss, finishCommandExitWatch).
THEOREM ArmedMeansSeenAndRunning == Spec => []ArmedHasWatch
<1>1. Inv => ArmedHasWatch
  BY DEF Inv, ArmedHasWatch, EntriesAreSound, SoundEntry, Held
<1> QED BY <1>1, InvHolds, PTL

\* The progress track is busy exactly while it holds progress
\* (updateProtocolProgress, finishProtocolProgressCycle).
THEOREM ProgressIsBusy == Spec => []ProgressAgrees
<1>1. Inv => ProgressAgrees
  BY DEF Inv, ProgressAgrees, EntriesAreSound, SoundEntry, Held
<1> QED BY <1>1, InvHolds, PTL

\* No ringing Session still holds a delivery back, so no timer overwrites a
\* newer ring (deferOrDeliverNotification, onSettled).
THEOREM RingEndsDeferral == Spec => []RingSupersedesDeferral
<1>1. Inv => RingSupersedesDeferral
  BY DEF Inv, RingSupersedesDeferral, EntriesAreSound, SoundEntry, Held
<1> QED BY <1>1, InvHolds, PTL

\* What every handler leaves behind of the tracks, the TODO, the held
\* notification and the waiters (dispatchCompletion, attend, latchRing, remove).
THEOREM AlarmsSound == Spec => []AlarmsAreSound
<1>1. TypeOK /\ AttendedIsQuiet /\ RingKeepsTodo /\ RingSupersedesDeferral /\ NobodyWaitsOnTheDead
        => AlarmsAreSound
  BY DEF AlarmsAreSound
<1> QED BY <1>1, TypeCorrect, AttendedSessionIsQuiet, RingsLeaveTodo, RingEndsDeferral, WaitersAreOnLiveSessions, PTL

-----------------------------------------------------------------------------
(* What listeners hear, and what a step does to the awaits and the counter, *)
(* need three more facts: a Session the map does not hold has a new entry, a *)
(* command that runs under attention was seen, and an await in its grace     *)
(* window is on a Session where no command runs.                             *)

AbsentIsNew == \A id \in Sessions : id \notin live => entry[id] = NewEntry
SeenWhileAttended ==
  \A id \in Sessions : attentionId = id /\ entry[id].watch.running => entry[id].watch.seen
GraceIsIdle == \A w \in Waiters : wait[w].grace => ~entry[wait[w].id].watch.running
More == AbsentIsNew /\ SeenWhileAttended /\ GraceIsIdle

LatchedTo(e, f) ==
  \/ e.protocol # "ALERT_RINGING" /\ f.protocol = "ALERT_RINGING"
  \/ e.commandExit # "ALERT_RINGING" /\ f.commandExit = "ALERT_RINGING"
  \/ e.ringCommand = None /\ f.ringCommand # None
Counts(e, f) == LatchedTo(e, f) <=> f.ringSeq # e.ringSeq
Silent(e, f) == f.ringSeq = e.ringSeq /\ ~LatchedTo(e, f)
SameChannel(e, f) == f.ringSeq = e.ringSeq /\ f.todo = e.todo /\ f.notification = e.notification

\* One or two latches move the counter off its value (ringSeq, kept modulo RingSeqBase).
LEMMA SeqMoves ==
  ASSUME NEW s \in 0 .. RingSeqBase - 1
  PROVE  /\ (s + 1) % RingSeqBase \in 0 .. RingSeqBase - 1
         /\ (s + 1) % RingSeqBase # s
         /\ (((s + 1) % RingSeqBase) + 1) % RingSeqBase # s
OBVIOUS

\* No ring, release or reset touches the command watch (latchRing, releaseRing, reset).
LEMMA WatchIsKept ==
  ASSUME NEW id, NEW e \in Entry
  PROVE  /\ ResetDetector(e).watch = e.watch
         /\ Flush(id, e).watch = e.watch
         /\ RingSettled(id, e).watch = e.watch
         /\ RingNotified(id, e).watch = e.watch
         /\ \A cause \in {"bell", "exit", "quiet"} : Consumed(e, cause).watch = e.watch
<1>1. ResetDetector(e).watch = e.watch
  BY DEF ResetDetector, Entry
<1>2. Flush(id, e).watch = e.watch
  BY DEF Flush, ApplyProtocolRinging, LatchRing, Entry
<1>3. RingSettled(id, e).watch = e.watch
  BY DEF RingSettled, LatchRing, Entry
<1>4. RingNotified(id, e).watch = e.watch
  BY DEF RingNotified, ApplyProtocolRinging, LatchRing, Entry
<1>5. \A cause \in {"bell", "exit", "quiet"} : Consumed(e, cause).watch = e.watch
  BY DEF Consumed, ReleaseProtocol, ReleaseCommandExit, ReleaseWatching, ResetDetector, Entry
<1> QED BY <1>1, <1>2, <1>3, <1>4, <1>5

\* Clearing the rings leaves the reminder, its text and the counter, and of a
\* Session that does not ring everything but the held delivery.
LEMMA ClearKeeps ==
  ASSUME NEW e \in Entry
  PROVE  /\ Silent(e, ClearAllRings(e)) /\ SameChannel(e, ClearAllRings(e))
         /\ ClearAllRings(e).watch = e.watch /\ ClearAllRings(e).dismissed = e.dismissed
         /\ ~Ringing(e) => ClearAllRings(e) = [e EXCEPT !.deferred = FALSE]
<1> DEFINE e1 == IF e.protocol = "ALERT_RINGING" THEN ReleaseProtocol(e) ELSE e
           e2 == IF e.commandExit = "ALERT_RINGING" THEN ReleaseCommandExit(e1) ELSE e1
           e3 == IF e.ringCommand # None THEN ReleaseWatching(e2) ELSE e2
           Like(f) == /\ DOMAIN f = DOMAIN e
                      /\ Silent(e, f) /\ SameChannel(e, f) /\ f.watch = e.watch /\ f.dismissed = e.dismissed
<1>1. Like(e1)
  BY DEF ReleaseProtocol, Entry, Silent, SameChannel, LatchedTo
<1>2. Like(e2)
  <2> HIDE DEF e1
  <2> QED BY <1>1 DEF ReleaseCommandExit, Entry, Silent, SameChannel, LatchedTo
<1>3. Like(e3)
  <2> HIDE DEF e2
  <2> QED BY <1>2 DEF ReleaseWatching, ResetDetector, Entry, Silent, SameChannel, LatchedTo
<1>4. ClearAllRings(e) = [e3 EXCEPT !.deferred = FALSE]
  BY DEF ClearAllRings
<1>5. ~Ringing(e) => e3 = e
  BY DEF Ringing
<1> HIDE DEF e3
<1> QED BY <1>3, <1>4, <1>5 DEF Entry, Silent, SameChannel, LatchedTo

\* Delivering what was held counts once, unless the track rings already
\* (flushDeferredNotification).
LEMMA FlushFields ==
  ASSUME NEW id, NEW e \in Entry
  PROVE  /\ Flush(id, e).commandExit = e.commandExit /\ Flush(id, e).ringCommand = e.ringCommand
         /\ \/ Flush(id, e) = [e EXCEPT !.deferred = FALSE]
            \/ /\ e.deferred /\ Flush(id, e).protocol = "ALERT_RINGING"
               /\ Flush(id, e).ringSeq = IF e.protocol = "ALERT_RINGING" THEN e.ringSeq
                                         ELSE (e.ringSeq + 1) % RingSeqBase
BY DEF Flush, ApplyProtocolRinging, LatchRing, Entry

\* Flush on its own counts what it latches.
LEMMA FlushCounts ==
  ASSUME NEW id, NEW e \in Entry
  PROVE  Counts(e, Flush(id, e))
<1>1. e.ringSeq \in 0 .. RingSeqBase - 1
  BY DEF Entry
<1>2. (e.ringSeq + 1) % RingSeqBase # e.ringSeq
  BY <1>1, SeqMoves
<1>3. /\ Flush(id, e).commandExit = e.commandExit /\ Flush(id, e).ringCommand = e.ringCommand
      /\ \/ Flush(id, e).protocol = e.protocol /\ Flush(id, e).ringSeq = e.ringSeq
         \/ /\ Flush(id, e).protocol = "ALERT_RINGING"
            /\ Flush(id, e).ringSeq = IF e.protocol = "ALERT_RINGING" THEN e.ringSeq
                                      ELSE (e.ringSeq + 1) % RingSeqBase
  BY FlushFields DEF Entry
<1> QED BY <1>2, <1>3 DEF Counts, LatchedTo

\* So does the rule for a settle and what it lets out (dispatchCompletion, onSettled).
LEMMA SettledCounts ==
  ASSUME NEW id, NEW e \in Entry, SoundEntry(e)
  PROVE  Counts(e, Flush(id, RingSettled(id, e))) /\ Counts(e, Flush(id, e))
<1> DEFINE r == RingSettled(id, e)
           f == Flush(id, r)
<1>1. e.ringSeq \in 0 .. RingSeqBase - 1
  BY DEF Entry
<1>2. /\ (e.ringSeq + 1) % RingSeqBase # e.ringSeq
      /\ (((e.ringSeq + 1) % RingSeqBase) + 1) % RingSeqBase # e.ringSeq
  BY <1>1, SeqMoves
<1>3. r \in Entry
  BY SettledIsSound
<1>4. r = e \/ /\ r.protocol = e.protocol /\ r.commandExit = e.commandExit /\ r.deferred = e.deferred
               /\ r.ringCommand # None
               /\ r.ringSeq = IF e.ringCommand # None THEN e.ringSeq ELSE (e.ringSeq + 1) % RingSeqBase
  BY DEF RingSettled, IsWatching, WatchedBy, LatchRing, Entry
<1>5. CASE r = e
  BY <1>5, FlushCounts
<1>6. CASE /\ r.protocol = e.protocol /\ r.commandExit = e.commandExit /\ r.deferred = e.deferred
           /\ r.ringCommand # None
           /\ r.ringSeq = IF e.ringCommand # None THEN e.ringSeq ELSE (e.ringSeq + 1) % RingSeqBase
  <2> HIDE DEF r
  <2>1. /\ f.commandExit = r.commandExit /\ f.ringCommand = r.ringCommand
        /\ \/ f.protocol = r.protocol /\ f.ringSeq = r.ringSeq
           \/ /\ r.deferred /\ f.protocol = "ALERT_RINGING"
              /\ f.ringSeq = IF r.protocol = "ALERT_RINGING" THEN r.ringSeq
                             ELSE (r.ringSeq + 1) % RingSeqBase
    BY <1>3, FlushFields DEF Entry
  <2>2. e.ringCommand # None => ~e.deferred
    BY DEF SoundEntry, Ringing
  <2> HIDE DEF f
  <2>3. Counts(e, f)
    BY <1>2, <1>6, <2>1, <2>2 DEF Counts, LatchedTo
  <2> QED BY <2>3, FlushCounts DEF f, r
<1> QED BY <1>4, <1>5, <1>6

\* So does the rule for a finished command, of which only an armed one rings.
LEMMA FinishedCounts ==
  ASSUME NEW id, NEW e \in Entry, NEW armed, NEW ranLong, e.commandExit # "ALERT_RINGING" \/ ~armed
  PROVE  /\ Counts(e, RingFinished(id, e, armed, ranLong))
         /\ RingFinished(id, e, armed, ranLong).watch = e.watch
<1> DEFINE r == ApplyCommandExitRinging(e)
           f == Flush(id, r)
<1>1. e.ringSeq \in 0 .. RingSeqBase - 1
  BY DEF Entry
<1>2. /\ (e.ringSeq + 1) % RingSeqBase \in 0 .. RingSeqBase - 1
      /\ (e.ringSeq + 1) % RingSeqBase # e.ringSeq
      /\ (((e.ringSeq + 1) % RingSeqBase) + 1) % RingSeqBase # e.ringSeq
  BY <1>1, SeqMoves
<1>3. CASE armed /\ e.commandExit # "ALERT_RINGING"
  <2>1. /\ r \in Entry /\ r.protocol = e.protocol /\ r.commandExit = "ALERT_RINGING"
        /\ r.ringCommand = e.ringCommand /\ r.ringSeq = (e.ringSeq + 1) % RingSeqBase /\ r.watch = e.watch
    BY <1>2, <1>3 DEF ApplyCommandExitRinging, LatchRing, Entry
  <2> HIDE DEF r
  <2>2. /\ f.commandExit = r.commandExit /\ f.ringCommand = r.ringCommand /\ f.watch = r.watch
        /\ \/ f.protocol = r.protocol /\ f.ringSeq = r.ringSeq
           \/ /\ f.protocol = "ALERT_RINGING"
              /\ f.ringSeq = IF r.protocol = "ALERT_RINGING" THEN r.ringSeq
                             ELSE (r.ringSeq + 1) % RingSeqBase
    BY <2>1, FlushFields, WatchIsKept DEF Entry
  <2>3. RingFinished(id, e, armed, ranLong) \in {f, e}
    BY DEF RingFinished, f, r
  <2> HIDE DEF f
  <2>4. Counts(e, f) /\ f.watch = e.watch
    BY <1>2, <1>3, <2>1, <2>2 DEF Counts, LatchedTo
  <2> QED BY <2>3, <2>4 DEF Counts, LatchedTo
<1>4. CASE ~armed
  BY <1>4 DEF RingFinished, Counts, LatchedTo
<1> QED BY <1>3, <1>4

\* So does the rule for a notification (deferOrDeliverNotification).
LEMMA NotifiedCounts ==
  ASSUME NEW id, NEW e \in Entry
  PROVE  Counts(e, RingNotified(id, e))
<1>1. e.ringSeq \in 0 .. RingSeqBase - 1
  BY DEF Entry
<1>2. (e.ringSeq + 1) % RingSeqBase # e.ringSeq
  BY <1>1, SeqMoves
<1> QED BY <1>2 DEF RingNotified, ApplyProtocolRinging, LatchRing, Entry, Counts, LatchedTo

\* Releasing the track an await resolves on counts nothing (consumeAwaitableRing).
LEMMA ConsumeKeeps ==
  ASSUME NEW e \in Entry, NEW cause \in {"bell", "exit", "quiet"}
  PROVE  Silent(e, Consumed(e, cause)) /\ SameChannel(e, Consumed(e, cause))
BY DEF Consumed, ReleaseProtocol, ReleaseCommandExit, ReleaseWatching, ResetDetector, Entry, Silent,
       SameChannel, LatchedTo

\* What a handler of one Session leaves of the others (getOrCreateEntry).
LEMMA PutFacts ==
  ASSUME Inv, NEW id \in Sessions, NEW f, Put(id, f)
  PROVE  /\ live' = live \cup {id}
         /\ \A s \in Sessions : entry'[s] = IF s = id THEN f ELSE entry[s]
BY DEF Inv, TypeOK, Put

\* What the end of a command does to its entry, claimed or not (finishCommandExitWatch).
LEMMA FinishedFacts ==
  ASSUME Inv, disposed = FALSE, NEW id \in Sessions, NEW ranLong \in BOOLEAN
  PROVE  /\ Finished(id, ranLong).watch = NoWatch
         /\ Counts(entry[id], Finished(id, ranLong))
         /\ ~entry[id].watch.running \/ Claimed(id, "commandFinished") =>
              Finished(id, ranLong) = ResetDetector(Disarmed(entry[id]))
<1> DEFINE e == entry[id]
           d == Disarmed(e)
           armed == e.commandExit = "COMMAND_EXIT_ARMED"
           r == IF e.watch.running /\ ~Claimed(id, "commandFinished")
                THEN RingFinished(id, d, armed, ranLong) ELSE d
<1>1. e \in Entry /\ SoundEntry(e)
  BY EntryFacts
<1>2. /\ d \in Entry /\ SoundEntry(d) /\ d.watch = NoWatch
      /\ d.protocol = e.protocol /\ d.ringCommand = e.ringCommand /\ d.ringSeq = e.ringSeq
      /\ d.commandExit = "ALERT_RINGING" <=> e.commandExit = "ALERT_RINGING"
      /\ d.commandExit # "ALERT_RINGING" \/ ~armed
  <2> HIDE DEF e
  <2> QED BY <1>1 DEF Disarmed, Entry, Watch, SoundEntry, Held, Ringing
<1> HIDE DEF d
<1>3. r \in Entry /\ r.watch = NoWatch /\ Counts(d, r)
  <2>1. /\ RingFinished(id, d, armed, ranLong) \in Entry
        /\ Counts(d, RingFinished(id, d, armed, ranLong))
        /\ RingFinished(id, d, armed, ranLong).watch = d.watch
    <3>1. /\ RingFinished(id, d, armed, ranLong) \in Entry
      BY <1>2, FinishedIsSound
    <3>2. /\ Counts(d, RingFinished(id, d, armed, ranLong))
          /\ RingFinished(id, d, armed, ranLong).watch = d.watch
      <4> HIDE DEF armed
      <4> QED BY <1>2, FinishedCounts
    <3> QED BY <3>1, <3>2
  <2> QED BY <1>2, <2>1 DEF Counts, LatchedTo
<1>4. Finished(id, ranLong) = ResetDetector(r)
  BY DEF Finished, d
<1>5. ~e.watch.running \/ Claimed(id, "commandFinished") => r = d
  OBVIOUS
<1> HIDE DEF r
<1>6. /\ ResetDetector(r).watch = r.watch /\ ResetDetector(r).protocol = r.protocol
      /\ ResetDetector(r).commandExit = r.commandExit /\ ResetDetector(r).ringCommand = r.ringCommand
      /\ ResetDetector(r).ringSeq = r.ringSeq
  BY <1>3 DEF ResetDetector, Entry
<1>7. Counts(e, ResetDetector(r))
  BY <1>2, <1>3, <1>6 DEF Counts, LatchedTo
<1> QED BY <1>3, <1>4, <1>5, <1>6, <1>7 DEF d

\* No await enters its grace window except when it is parked (settleAwait, onData).
GraceKept == \A w \in Waiters : wait'[w].grace => wait'[w] # Free /\ wait[w].grace
\* Whoever leaves, settles or hears output only loses a grace window.
LEMMA GraceIsKept ==
  ASSUME TypeOK
  PROVE  /\ \A S, outcome : Settle(S, outcome) => GraceKept
         /\ NobodySettles => GraceKept
         /\ \A w, outcome : Answer(w, outcome) => GraceKept
         /\ \A S : EndGrace(S) => GraceKept /\ \A w \in S \cap Waiters : ~wait'[w].grace
<1>1. \A w \in Waiters : wait[w] \in Wait /\ (wait[w].grace => wait[w] # Free)
  BY DEF TypeOK, Free
<1>2. \A S, outcome : Settle(S, outcome) => GraceKept
  BY <1>1 DEF Settle, GraceKept, Free
<1>3. \A w, outcome : Answer(w, outcome) => GraceKept
  BY <1>1 DEF Answer, GraceKept
<1>4. ASSUME NEW S, EndGrace(S) PROVE GraceKept /\ \A w \in S \cap Waiters : ~wait'[w].grace
  <2>1. \A x \in Wait : ~[x EXCEPT !.grace = FALSE].grace
    BY DEF Wait, Free
  <2>2. \A w \in Waiters : wait'[w] = IF w \in S THEN [wait[w] EXCEPT !.grace = FALSE] ELSE wait[w]
    BY <1>4 DEF EndGrace
  <2>3. \A w \in S \cap Waiters : ~wait'[w].grace
    BY <1>1, <2>1, <2>2
  <2> QED BY <1>1, <2>2, <2>3 DEF GraceKept
<1> QED BY <1>2, <1>3, <1>4 DEF NobodySettles

\* Most handlers leave the command watch, or end it.
LEMMA MoreFromPut ==
  ASSUME Inv, More, NEW id \in Sessions, NEW f, Put(id, f), f.watch \in {entry[id].watch, NoWatch},
         attentionId' = attentionId, WaitsKept, GraceKept
  PROVE  More'
<1>1. /\ live' = live \cup {id}
      /\ \A s \in Sessions : entry'[s] = IF s = id THEN f ELSE entry[s]
  BY PutFacts
<1>2. AbsentIsNew'
  BY <1>1 DEF More, AbsentIsNew
<1>3. \A s \in Sessions : entry'[s].watch \in {entry[s].watch, NoWatch}
  BY <1>1
<1>4. SeenWhileAttended'
  BY <1>3 DEF More, SeenWhileAttended, NoWatch
<1>5. GraceIsIdle'
  <2> SUFFICES ASSUME NEW w \in Waiters, wait'[w].grace PROVE ~entry'[wait'[w].id].watch.running
    BY DEF GraceIsIdle
  <2>1. wait'[w] # Free /\ wait[w] # Free /\ wait[w].grace /\ wait'[w].id = wait[w].id
    BY DEF GraceKept, WaitsKept
  <2>2. wait[w].id \in Sessions /\ ~entry[wait[w].id].watch.running
    BY <2>1 DEF Inv, TypeOK, Wait, More, GraceIsIdle
  <2> QED BY <1>3, <2>1, <2>2 DEF NoWatch
<1> QED BY <1>2, <1>4, <1>5 DEF More

\* The handlers of the terminal and the timers.
LEMMA TerminalKeepsMore ==
  ASSUME Inv, More, disposed = FALSE, NEW id \in Sessions, NEW d \in Detector,
         NEW argv0 \in Commands \cup {None}, NEW ranLong \in BOOLEAN,
         \/ Data(id, d) \/ Resize(id) \/ DetectorTimer(id, d) \/ DetectorSettles(id) \/ DeferredTimer(id)
         \/ Notification(id) \/ EmptyReport(id) \/ ProgressActive(id) \/ ProgressEnds(id) \/ CommandLine(id)
         \/ CommandStart(id, argv0) \/ CommandFinish(id, ranLong) \/ Exit(id, ranLong)
  PROVE  More'
<1> DEFINE e == entry[id]
<1>1. e \in Entry /\ SoundEntry(e) /\ TypeOK
  BY EntryFacts DEF Inv
<1>2. CASE Data(id, d)
  <2>1. WaitsKept /\ GraceKept
    <3>1. {w \in Parked(id) : wait[w].until = "quiet"} \in SUBSET Parked(id)
      OBVIOUS
    <3> QED BY <1>1, <1>2, <3>1, EndGraceKeepsWaits, GraceIsKept DEF Data
  <2>2. [e EXCEPT !.detector = d, !.outputSinceRing = e.ringCommand # None].watch = e.watch
    BY <1>1 DEF Entry
  <2> QED BY <1>2, <2>1, <2>2, MoreFromPut DEF Data
<1>3. CASE Resize(id) \/ EmptyReport(id) \/ CommandLine(id)
  <2>1. WaitsKept /\ GraceKept
    BY <1>1, <1>3, NobodyKeepsWaits, GraceIsKept DEF Resize, EmptyReport, CommandLine
  <2> QED BY <1>3, <2>1, MoreFromPut DEF Resize, EmptyReport, CommandLine
<1>4. CASE DetectorTimer(id, d)
  <2>1. WaitsKept /\ GraceKept
    BY <1>1, <1>4, NobodyKeepsWaits, GraceIsKept DEF DetectorTimer
  <2>2. [e EXCEPT !.detector = d].watch = e.watch
    BY <1>1 DEF Entry
  <2> QED BY <1>4, <2>1, <2>2, MoreFromPut DEF DetectorTimer
<1>5. CASE DetectorSettles(id)
  <2> DEFINE r == IF Claimed(id, "settled") THEN e ELSE RingSettled(id, e)
             f == Flush(id, r)
  <2>1. WaitsKept /\ GraceKept
    BY <1>1, <1>5, SettleKeepsWaits, GraceIsKept DEF DetectorSettles, Outcome
  <2>2. r \in Entry /\ Held(r) /\ r.watch = e.watch
    BY <1>1, SettledIsSound, WatchIsKept DEF SoundEntry
  <2>3. f \in Entry /\ f.watch = e.watch
    <3> HIDE DEF r
    <3> QED BY <2>2, FlushIsSound, WatchIsKept
  <2>4. ResetDetector(f).watch = e.watch
    <3> HIDE DEF f
    <3> QED BY <2>3, WatchIsKept
  <2>5. Put(id, ResetDetector(f)) /\ attentionId' = attentionId
    BY <1>5 DEF DetectorSettles
  <2> HIDE DEF f
  <2> QED BY <2>1, <2>4, <2>5, MoreFromPut
<1>6. CASE DeferredTimer(id)
  <2>1. WaitsKept /\ GraceKept
    BY <1>1, <1>6, NobodyKeepsWaits, GraceIsKept DEF DeferredTimer
  <2> QED BY <1>1, <1>6, <2>1, WatchIsKept, MoreFromPut DEF DeferredTimer
<1>7. ASSUME NEW g \in Entry, g.watch = e.watch, DispatchNotification(id, g), attentionId' = attentionId
      PROVE  More'
  <2>1. WaitsKept /\ GraceKept
    BY <1>1, <1>7, SettleKeepsWaits, GraceIsKept DEF DispatchNotification, Outcome
  <2> QED BY <1>7, <2>1, WatchIsKept, MoreFromPut DEF DispatchNotification
<1>8. CASE Notification(id) \/ ProgressEnds(id)
  <2>1. CycleOver(e) \in Entry /\ CycleOver(e).watch = e.watch
    BY <1>1 DEF CycleOver, Entry
  <2> QED BY <1>1, <1>7, <1>8, <2>1 DEF Notification, ProgressEnds
<1>9. CASE ProgressActive(id)
  <2>1. WaitsKept /\ GraceKept
    BY <1>1, <1>9, NobodyKeepsWaits, GraceIsKept DEF ProgressActive
  <2>2. [e EXCEPT !.progress = TRUE, !.protocol = "OSC_NOTIF_BUSY"].watch = e.watch
    BY <1>1 DEF Entry
  <2> QED BY <1>9, <2>1, <2>2, MoreFromPut DEF ProgressActive
<1>10. CASE CommandStart(id, argv0)
  <2> DEFINE w0 == [argv0 |-> argv0, seen |-> HasAttention(id), running |-> TRUE]
             g == [e EXCEPT !.commandExit = IF @ = "ALERT_RINGING" THEN @ ELSE "IDLE", !.watch = w0]
  <2>1. WaitsKept /\ GraceKept /\ \A w \in Parked(id) : ~wait'[w].grace
    BY <1>1, <1>10, EndGraceKeepsWaits, GraceIsKept DEF CommandStart, Parked
  <2>2. ResetDetector(g).watch = w0
    <3>1. w0 \in Watch
      BY DEF Watch, HasAttention
    <3>2. g \in Entry /\ g.watch = w0
      BY <1>1, <3>1 DEF Entry
    <3> HIDE DEF g, w0
    <3> QED BY <3>2, WatchIsKept
  <2>3. Put(id, ResetDetector(g)) /\ attentionId' = attentionId
    BY <1>10 DEF CommandStart
  <2> HIDE DEF g
  <2>4. live' = live \cup {id} /\ \A s \in Sessions : entry'[s] = IF s = id THEN ResetDetector(g) ELSE entry[s]
    BY <2>3, PutFacts
  <2>5. AbsentIsNew'
    BY <2>4 DEF More, AbsentIsNew
  <2>6. SeenWhileAttended'
    <3>1. attentionId = id => ResetDetector(g).watch.seen
      <4> SUFFICES ASSUME attentionId = id PROVE ResetDetector(g).watch.seen
        OBVIOUS
      <4>1. HasAttention(id) = TRUE
        BY DEF HasAttention
      <4>2. w0 = [argv0 |-> argv0, seen |-> TRUE, running |-> TRUE]
        BY <4>1
      <4> QED BY <2>2, <4>2
    <3> QED BY <2>3, <2>4, <3>1 DEF More, SeenWhileAttended
  <2>7. GraceIsIdle'
    <3> SUFFICES ASSUME NEW w \in Waiters, wait'[w].grace PROVE ~entry'[wait'[w].id].watch.running
      BY DEF GraceIsIdle
    <3>1. wait'[w] # Free /\ wait[w] # Free /\ wait[w].grace /\ wait'[w].id = wait[w].id /\ wait[w].id # id
      BY <2>1 DEF GraceKept, WaitsKept, Parked
    <3> QED BY <2>4, <3>1 DEF Inv, TypeOK, Wait, More, GraceIsIdle
  <2> QED BY <2>5, <2>6, <2>7 DEF More
<1>11. CASE CommandFinish(id, ranLong) \/ Exit(id, ranLong)
  <2>1. WaitsKept /\ GraceKept
    <3>1. (IF entry[id].watch.running THEN "exit" ELSE "died") \in Outcome /\ "exit" \in Outcome
      BY DEF Outcome
    <3> QED BY <1>1, <1>11, <3>1, SettleKeepsWaits, GraceIsKept DEF CommandFinish, Exit
  <2> QED BY <1>11, <2>1, FinishedFacts, MoreFromPut DEF CommandFinish, Exit
<1> QED BY <1>2, <1>3, <1>4, <1>5, <1>6, <1>8, <1>9, <1>10, <1>11

\* Attention passes: its new holder has seen what runs (setAttention, markCommandExitSeen).
LEMMA AttendedWatch ==
  ASSUME NEW e \in Entry
  PROVE  /\ Attended(e).watch.running <=> e.watch.running
         /\ Attended(e).watch.running => Attended(e).watch.seen
         /\ Armed(e).watch = e.watch
<1> DEFINE c == ClearAllRings(e)
           seen == [c EXCEPT !.watch = IF @.running THEN [@ EXCEPT !.seen = TRUE] ELSE @,
                             !.commandExit = IF c.watch.running /\ @ = "COMMAND_EXIT_ARMED" THEN "IDLE" ELSE @]
<1>1. c.watch = e.watch /\ DOMAIN c = DOMAIN e
  <2>1. DOMAIN c = DOMAIN e
    BY DEF ClearAllRings, ReleaseProtocol, ReleaseCommandExit, ReleaseWatching, ResetDetector, Entry
  <2> QED BY <2>1, ClearKeeps
<1>2. e.watch \in Watch
  BY DEF Entry
<1>3. e.watch.running => [e.watch EXCEPT !.seen = TRUE].seen /\ [e.watch EXCEPT !.seen = TRUE].running
  BY <1>2 DEF Watch, NoWatch
<1> HIDE DEF c
<1>4. seen.watch = (IF e.watch.running THEN [e.watch EXCEPT !.seen = TRUE] ELSE e.watch) /\ DOMAIN seen = DOMAIN e
  BY <1>1 DEF Entry
<1> HIDE DEF seen
<1>5. Attended(e) \in {seen, [seen EXCEPT !.dismissed = TRUE, !.todo = TRUE]}
  BY DEF Attended, seen, c
<1>6. Attended(e).watch = seen.watch
  BY <1>4, <1>5 DEF Entry
<1>7. Armed(e).watch = e.watch
  BY DEF Armed, Entry
<1> QED BY <1>3, <1>4, <1>6, <1>7

\* What the user and the host do to the three facts.
LEMMA ControlKeepsMore ==
  ASSUME Inv, More, disposed = FALSE, NEW id \in Sessions,
         NEW todo \in BOOLEAN, NEW n \in {None, "protocol", "COMMAND_EXIT"},
         DismissAlert(id) \/ ToggleTodo(id) \/ MarkTodo(id) \/ ClearTodo(id) \/ Seed(id, todo, n)
  PROVE  More'
<1> DEFINE e == entry[id]
           c == ClearAllRings(e)
<1>1. e \in Entry /\ SoundEntry(e) /\ Held(e) /\ TypeOK
  BY EntryFacts DEF Inv, SoundEntry
<1>2. c \in Entry /\ c.watch = e.watch
  BY <1>1, ClearIsSound
<1>3. WaitsKept /\ GraceKept
  BY <1>1, NobodyKeepsWaits, GraceIsKept DEF DismissAlert, ToggleTodo, MarkTodo, ClearTodo, SetTodo, Seed
<1>4. CASE DismissAlert(id)
  <2>1. [c EXCEPT !.todo = @ \/ Ringing(e), !.dismissed = FALSE].watch = e.watch
    <3> HIDE DEF c
    <3> QED BY <1>2 DEF Entry
  <2> QED BY <1>3, <1>4, <2>1, MoreFromPut DEF DismissAlert
<1>5. ASSUME NEW t, SetTodo(id, t) PROVE More'
  <2>1. [c EXCEPT !.todo = t, !.notification = IF t THEN @ ELSE None].watch = e.watch
    <3> HIDE DEF c
    <3> QED BY <1>2 DEF Entry
  <2> QED BY <1>3, <1>5, <2>1, MoreFromPut DEF SetTodo
<1>6. CASE Seed(id, todo, n)
  <2>1. [NewEntry EXCEPT !.detector = Reset(e.detector), !.ringSeq = e.ringSeq, !.dismissed = e.dismissed,
                         !.todo = todo, !.notification = n].watch = NoWatch
    BY DEF NewEntry
  <2> QED BY <1>3, <1>6, <2>1, MoreFromPut DEF Seed
<1> QED BY <1>4, <1>5, <1>6 DEF ToggleTodo, MarkTodo, ClearTodo

\* A step that leaves every command as it runs.
LEMMA MoreFromAll ==
  ASSUME Inv, More, WaitsKept, GraceKept, live \subseteq live',
         \A s \in Sessions : s \notin live' => entry'[s] = entry[s],
         \A s \in Sessions : entry'[s].watch.running <=> entry[s].watch.running,
         \A s \in Sessions : attentionId' = s /\ entry'[s].watch.running => entry'[s].watch.seen
  PROVE  More'
<1>1. AbsentIsNew'
  BY DEF More, AbsentIsNew
<1>2. SeenWhileAttended'
  BY DEF SeenWhileAttended
<1>3. GraceIsIdle'
  <2> SUFFICES ASSUME NEW w \in Waiters, wait'[w].grace PROVE ~entry'[wait'[w].id].watch.running
    BY DEF GraceIsIdle
  <2>1. wait'[w] # Free /\ wait[w] # Free /\ wait[w].grace /\ wait'[w].id = wait[w].id
    BY DEF GraceKept, WaitsKept
  <2> QED BY <2>1 DEF Inv, TypeOK, Wait, More, GraceIsIdle
<1> QED BY <1>1, <1>2, <1>3 DEF More

\* Attention and the settings reach several Sessions at once.
LEMMA SharedKeepsMore ==
  ASSUME Inv, More, disposed = FALSE, NEW id \in Sessions, NEW names \in SUBSET Commands, NEW on \in BOOLEAN,
         NEW helper \in BOOLEAN,
         \/ Attend(id) \/ LoseAttention \/ SetWatchedCommands(names) \/ SetDeferAlertsUntilQuiet(on)
         \/ SetHelper(id, helper)
  PROVE  More'
<1>1. TypeOK /\ \A s \in Sessions : entry[s] \in Entry /\ (entry[s].watch.running \in BOOLEAN)
  BY EntryFacts, WatchFields DEF Inv, Entry
<1>2. WaitsKept /\ GraceKept
  BY <1>1, NobodyKeepsWaits, GraceIsKept
     DEF Attend, LoseAttention, SetWatchedCommands, SetDeferAlertsUntilQuiet, SetHelper
<1>3. CASE Attend(id)
  <2>1. /\ live' = live \cup {id} /\ attentionId' = id /\ entry'[id] = Attended(entry[id])
        /\ \A s \in Sessions : s # id => entry'[s] = entry[s] \/ (s \in live /\ entry'[s] = Armed(entry[s]))
    BY <1>3 DEF Attend, ArmsOnLoss
  <2>2. \A s \in Sessions : entry'[s].watch.running <=> entry[s].watch.running
    BY <1>1, <2>1, AttendedWatch
  <2>3. \A s \in Sessions : attentionId' = s /\ entry'[s].watch.running => entry'[s].watch.seen
    BY <1>1, <2>1, AttendedWatch
  <2> QED BY <1>2, <2>1, <2>2, <2>3, MoreFromAll
<1>4. CASE LoseAttention
  <2>1. /\ live' = live /\ attentionId' = None
        /\ \A s \in Sessions : entry'[s] = entry[s] \/ (s \in live /\ entry'[s] = Armed(entry[s]))
    BY <1>4 DEF LoseAttention, ArmsOnLoss
  <2>2. \A s \in Sessions : entry'[s].watch.running <=> entry[s].watch.running
    BY <1>1, <2>1, AttendedWatch
  <2>3. \A s \in Sessions : attentionId' # s
    BY <2>1
  <2> QED BY <1>2, <2>1, <2>2, <2>3, MoreFromAll
<1>5. CASE SetWatchedCommands(names) \/ SetDeferAlertsUntilQuiet(on)
  <2>1. /\ live' = live /\ attentionId' = attentionId
        /\ \A s \in Sessions : entry'[s] \in {entry[s]} \cup (IF s \in live THEN {Unrung(entry[s]), Flush(s, entry[s])} ELSE {})
    BY <1>5 DEF SetWatchedCommands, SetDeferAlertsUntilQuiet, Unrung
  <2>2. \A s \in Sessions : Unrung(entry[s]).watch = entry[s].watch /\ Flush(s, entry[s]).watch = entry[s].watch
    BY <1>1, WatchIsKept DEF Unrung, Entry
  <2>3. \A s \in Sessions : entry'[s].watch = entry[s].watch /\ (s \notin live' => entry'[s] = entry[s])
    BY <2>1, <2>2
  <2> QED BY <1>2, <2>1, <2>3, MoreFromAll DEF More, SeenWhileAttended
<1>6. CASE SetHelper(id, helper)
  BY <1>2, <1>6, MoreFromAll DEF SetHelper, More, SeenWhileAttended
<1> QED BY <1>3, <1>4, <1>5, <1>6

\* A Session goes away with everything its entry held (remove).
LEMMA RemoveKeepsMore ==
  ASSUME Inv, More, disposed = FALSE, NEW id \in Sessions, Remove(id)
  PROVE  More'
<1>1. WaitsKept /\ GraceKept /\ \A w \in Waiters : wait'[w] # Free => wait[w].id # id
  <2>1. WaitsKept /\ GraceKept
    BY SettleKeepsWaits, GraceIsKept DEF Remove, Inv, Outcome
  <2> QED BY <2>1 DEF Remove, Settle, Parked
<1>2. /\ live' = live \ {id}
      /\ \A s \in Sessions : entry'[s] = IF s = id THEN NewEntry ELSE entry[s]
      /\ attentionId' \in {None, attentionId}
  BY DEF Remove, Inv, TypeOK
<1>3. AbsentIsNew'
  BY <1>2 DEF More, AbsentIsNew
<1>4. SeenWhileAttended'
  BY <1>2 DEF More, SeenWhileAttended, NewEntry, NoWatch
<1>5. GraceIsIdle'
  <2> SUFFICES ASSUME NEW w \in Waiters, wait'[w].grace PROVE ~entry'[wait'[w].id].watch.running
    BY DEF GraceIsIdle
  <2>1. wait'[w] # Free /\ wait[w] # Free /\ wait[w].grace /\ wait'[w].id = wait[w].id /\ wait[w].id # id
    BY <1>1 DEF GraceKept, WaitsKept
  <2> QED BY <1>2, <2>1 DEF Inv, TypeOK, Wait, More, GraceIsIdle
<1> QED BY <1>3, <1>4, <1>5 DEF More

\* An await is in its grace window only where no command runs (awaitCompletion).
LEMMA AwaitKeepsMore ==
  ASSUME Inv, More, disposed = FALSE, NEW w \in Waiters, NEW id \in Sessions, NEW until \in Until,
         NEW outcome \in {"idle", "timeout", "cancelled"},
         AwaitRefused(w, id) \/ AwaitAnswered(w, id, until) \/ AwaitParks(w, id, until) \/ AwaitEnds(w, outcome)
  PROVE  More'
<1>1. entry[id] \in Entry /\ SoundEntry(entry[id]) /\ TypeOK
  BY EntryFacts DEF Inv
<1>2. CASE AwaitRefused(w, id) \/ AwaitEnds(w, outcome)
  <2>1. GraceKept
    BY <1>1, <1>2, GraceIsKept DEF AwaitRefused, AwaitEnds
  <2>2. WaitsKept
    <3>1. CASE AwaitRefused(w, id)
      BY <1>1, <3>1 DEF AwaitRefused, Answer, WaitsKept, TypeOK, Outcome
    <3>2. CASE AwaitEnds(w, outcome)
      BY <1>1, <3>2, SettleKeepsWaits DEF AwaitEnds, Outcome
    <3> QED BY <1>2, <3>1, <3>2
  <2> QED BY <1>2, <2>1, <2>2, MoreFromAll DEF AwaitRefused, AwaitEnds, More, SeenWhileAttended
<1>3. CASE AwaitAnswered(w, id, until)
  <2> DEFINE cause == AwaitableRing(entry[id], until)
  <2>1. cause \in {"bell", "exit", "quiet"} /\ Put(id, Consumed(entry[id], cause)) /\ Answer(w, cause)
    BY <1>3 DEF AwaitAnswered, AwaitableRing
  <2>2. Consumed(entry[id], cause).watch = entry[id].watch
    BY <1>1, <2>1, WatchIsKept
  <2>3. GraceKept
    BY <1>1, <2>1, GraceIsKept
  <2>4. WaitsKept
    <3>1. cause \in Outcome
      BY <2>1 DEF Outcome
    <3> HIDE DEF cause
    <3> QED BY <1>1, <2>1, <3>1 DEF Answer, WaitsKept, TypeOK
  <2>5. attentionId' = attentionId
    BY <1>3 DEF AwaitAnswered
  <2> HIDE DEF cause
  <2> QED BY <2>1, <2>2, <2>3, <2>4, <2>5, MoreFromPut
<1>4. CASE AwaitParks(w, id, until)
  <2>1. /\ live' = live \cup {id} /\ entry' = entry /\ attentionId' = attentionId
        /\ wait' = [wait EXCEPT ![w] = ParkedAwait(id, until)]
    BY <1>1, <1>4 DEF AwaitParks, Put, TypeOK
  <2>2. \A v \in Waiters : wait'[v] = IF v = w THEN ParkedAwait(id, until) ELSE wait[v]
    BY <1>1, <2>1 DEF TypeOK
  <2>3. ParkedAwait(id, until).grace => ~entry[id].watch.running
    BY DEF ParkedAwait
  <2>4. ParkedAwait(id, until).id = id
    BY DEF ParkedAwait
  <2>5. GraceIsIdle'
    BY <2>1, <2>2, <2>3, <2>4 DEF More, GraceIsIdle
  <2> QED BY <2>1, <2>5 DEF More, AbsentIsNew, SeenWhileAttended
<1> QED BY <1>2, <1>3, <1>4

\* The three facts hold at the start and after dispose.
LEMMA EmptyIsMore ==
  ASSUME entry = [id \in Sessions |-> NewEntry], wait = [w \in Waiters |-> Free]
  PROVE  More
BY DEF More, AbsentIsNew, SeenWhileAttended, GraceIsIdle, NewEntry, NoWatch, Free

\* Every step keeps them.
LEMMA MoreStep == Inv /\ More /\ [Next]_vars => More'
<1> SUFFICES ASSUME Inv, More, [Next]_vars PROVE More'
  OBVIOUS
<1>1. CASE UNCHANGED vars
  BY <1>1 DEF vars, More, AbsentIsNew, SeenWhileAttended, GraceIsIdle
<1>2. CASE disposed = FALSE /\ (TerminalEvent \/ TimerEvent \/ UserEvent \/ HostEvent \/ AwaitEvent)
  <2>0. /\ None \in Commands \cup {None} /\ TRUE \in BOOLEAN /\ NewDetector \in Detector /\ {} \in SUBSET Commands
        /\ None \in {None, "protocol", "COMMAND_EXIT"} /\ "quiet" \in Until /\ "idle" \in {"idle", "timeout", "cancelled"}
    BY DEF NewDetector, Detector, QuiesceStatus, Until
  <2>1. CASE TerminalEvent
    BY <1>2, <2>0, <2>1, TerminalKeepsMore DEF TerminalEvent, AnyData
  <2>2. CASE TimerEvent
    <3>1. CASE LoseAttention
      <4>1. attentionId \in Sessions
        BY <3>1 DEF LoseAttention, Inv, TypeOK
      <4> QED BY <1>2, <2>0, <3>1, <4>1, SharedKeepsMore
    <3>2. CASE \E w \in Waiters, outcome \in {"idle", "timeout", "cancelled"} : AwaitEnds(w, outcome)
      <4>1. PICK w \in Waiters, outcome \in {"idle", "timeout", "cancelled"} : AwaitEnds(w, outcome)
        BY <3>2
      <4>2. wait[w].id \in Sessions
        BY <4>1 DEF AwaitEnds, Idle, Inv, TypeOK, Wait
      <4> QED BY <1>2, <2>0, <4>1, <4>2, AwaitKeepsMore
    <3>3. CASE \E id \in Sessions : (\E d \in Detector : DetectorTimer(id, d)) \/ DetectorSettles(id) \/ DeferredTimer(id)
      BY <1>2, <2>0, <3>3, TerminalKeepsMore
    <3> QED BY <2>2, <3>1, <3>2, <3>3 DEF TimerEvent
  <2>3. CASE UserEvent
    <3>1. CASE \E id \in Sessions : Attend(id) \/ DismissAlert(id) \/ ToggleTodo(id) \/ MarkTodo(id) \/ ClearTodo(id)
      BY <1>2, <2>0, <3>1, SharedKeepsMore, ControlKeepsMore
    <3>2. CASE \/ \E names \in SUBSET Commands : SetWatchedCommands(names)
               \/ \E on \in BOOLEAN : SetDeferAlertsUntilQuiet(on)
      <4>1. CASE Sessions = {}
        <5>1. wait' = [w \in Waiters |-> wait[w]]
          BY <3>2 DEF SetWatchedCommands, SetDeferAlertsUntilQuiet, NobodySettles, Settle
        <5>2. \A w \in Waiters : wait[w] = Free
          BY <4>1 DEF Inv, TypeOK, Wait
        <5>3. \A w \in Waiters : ~wait'[w].grace
          BY <5>1, <5>2 DEF Free
        <5> QED BY <4>1, <5>3 DEF More, AbsentIsNew, SeenWhileAttended, GraceIsIdle
      <4>2. CASE Sessions # {}
        BY <1>2, <2>0, <3>2, <4>2, SharedKeepsMore
      <4> QED BY <4>1, <4>2
    <3> QED BY <2>3, <3>1, <3>2 DEF UserEvent
  <2>4. CASE HostEvent
    BY <1>2, <2>0, <2>4, SharedKeepsMore, RemoveKeepsMore, ControlKeepsMore, HelperAssumption DEF HostEvent
  <2>5. CASE AwaitEvent
    BY <1>2, <2>0, <2>5, AwaitKeepsMore DEF AwaitEvent
  <2> QED BY <1>2, <2>1, <2>2, <2>3, <2>4, <2>5
<1>3. CASE Dispose
  BY <1>3, EmptyIsMore DEF Dispose, Settle, Idle, More, AbsentIsNew, SeenWhileAttended, GraceIsIdle, NewEntry, NoWatch, Free
<1>4. CASE Next
  <2>1. disposed = FALSE
    BY <1>4 DEF Next, Inv, TypeOK
  <2> QED BY <1>2, <1>3, <1>4, <2>1 DEF Next
<1> QED BY <1>1, <1>4

\* So they hold of every state the class reaches.
LEMMA MoreHolds == Spec => [](Inv /\ More)
<1>1. Init => Inv /\ More
  BY InitInv, EmptyIsMore DEF Init
<1>2. Inv /\ More /\ [Next]_vars => (Inv /\ More)'
  BY InvStep, MoreStep
<1> QED BY <1>1, <1>2, PTL DEF Spec

-----------------------------------------------------------------------------
(* What listeners hear.  A handler notifies for some Sessions; of every     *)
(* other one the visible state has to be what it was.                       *)

ParkedOn(waits, id) == \E w \in Waiters : waits[w].id = id
SameState(id) == State(id)' = State(id)
Announces ==
  \E S : /\ Publish(S) \/ (S = {} /\ published' = published)
         /\ \A id \in Sessions : id \notin S => SameState(id)

\* Then everybody has heard the current state (notify, lastEmitted).
LEMMA AnnouncesTells ==
  ASSUME PublishedIsCurrent, Announces
  PROVE  PublishedIsCurrent'
<1>1. PICK S : /\ Publish(S) \/ (S = {} /\ published' = published)
               /\ \A id \in Sessions : id \notin S => SameState(id)
  BY DEF Announces
<1> SUFFICES ASSUME NEW id \in Sessions
             PROVE  published'[id] = State(id)' \/ (published'[id] = Unheard /\ State(id)' = DefaultState)
  BY DEF PublishedIsCurrent
<1>2. CASE id \notin S
  <2>1. published'[id] = published[id] /\ State(id)' = State(id)
    BY <1>1, <1>2 DEF Publish, SameState
  <2> QED BY <2>1 DEF PublishedIsCurrent
<1>3. CASE id \in S
  <2>1. published'[id] = IF id \in live' THEN StateOf(id, entry'[id], watched', wait')
                         ELSE IF published[id] \in {Unheard, DefaultState} THEN published[id] ELSE Unheard
    BY <1>1, <1>3 DEF Publish
  <2>2. State(id)' = IF id \in live' THEN StateOf(id, entry'[id], watched', wait') ELSE DefaultState
    BY DEF State
  <2> QED BY <2>1, <2>2
<1> QED BY <1>2, <1>3

Alike(e, f) ==
  /\ f.protocol = e.protocol /\ f.commandExit = e.commandExit /\ f.ringCommand = e.ringCommand
  /\ f.watch = e.watch /\ f.todo = e.todo /\ f.notification = e.notification
  /\ f.dismissed = e.dismissed /\ f.ringSeq = e.ringSeq
  /\ f.detector.status = e.detector.status \/ ~IsWatching(e)
\* Two entries that differ only in what is not shown look the same (getState).
LEMMA AlikeLooksSame ==
  ASSUME NEW id, NEW e, NEW f, Alike(e, f), NEW waits, NEW later, ParkedOn(later, id) <=> ParkedOn(waits, id)
  PROVE  StateOf(id, f, watched, later) = StateOf(id, e, watched, waits)
<1>1. WatchedBy(f, watched) = WatchedBy(e, watched) /\ Ringing(f) = Ringing(e)
  BY DEF Alike, WatchedBy, Ringing
<1>2. StatusOf(f, watched) = StatusOf(e, watched)
  BY <1>1 DEF Alike, StatusOf, IsWatching
<1>3. (\E w \in Waiters : later[w].id = id) = (\E w \in Waiters : waits[w].id = id)
  BY DEF ParkedOn
<1> QED BY <1>1, <1>2, <1>3 DEF StateOf, Alike

\* A Session without an entry and one whose entry is new look the same.
LEMMA NewLooksDefault ==
  ASSUME NEW id, NEW waits, ~ParkedOn(waits, id)
  PROVE  StateOf(id, NewEntry, watched, waits) = DefaultState
<1>1. ~WatchedBy(NewEntry, watched) /\ ~Ringing(NewEntry)
  BY DEF WatchedBy, Ringing, NewEntry, NoWatch
<1>2. StatusOf(NewEntry, watched) = "WATCHING_DISABLED"
  BY <1>1 DEF StatusOf, NewEntry
<1>3. WatchedBy(NewEntry, watched) = FALSE
  BY <1>1 DEF WatchedBy
<1>4. (\E w \in Waiters : waits[w].id = id) = FALSE
  BY DEF ParkedOn
<1> QED BY <1>2, <1>3, <1>4 DEF StateOf, NewEntry, DefaultState

\* A handler that touches one Session's entry and awaits shows nothing of another.
LEMMA OthersLookSame ==
  ASSUME Inv, NEW id \in Sessions, NEW f, Put(id, f), watched' = watched,
         \A s \in Sessions : s # id => (ParkedOn(wait', s) <=> ParkedOn(wait, s))
  PROVE  \A s \in Sessions : s # id => SameState(s)
<1> SUFFICES ASSUME NEW s \in Sessions, s # id PROVE SameState(s)
  OBVIOUS
<1>1. (s \in live' <=> s \in live) /\ entry'[s] = entry[s]
  BY PutFacts
<1>2. StateOf(s, entry[s], watched, wait') = StateOf(s, entry[s], watched, wait)
  BY AlikeLooksSame DEF Alike
<1>3. State(s)' = IF s \in live' THEN StateOf(s, entry'[s], watched', wait') ELSE DefaultState
  BY DEF State
<1> QED BY <1>1, <1>2, <1>3 DEF SameState, State

\* It announces when it notifies for that Session,
LEMMA PutAnnounces ==
  ASSUME Inv, NEW id \in Sessions, NEW f, Put(id, f), watched' = watched, Publish({id}),
         \A s \in Sessions : s # id => (ParkedOn(wait', s) <=> ParkedOn(wait, s))
  PROVE  Announces
BY OthersLookSame DEF Announces

\* or when nothing of it that is shown has changed.
LEMMA UnseenAnnounces ==
  ASSUME Inv, More, disposed = FALSE, NEW id \in Sessions, NEW f, Put(id, f), watched' = watched,
         Publish({}) \/ published' = published, Alike(entry[id], f),
         \A s \in Sessions : ParkedOn(wait', s) <=> ParkedOn(wait, s)
  PROVE  Announces
<1>1. \A s \in Sessions : s # id => SameState(s)
  BY OthersLookSame
<1>2. id \in live' /\ entry'[id] = f
  BY PutFacts
<1>3. State(id)' = StateOf(id, f, watched, wait')
  <2>1. State(id)' = IF id \in live' THEN StateOf(id, entry'[id], watched', wait') ELSE DefaultState
    BY DEF State
  <2> QED BY <1>2, <2>1
<1>4. StateOf(id, f, watched, wait') = StateOf(id, entry[id], watched, wait)
  BY AlikeLooksSame
<1>5. ASSUME id \in live PROVE SameState(id)
  <2>1. State(id) = StateOf(id, entry[id], watched, wait)
    BY <1>5 DEF State
  <2> QED BY <1>3, <1>4, <2>1 DEF SameState
<1>6. ASSUME id \notin live PROVE SameState(id)
  <2>1. entry[id] = NewEntry
    BY <1>6 DEF More, AbsentIsNew
  <2>2. ~ParkedOn(wait, id)
    BY <1>6 DEF ParkedOn, Inv, NobodyWaitsOnTheDead, Idle, Free, TypeOK
  <2>3. StateOf(id, entry[id], watched, wait) = DefaultState
    BY <2>1, <2>2, NewLooksDefault
  <2>4. State(id) = DefaultState
    BY <1>6 DEF State
  <2> QED BY <1>3, <1>4, <2>3, <2>4 DEF SameState
<1> QED BY <1>1, <1>5, <1>6 DEF Announces

\* Settling slots or ending graces concerns the Sessions of those slots only.
LEMMA ParkedElsewhere ==
  ASSUME TypeOK
  PROVE  /\ \A S, outcome : Settle(S, outcome) =>
              \A s \in Sessions : (\A w \in S \cap Waiters : wait[w].id # s) => (ParkedOn(wait', s) <=> ParkedOn(wait, s))
         /\ NobodySettles => \A s \in Sessions : ParkedOn(wait', s) <=> ParkedOn(wait, s)
         /\ \A S : EndGrace(S) => \A s \in Sessions : ParkedOn(wait', s) <=> ParkedOn(wait, s)
<1>1. \A s \in Sessions : Free.id # s
  BY DEF Free
<1>2. ASSUME NEW S, NEW outcome, Settle(S, outcome), NEW s \in Sessions, \A w \in S \cap Waiters : wait[w].id # s
      PROVE  ParkedOn(wait', s) <=> ParkedOn(wait, s)
  BY <1>1, <1>2 DEF Settle, ParkedOn
<1>3. NobodySettles => \A s \in Sessions : ParkedOn(wait', s) <=> ParkedOn(wait, s)
  BY <1>2 DEF NobodySettles
<1>4. ASSUME NEW S, EndGrace(S), NEW s \in Sessions PROVE ParkedOn(wait', s) <=> ParkedOn(wait, s)
  <2>1. \A x \in Wait : [x EXCEPT !.grace = FALSE].id = x.id
    BY DEF Wait, Free
  <2>2. \A w \in Waiters : wait[w] \in Wait
    BY DEF TypeOK
  <2>3. \A w \in Waiters : wait'[w].id = wait[w].id
    BY <1>4, <2>1, <2>2 DEF EndGrace
  <2> QED BY <2>3 DEF ParkedOn
<1> QED BY <1>2, <1>3, <1>4

\* What the terminal and the timers do is announced when it can be seen.
LEMMA TerminalAnnounces ==
  ASSUME Inv, More, disposed = FALSE, NEW id \in Sessions, NEW d \in Detector,
         NEW argv0 \in Commands \cup {None}, NEW ranLong \in BOOLEAN,
         \/ Data(id, d) \/ Resize(id) \/ DetectorTimer(id, d) \/ DetectorSettles(id) \/ DeferredTimer(id)
         \/ Notification(id) \/ EmptyReport(id) \/ ProgressActive(id) \/ ProgressEnds(id) \/ CommandLine(id)
         \/ CommandStart(id, argv0) \/ CommandFinish(id, ranLong) \/ Exit(id, ranLong)
  PROVE  Announces
<1> DEFINE e == entry[id]
           Elsewhere == \A s \in Sessions : s # id => (ParkedOn(wait', s) <=> ParkedOn(wait, s))
           Everywhere == \A s \in Sessions : ParkedOn(wait', s) <=> ParkedOn(wait, s)
<1>1. e \in Entry /\ SoundEntry(e) /\ Held(e) /\ TypeOK
  BY EntryFacts DEF Inv, SoundEntry
<1>2. watched' = watched
  BY DEF Data, Resize, DetectorTimer, DetectorSettles, DeferredTimer, Notification, EmptyReport,
         ProgressActive, ProgressEnds, CommandLine, CommandStart, CommandFinish, Exit, settings
<1>3. \A S, outcome : S \subseteq Parked(id) /\ Settle(S, outcome) => Elsewhere
  BY <1>1, ParkedElsewhere DEF Parked
<1>4. Alike(e, e)
  BY DEF Alike
<1>5. CASE Data(id, d)
  <2> DEFINE f == [e EXCEPT !.detector = d, !.outputSinceRing = e.ringCommand # None]
  <2>1. Everywhere
    BY <1>1, <1>5, ParkedElsewhere DEF Data
  <2>2. Put(id, f)
    BY <1>5 DEF Data
  <2>3. CASE Publish({id})
    <3> HIDE DEF f
    <3> QED BY <1>2, <2>1, <2>2, <2>3, PutAnnounces
  <2>4. CASE d.status = e.detector.status \/ ~IsWatching(e)
    <3>1. Alike(e, f)
      BY <1>1, <2>4 DEF Alike, Entry
    <3>2. Publish({})
      BY <1>5, <2>4 DEF Data
    <3> HIDE DEF f
    <3> QED BY <1>2, <2>1, <2>2, <3>1, <3>2, UnseenAnnounces
  <2> QED BY <1>5, <2>3, <2>4 DEF Data
<1>6. CASE Resize(id) \/ EmptyReport(id)
  <2>1. Everywhere
    BY <1>1, <1>6, ParkedElsewhere DEF Resize, EmptyReport
  <2> QED BY <1>2, <1>4, <1>6, <2>1, UnseenAnnounces DEF Resize, EmptyReport
<1>7. CASE DetectorTimer(id, d)
  <2> DEFINE f == [e EXCEPT !.detector = d]
  <2>1. Everywhere
    BY <1>1, <1>7, ParkedElsewhere DEF DetectorTimer
  <2>2. Put(id, f)
    BY <1>7 DEF DetectorTimer
  <2>3. CASE Publish({id})
    <3> HIDE DEF f
    <3> QED BY <1>2, <2>1, <2>2, <2>3, PutAnnounces
  <2>4. CASE d.status = e.detector.status \/ ~IsWatching(e)
    <3>1. Alike(e, f)
      BY <1>1, <2>4 DEF Alike, Entry
    <3>2. Publish({})
      BY <1>7, <2>4 DEF DetectorTimer
    <3> HIDE DEF f
    <3> QED BY <1>2, <2>1, <2>2, <3>1, <3>2, UnseenAnnounces
  <2> QED BY <1>7, <2>3, <2>4 DEF DetectorTimer
<1>8. CASE DetectorSettles(id)
  <2> DEFINE r == IF Claimed(id, "settled") THEN e ELSE RingSettled(id, e)
             f == ResetDetector(Flush(id, r))
  <2>1. Settle(Claimants(id, "settled"), "quiet") /\ Put(id, f)
    BY <1>8 DEF DetectorSettles
  <2>2. Elsewhere
    BY <1>3, <2>1 DEF Claimants
  <2>3. CASE Publish({id})
    <3> HIDE DEF f
    <3> QED BY <1>2, <2>1, <2>2, <2>3, PutAnnounces
  <2>4. CASE ~Claimed(id, "settled") /\ ~r.deferred /\ ~IsWatching(e) /\ Publish({})
    <3>1. r = e
      BY <2>4 DEF RingSettled
    <3>2. Flush(id, r) = [e EXCEPT !.deferred = FALSE]
      BY <2>4, <3>1 DEF Flush
    <3>3. Alike(e, f)
      <4> DEFINE g == [e EXCEPT !.deferred = FALSE]
      <4>1. g \in Entry /\ Alike(e, g)
        BY <1>1 DEF Entry, Alike
      <4>2. f = ResetDetector(g)
        BY <3>2
      <4> HIDE DEF f, g
      <4> QED BY <2>4, <4>1, <4>2 DEF ResetDetector, Entry, Alike
    <3>4. Everywhere
      <4>1. Claimants(id, "settled") = {}
        BY <2>4 DEF Claimed
      <4> QED BY <1>1, <2>1, <4>1, ParkedElsewhere
    <3> HIDE DEF f
    <3> QED BY <1>2, <2>1, <2>4, <3>3, <3>4, UnseenAnnounces
  <2>5. \/ Publish({id})
        \/ ~Claimed(id, "settled") /\ ~r.deferred /\ ~IsWatching(e) /\ Publish({})
    BY <1>8 DEF DetectorSettles
  <2> QED BY <2>3, <2>4, <2>5
<1>9. CASE DeferredTimer(id) \/ ProgressActive(id) \/ CommandLine(id)
  <2>1. Everywhere
    BY <1>1, <1>9, ParkedElsewhere DEF DeferredTimer, ProgressActive, CommandLine
  <2>2. Publish({id}) /\ \E f : Put(id, f)
    BY <1>9 DEF DeferredTimer, ProgressActive, CommandLine
  <2> QED BY <1>2, <2>1, <2>2, PutAnnounces
<1>10. CASE Notification(id) \/ ProgressEnds(id)
  <2>1. /\ Publish({id}) /\ \E f : Put(id, f)
        /\ Settle(Claimants(id, "notification"), "bell")
    BY <1>10 DEF Notification, ProgressEnds, DispatchNotification
  <2>2. Elsewhere
    BY <1>3, <2>1 DEF Claimants
  <2> QED BY <1>2, <2>1, <2>2, PutAnnounces
<1>11. CASE CommandStart(id, argv0)
  <2>1. Everywhere
    BY <1>1, <1>11, ParkedElsewhere DEF CommandStart
  <2>2. Publish({id}) /\ \E f : Put(id, f)
    BY <1>11 DEF CommandStart
  <2> QED BY <1>2, <2>1, <2>2, PutAnnounces
<1>12. CASE CommandFinish(id, ranLong) \/ Exit(id, ranLong)
  <2>1. Put(id, Finished(id, ranLong))
    BY <1>12 DEF CommandFinish, Exit
  <2>2. Elsewhere
    <3>1. \E S, outcome : S \subseteq Parked(id) /\ Settle(S, outcome)
      BY <1>12 DEF CommandFinish, Exit
    <3> QED BY <1>3, <3>1
  <2>3. CASE Publish({id})
    BY <1>2, <2>1, <2>2, <2>3, PutAnnounces
  <2>4. CASE ~e.watch.running /\ Publish({}) /\ \E outcome : Settle({}, outcome)
    <3>1. Everywhere
      BY <1>1, <2>4, ParkedElsewhere
    <3>2. Alike(e, Finished(id, ranLong))
      <4>1. e.watch = NoWatch
        BY <1>1, <2>4 DEF Entry, Watch
      <4>2. Disarmed(e) = e
        <5>1. Disarmed(e).commandExit = e.commandExit
          BY <1>1, <4>1 DEF Disarmed, Entry, Held, NoWatch
        <5> QED BY <1>1, <4>1, <5>1 DEF Disarmed, Entry
      <4>3. Finished(id, ranLong) = ResetDetector(e)
        BY <2>4, <4>2, FinishedFacts
      <4>4. ~IsWatching(e)
        BY <4>1 DEF IsWatching, WatchedBy, NoWatch
      <4> QED BY <1>1, <4>3, <4>4 DEF ResetDetector, Entry, Alike
    <3> QED BY <1>2, <2>1, <2>4, <3>1, <3>2, UnseenAnnounces
  <2>5. Publish({id}) \/ (~e.watch.running /\ Publish({}) /\ \E outcome : Settle({}, outcome))
    <3>1. CASE CommandFinish(id, ranLong)
      BY <3>1 DEF CommandFinish
    <3>2. CASE Exit(id, ranLong)
      BY <3>2 DEF Exit
    <3> QED BY <1>12, <3>1, <3>2
  <2> QED BY <2>3, <2>4, <2>5
<1> QED BY <1>5, <1>6, <1>7, <1>8, <1>9, <1>10, <1>11, <1>12

\* The same for the user's controls and the host's.
LEMMA ControlAnnounces ==
  ASSUME Inv, More, disposed = FALSE, NEW id \in Sessions,
         NEW todo \in BOOLEAN, NEW n \in {None, "protocol", "COMMAND_EXIT"},
         DismissAlert(id) \/ ToggleTodo(id) \/ MarkTodo(id) \/ ClearTodo(id) \/ Seed(id, todo, n)
  PROVE  Announces
<1> DEFINE e == entry[id]
<1>1. e \in Entry /\ TypeOK
  BY EntryFacts DEF Inv
<1>2. /\ watched' = watched
      /\ \A s \in Sessions : ParkedOn(wait', s) <=> ParkedOn(wait, s)
  BY <1>1, ParkedElsewhere
     DEF DismissAlert, ToggleTodo, MarkTodo, ClearTodo, SetTodo, Seed, settings
<1>3. \E f : Put(id, f)
  BY DEF DismissAlert, ToggleTodo, MarkTodo, ClearTodo, SetTodo, Seed
<1>4. CASE Publish({id})
  BY <1>2, <1>3, <1>4, PutAnnounces
<1>5. ~Ringing(e) => ClearAllRings(e) = [e EXCEPT !.deferred = FALSE]
  BY <1>1, ClearKeeps
<1>6. CASE DismissAlert(id) /\ ~Ringing(e) /\ ~e.dismissed
  <2> DEFINE c == [e EXCEPT !.deferred = FALSE]
             f == [c EXCEPT !.todo = @ \/ Ringing(e), !.dismissed = FALSE]
  <2>1. Put(id, f) /\ Publish({})
    BY <1>5, <1>6 DEF DismissAlert
  <2>2. c \in Entry /\ Alike(e, c) /\ c.dismissed = FALSE
    BY <1>1, <1>6 DEF Entry, Alike
  <2>3. Alike(e, f)
    <3>1. (c.todo \/ Ringing(e)) = c.todo
      BY <1>6, <2>2 DEF Entry
    <3> HIDE DEF c
    <3> QED BY <2>2, <3>1 DEF Entry, Alike
  <2> HIDE DEF f
  <2> QED BY <1>2, <2>1, <2>3, UnseenAnnounces
<1>7. CASE MarkTodo(id) /\ ~Ringing(e) /\ e.todo
  <2> DEFINE c == [e EXCEPT !.deferred = FALSE]
             f == [c EXCEPT !.todo = TRUE, !.notification = IF TRUE THEN @ ELSE None]
  <2>1. Put(id, f) /\ Publish({})
    BY <1>5, <1>7 DEF MarkTodo, SetTodo
  <2>2. c \in Entry /\ Alike(e, c) /\ c.todo = TRUE
    BY <1>1, <1>7 DEF Entry, Alike
  <2>3. Alike(e, f)
    <3> HIDE DEF c
    <3> QED BY <2>2 DEF Entry, Alike
  <2> HIDE DEF f
  <2> QED BY <1>2, <2>1, <2>3, UnseenAnnounces
<1> QED BY <1>4, <1>6, <1>7 DEF DismissAlert, ToggleTodo, MarkTodo, ClearTodo, Seed

\* A Session that stays where it is, with the same entry and awaits, looks the same.
LEMMA UntouchedLooksSame ==
  ASSUME NEW id \in Sessions, id \in live' <=> id \in live, watched' = watched,
         Alike(entry[id], entry'[id]), ParkedOn(wait', id) <=> ParkedOn(wait, id)
  PROVE  SameState(id)
<1>1. StateOf(id, entry'[id], watched, wait') = StateOf(id, entry[id], watched, wait)
  BY AlikeLooksSame
<1>2. State(id)' = IF id \in live' THEN StateOf(id, entry'[id], watched', wait') ELSE DefaultState
  BY DEF State
<1> QED BY <1>1, <1>2 DEF SameState, State

\* Attention, the settings and the end of a Session.
LEMMA SharedAnnounces ==
  ASSUME Inv, More, disposed = FALSE, NEW id \in Sessions, NEW names \in SUBSET Commands, NEW on \in BOOLEAN,
         NEW helper \in BOOLEAN,
         \/ Attend(id) \/ LoseAttention \/ SetWatchedCommands(names) \/ SetDeferAlertsUntilQuiet(on)
         \/ SetHelper(id, helper) \/ Remove(id)
  PROVE  Announces
<1>1. TypeOK /\ \A s \in Sessions : entry[s] \in Entry
  BY EntryFacts DEF Inv
<1>2. \A e : Alike(e, e)
  BY DEF Alike
<1>3. ~Remove(id) => \A s \in Sessions : ParkedOn(wait', s) <=> ParkedOn(wait, s)
  BY <1>1, ParkedElsewhere
     DEF Attend, LoseAttention, SetWatchedCommands, SetDeferAlertsUntilQuiet, SetHelper
<1>4. CASE Attend(id) /\ ~Remove(id)
  <2> DEFINE S == {id} \cup {prev \in Sessions : attentionId = prev /\ prev # id /\ ArmsOnLoss(prev)}
  <2>1. Publish(S) /\ watched' = watched
    BY <1>4 DEF Attend, settings
  <2>2. \A s \in Sessions : s \notin S => (s \in live' <=> s \in live) /\ entry'[s] = entry[s]
    BY <1>4 DEF Attend
  <2>3. \A s \in Sessions : s \notin S => SameState(s)
    BY <1>2, <1>3, <1>4, <2>1, <2>2, UntouchedLooksSame
  <2> QED BY <2>1, <2>3 DEF Announces
<1>5. CASE LoseAttention /\ ~Remove(id)
  <2> DEFINE S == {prev \in Sessions : attentionId = prev /\ ArmsOnLoss(prev)}
  <2>1. Publish(S) /\ watched' = watched
    BY <1>5 DEF LoseAttention, settings
  <2>2. \A s \in Sessions : s \notin S => (s \in live' <=> s \in live) /\ entry'[s] = entry[s]
    BY <1>5 DEF LoseAttention
  <2>3. \A s \in Sessions : s \notin S => SameState(s)
    BY <1>2, <1>3, <1>5, <2>1, <2>2, UntouchedLooksSame
  <2> QED BY <2>1, <2>3 DEF Announces
<1>6. CASE SetWatchedCommands(names)
  <2>1. Publish(live) /\ live' = live
    BY <1>6 DEF SetWatchedCommands
  <2>2. \A s \in Sessions : s \notin live => SameState(s)
    <3> SUFFICES ASSUME NEW s \in Sessions, s \notin live PROVE SameState(s)
      OBVIOUS
    <3>1. State(s)' = IF s \in live' THEN StateOf(s, entry'[s], watched', wait') ELSE DefaultState
      BY DEF State
    <3> QED BY <2>1, <3>1 DEF SameState, State
  <2> QED BY <2>1, <2>2 DEF Announces
<1>7. CASE SetDeferAlertsUntilQuiet(on) /\ ~Remove(id)
  <2> DEFINE S == {s \in live : ~on /\ entry[s].deferred}
  <2>1. Publish(S) /\ live' = live /\ watched' = watched
    BY <1>7 DEF SetDeferAlertsUntilQuiet
  <2>2. \A s \in Sessions : s \notin S => entry'[s] \in {entry[s], [entry[s] EXCEPT !.deferred = FALSE]}
    BY <1>7 DEF SetDeferAlertsUntilQuiet, Flush
  <2>3. \A s \in Sessions : Alike(entry[s], [entry[s] EXCEPT !.deferred = FALSE])
    BY <1>1 DEF Alike, Entry
  <2>4. \A s \in Sessions : s \notin S => SameState(s)
    BY <1>2, <1>3, <1>7, <2>1, <2>2, <2>3, UntouchedLooksSame
  <2> QED BY <2>1, <2>4 DEF Announces
<1>8. CASE SetHelper(id, helper) /\ ~Remove(id)
  <2>1. live' = live /\ entry' = entry /\ watched' = watched /\ published' = published
    BY <1>8 DEF SetHelper
  <2>2. \A s \in Sessions : SameState(s)
    BY <1>2, <1>3, <1>8, <2>1, UntouchedLooksSame
  <2> QED BY <2>1, <2>2 DEF Announces
<1>9. CASE Remove(id)
  <2>1. /\ Publish(live \cap {id}) /\ live' = live \ {id} /\ watched' = watched
        /\ \A s \in Sessions : s # id => entry'[s] = entry[s]
        /\ Settle(Parked(id), "died")
    BY <1>9 DEF Remove
  <2>2. \A s \in Sessions : s # id => (ParkedOn(wait', s) <=> ParkedOn(wait, s))
    BY <1>1, <2>1, ParkedElsewhere DEF Parked
  <2>3. \A s \in Sessions : s # id => SameState(s)
    BY <1>2, <2>1, <2>2, UntouchedLooksSame
  <2>4. id \notin live => SameState(id)
    <3>1. State(id)' = IF id \in live' THEN StateOf(id, entry'[id], watched', wait') ELSE DefaultState
      BY DEF State
    <3> QED BY <2>1, <3>1 DEF SameState, State
  <2> QED BY <2>1, <2>3, <2>4 DEF Announces
<1> QED BY <1>4, <1>5, <1>6, <1>7, <1>8, <1>9

\* An await shows on the Session it is parked on.
LEMMA AwaitAnnounces ==
  ASSUME Inv, More, disposed = FALSE, NEW w \in Waiters, NEW id \in Sessions, NEW until \in Until,
         NEW outcome \in {"idle", "timeout", "cancelled"},
         AwaitRefused(w, id) \/ AwaitAnswered(w, id, until) \/ AwaitParks(w, id, until) \/ AwaitEnds(w, outcome)
  PROVE  Announces
<1>1. TypeOK /\ \A e : Alike(e, e)
  BY DEF Inv, Alike
<1>2. CASE AwaitRefused(w, id)
  <2>1. live' = live /\ entry' = entry /\ watched' = watched /\ published' = published /\ wait' = wait
    BY <1>2 DEF AwaitRefused, Answer, settings
  <2>2. \A s \in Sessions : SameState(s)
    BY <1>1, <2>1, UntouchedLooksSame
  <2> QED BY <2>1, <2>2 DEF Announces
<1>3. CASE AwaitAnswered(w, id, until)
  <2>1. (\E f : Put(id, f)) /\ watched' = watched /\ Publish({id}) /\ wait' = wait
    BY <1>3 DEF AwaitAnswered, Answer, settings
  <2> QED BY <2>1, PutAnnounces
<1>4. CASE AwaitParks(w, id, until)
  <2>1. /\ Put(id, entry[id]) /\ watched' = watched /\ Publish({id}) /\ Idle(w)
        /\ wait' = [wait EXCEPT ![w] = ParkedAwait(id, until)]
    BY <1>4 DEF AwaitParks, settings
  <2>2. \A s \in Sessions : s # id => (ParkedOn(wait', s) <=> ParkedOn(wait, s))
    <3>1. \A v \in Waiters : wait'[v] = IF v = w THEN ParkedAwait(id, until) ELSE wait[v]
      BY <1>1, <2>1 DEF TypeOK
    <3>2. ParkedAwait(id, until).id = id /\ wait[w].id = None
      BY <2>1 DEF ParkedAwait, Idle, Free
    <3> QED BY <3>1, <3>2 DEF ParkedOn
  <2> QED BY <2>1, <2>2, PutAnnounces
<1>5. CASE AwaitEnds(w, outcome)
  <2>1. Publish({wait[w].id}) /\ Settle({w}, outcome) /\ live' = live /\ entry' = entry /\ watched' = watched
    BY <1>5 DEF AwaitEnds, settings
  <2>2. \A s \in Sessions : s # wait[w].id => (ParkedOn(wait', s) <=> ParkedOn(wait, s))
    BY <1>1, <2>1, ParkedElsewhere
  <2>3. \A s \in Sessions : s # wait[w].id => SameState(s)
    BY <1>1, <2>1, <2>2, UntouchedLooksSame
  <2> QED BY <2>1, <2>3 DEF Announces
<1> QED BY <1>2, <1>3, <1>4, <1>5

\* Every step leaves its listeners up to date.
LEMMA PublishedStep == Inv /\ More /\ PublishedIsCurrent /\ [Next]_vars => PublishedIsCurrent'
<1> SUFFICES ASSUME Inv, More, PublishedIsCurrent, [Next]_vars PROVE PublishedIsCurrent'
  OBVIOUS
<1>1. CASE UNCHANGED vars
  <2>1. \A id \in Sessions : State(id)' = State(id) /\ published'[id] = published[id]
    BY <1>1 DEF vars, State, StateOf, StatusOf, WatchedBy, Ringing
  <2> QED BY <2>1 DEF PublishedIsCurrent
<1>2. CASE disposed = FALSE /\ (TerminalEvent \/ TimerEvent \/ UserEvent \/ HostEvent \/ AwaitEvent)
  <2> SUFFICES Announces \/ Sessions = {}
    BY AnnouncesTells DEF PublishedIsCurrent
  <2>0. /\ None \in Commands \cup {None} /\ TRUE \in BOOLEAN /\ NewDetector \in Detector /\ {} \in SUBSET Commands
        /\ None \in {None, "protocol", "COMMAND_EXIT"} /\ "quiet" \in Until /\ "idle" \in {"idle", "timeout", "cancelled"}
    BY DEF NewDetector, Detector, QuiesceStatus, Until
  <2>1. CASE TerminalEvent
    BY <1>2, <2>0, <2>1, TerminalAnnounces DEF TerminalEvent, AnyData
  <2>2. CASE TimerEvent
    <3>1. CASE LoseAttention
      <4>1. attentionId \in Sessions
        BY <3>1 DEF LoseAttention, Inv, TypeOK
      <4> QED BY <1>2, <2>0, <3>1, <4>1, SharedAnnounces
    <3>2. CASE \E w \in Waiters, outcome \in {"idle", "timeout", "cancelled"} : AwaitEnds(w, outcome)
      <4>1. PICK w \in Waiters, outcome \in {"idle", "timeout", "cancelled"} : AwaitEnds(w, outcome)
        BY <3>2
      <4>2. wait[w].id \in Sessions
        BY <4>1 DEF AwaitEnds, Idle, Inv, TypeOK, Wait
      <4> QED BY <1>2, <2>0, <4>1, <4>2, AwaitAnnounces
    <3>3. CASE \E id \in Sessions : (\E d \in Detector : DetectorTimer(id, d)) \/ DetectorSettles(id) \/ DeferredTimer(id)
      BY <1>2, <2>0, <3>3, TerminalAnnounces
    <3> QED BY <2>2, <3>1, <3>2, <3>3 DEF TimerEvent
  <2>3. CASE UserEvent
    <3>1. CASE \E id \in Sessions : Attend(id) \/ DismissAlert(id) \/ ToggleTodo(id) \/ MarkTodo(id) \/ ClearTodo(id)
      BY <1>2, <2>0, <3>1, SharedAnnounces, ControlAnnounces
    <3>2. CASE \/ \E names \in SUBSET Commands : SetWatchedCommands(names)
               \/ \E on \in BOOLEAN : SetDeferAlertsUntilQuiet(on)
      BY <1>2, <2>0, <3>2, SharedAnnounces
    <3> QED BY <2>3, <3>1, <3>2 DEF UserEvent
  <2>4. CASE HostEvent
    BY <1>2, <2>0, <2>4, SharedAnnounces, ControlAnnounces, HelperAssumption DEF HostEvent
  <2>5. CASE AwaitEvent
    BY <1>2, <2>0, <2>5, AwaitAnnounces DEF AwaitEvent
  <2> QED BY <1>2, <2>1, <2>2, <2>3, <2>4, <2>5
<1>3. CASE Dispose
  <2>1. live' = {} /\ published' = [id \in Sessions |-> Unheard]
    BY <1>3 DEF Dispose
  <2> QED BY <2>1 DEF PublishedIsCurrent, State
<1>4. CASE Next
  <2>1. disposed = FALSE
    BY <1>4 DEF Next, Inv, TypeOK
  <2> QED BY <1>2, <1>3, <1>4, <2>1 DEF Next
<1> QED BY <1>1, <1>4

\* After every step each listener's last state of each Session is the current
\* one: no handler changes what is visible and forgets notify.
THEOREM ListenersAreCurrent == Spec => []PublishedIsCurrent
<1>1. Init => PublishedIsCurrent
  BY DEF Init, PublishedIsCurrent, State
<1>2. Inv /\ More /\ PublishedIsCurrent /\ [Next]_vars => PublishedIsCurrent'
  BY PublishedStep
<1> QED BY <1>1, <1>2, MoreHolds, PTL DEF Spec

-----------------------------------------------------------------------------
(* The counter the bell animation watches.                                 *)

CountsAll == \A s \in Sessions : s \in live' => Counts(entry[s], entry'[s])

\* It is enough to look at the one entry a handler puts back.
LEMMA PutCounts ==
  ASSUME Inv, NEW id \in Sessions, NEW f, Put(id, f), Counts(entry[id], f)
  PROVE  CountsAll
BY PutFacts DEF CountsAll, Counts, LatchedTo

\* Changes that touch no track and not the counter.
LEMMA QuietChanges ==
  ASSUME NEW e \in Entry
  PROVE  /\ \A f : Silent(e, f) => Counts(e, f)
         /\ Silent(e, e) /\ Silent(e, ResetDetector(e)) /\ Silent(e, Unrung(e)) /\ Silent(e, CycleOver(e))
         /\ Silent(e, Armed(e)) /\ Silent(e, Attended(e))
         /\ \A d, o : Silent(e, [e EXCEPT !.detector = d]) /\ Silent(e, [e EXCEPT !.detector = d, !.outputSinceRing = o])
<1>1. \A f : Silent(e, f) => Counts(e, f)
  BY DEF Silent, Counts
<1>2. Silent(e, e) /\ Silent(e, ResetDetector(e)) /\ Silent(e, Unrung(e)) /\ Silent(e, CycleOver(e)) /\ Silent(e, Armed(e))
  BY DEF Silent, LatchedTo, ResetDetector, Unrung, CycleOver, Armed, Entry
<1>3. \A d, o : Silent(e, [e EXCEPT !.detector = d]) /\ Silent(e, [e EXCEPT !.detector = d, !.outputSinceRing = o])
  BY DEF Silent, LatchedTo, Entry
<1>4. Silent(e, Attended(e))
  <2> DEFINE c == ClearAllRings(e)
             seen == [c EXCEPT !.watch = IF @.running THEN [@ EXCEPT !.seen = TRUE] ELSE @,
                               !.commandExit = IF c.watch.running /\ @ = "COMMAND_EXIT_ARMED" THEN "IDLE" ELSE @]
  <2>1. Silent(e, c)
    BY ClearKeeps
  <2>2. DOMAIN c = DOMAIN e
    BY DEF ClearAllRings, ReleaseProtocol, ReleaseCommandExit, ReleaseWatching, ResetDetector, Entry
  <2> HIDE DEF c
  <2>3. Silent(e, seen) /\ DOMAIN seen = DOMAIN e
    BY <2>1, <2>2 DEF Silent, LatchedTo, Entry
  <2> HIDE DEF seen
  <2>4. Attended(e) \in {seen, [seen EXCEPT !.dismissed = TRUE, !.todo = TRUE]}
    BY DEF Attended, seen, c
  <2> QED BY <2>3, <2>4 DEF Silent, LatchedTo, Entry
<1> QED BY <1>1, <1>2, <1>3, <1>4

\* What comes after a count, or before it, and is silent leaves it a count.
LEMMA CountsThenReset ==
  ASSUME NEW e \in Entry, NEW f \in Entry, Counts(e, f)
  PROVE  Counts(e, ResetDetector(f))
BY DEF Counts, LatchedTo, ResetDetector, Entry

\* The terminal and the timers.
LEMMA TerminalCounts ==
  ASSUME Inv, disposed = FALSE, NEW id \in Sessions, NEW d \in Detector,
         NEW argv0 \in Commands \cup {None}, NEW ranLong \in BOOLEAN,
         \/ Data(id, d) \/ Resize(id) \/ DetectorTimer(id, d) \/ DetectorSettles(id) \/ DeferredTimer(id)
         \/ Notification(id) \/ EmptyReport(id) \/ ProgressActive(id) \/ ProgressEnds(id) \/ CommandLine(id)
         \/ CommandStart(id, argv0) \/ CommandFinish(id, ranLong) \/ Exit(id, ranLong)
  PROVE  CountsAll
<1> DEFINE e == entry[id]
<1>1. e \in Entry /\ SoundEntry(e) /\ Held(e)
  BY EntryFacts DEF SoundEntry
<1>2. CASE Data(id, d) \/ Resize(id) \/ DetectorTimer(id, d) \/ EmptyReport(id) \/ CommandLine(id)
  <2>1. \E f : Put(id, f) /\ Silent(e, f)
    <3>1. Silent(e, e) /\ \A x, o : /\ Silent(e, [e EXCEPT !.detector = x])
                                    /\ Silent(e, [e EXCEPT !.detector = x, !.outputSinceRing = o])
      BY <1>1, QuietChanges
    <3>2. CASE Data(id, d)
      <4>1. Put(id, [e EXCEPT !.detector = d, !.outputSinceRing = entry[id].ringCommand # None])
        BY <3>2 DEF Data
      <4> QED BY <3>1, <4>1
    <3>3. CASE DetectorTimer(id, d)
      <4>1. Put(id, [e EXCEPT !.detector = d])
        BY <3>3 DEF DetectorTimer
      <4> QED BY <3>1, <4>1
    <3>4. CASE Resize(id) \/ EmptyReport(id) \/ CommandLine(id)
      BY <3>1, <3>4 DEF Resize, EmptyReport, CommandLine
    <3> QED BY <1>2, <3>2, <3>3, <3>4
  <2> QED BY <1>1, <2>1, QuietChanges, PutCounts
<1>3. CASE DetectorSettles(id)
  <2> DEFINE r == IF Claimed(id, "settled") THEN e ELSE RingSettled(id, e)
             f == Flush(id, r)
  <2>1. f \in Entry
    <3>1. r \in Entry /\ Held(r)
      BY <1>1, SettledIsSound
    <3> HIDE DEF r
    <3> QED BY <3>1, FlushIsSound
  <2>2. Counts(e, f)
    BY <1>1, SettledCounts
  <2>3. Put(id, ResetDetector(f))
    BY <1>3 DEF DetectorSettles
  <2> HIDE DEF f
  <2> QED BY <1>1, <2>1, <2>2, <2>3, CountsThenReset, PutCounts
<1>4. CASE DeferredTimer(id)
  BY <1>1, <1>4, FlushCounts, PutCounts DEF DeferredTimer
<1>5. CASE Notification(id)
  <2>1. \E f : Put(id, f) /\ Counts(e, f)
    BY <1>1, <1>5, NotifiedCounts, QuietChanges DEF Notification, DispatchNotification
  <2> QED BY <2>1, PutCounts
<1>6. CASE ProgressEnds(id)
  <2> DEFINE g == CycleOver(e)
             f == IF Claimed(id, "notification") THEN g ELSE RingNotified(id, g)
  <2>1. /\ g \in Entry /\ g.ringSeq = e.ringSeq /\ g.commandExit = e.commandExit /\ g.ringCommand = e.ringCommand
        /\ g.protocol = "ALERT_RINGING" <=> e.protocol = "ALERT_RINGING"
    BY <1>1 DEF CycleOver, Entry
  <2>2. Put(id, f)
    BY <1>6 DEF ProgressEnds, DispatchNotification
  <2> HIDE DEF g
  <2>3. Counts(g, f)
    BY <2>1, NotifiedCounts, QuietChanges
  <2> HIDE DEF f
  <2>4. Counts(e, f)
    BY <2>1, <2>3 DEF Counts, LatchedTo
  <2> QED BY <2>2, <2>4, PutCounts
<1>7. CASE ProgressActive(id)
  <2>1. Silent(e, [e EXCEPT !.progress = TRUE, !.protocol = "OSC_NOTIF_BUSY"])
    BY <1>1 DEF Silent, LatchedTo, Entry
  <2> QED BY <1>1, <1>7, <2>1, QuietChanges, PutCounts DEF ProgressActive
<1>8. CASE CommandStart(id, argv0)
  <2> DEFINE g == [e EXCEPT !.commandExit = IF @ = "ALERT_RINGING" THEN @ ELSE "IDLE",
                            !.watch = [argv0 |-> argv0, seen |-> HasAttention(id), running |-> TRUE]]
  <2>1. g \in Entry /\ Silent(e, g)
    <3>1. [argv0 |-> argv0, seen |-> HasAttention(id), running |-> TRUE] \in Watch
      BY DEF Watch, HasAttention
    <3> QED BY <1>1, <3>1 DEF Silent, LatchedTo, Entry
  <2>2. Put(id, ResetDetector(g))
    BY <1>8 DEF CommandStart
  <2> HIDE DEF g
  <2> QED BY <1>1, <2>1, <2>2, QuietChanges, CountsThenReset, PutCounts
<1>9. CASE CommandFinish(id, ranLong) \/ Exit(id, ranLong)
  BY <1>9, FinishedFacts, PutCounts DEF CommandFinish, Exit
<1> QED BY <1>2, <1>3, <1>4, <1>5, <1>6, <1>7, <1>8, <1>9

\* The user, the host and the awaits never count.
LEMMA ControlCounts ==
  ASSUME Inv, disposed = FALSE, NEW id \in Sessions, NEW names \in SUBSET Commands, NEW on \in BOOLEAN,
         NEW helper \in BOOLEAN, NEW todo \in BOOLEAN, NEW n \in {None, "protocol", "COMMAND_EXIT"},
         NEW w, NEW until \in Until, NEW outcome,
         \/ DismissAlert(id) \/ ToggleTodo(id) \/ MarkTodo(id) \/ ClearTodo(id) \/ Seed(id, todo, n)
         \/ Attend(id) \/ LoseAttention \/ SetWatchedCommands(names) \/ SetDeferAlertsUntilQuiet(on)
         \/ SetHelper(id, helper) \/ Remove(id)
         \/ AwaitRefused(w, id) \/ AwaitAnswered(w, id, until) \/ AwaitParks(w, id, until) \/ AwaitEnds(w, outcome)
  PROVE  CountsAll
<1> DEFINE e == entry[id]
           c == ClearAllRings(e)
<1>1. \A s \in Sessions : entry[s] \in Entry
  BY EntryFacts
<1>2. Silent(e, c) /\ DOMAIN c = DOMAIN e
  <2>1. DOMAIN c = DOMAIN e
    BY <1>1 DEF ClearAllRings, ReleaseProtocol, ReleaseCommandExit, ReleaseWatching, ResetDetector, Entry
  <2> QED BY <1>1, <2>1, ClearKeeps
<1>3. CASE DismissAlert(id)
  <2>1. Silent(e, [c EXCEPT !.todo = @ \/ Ringing(e), !.dismissed = FALSE])
    <3> HIDE DEF c
    <3> QED BY <1>1, <1>2 DEF Silent, LatchedTo, Entry
  <2> QED BY <1>1, <1>3, <2>1, QuietChanges, PutCounts DEF DismissAlert
<1>4. ASSUME NEW t, SetTodo(id, t) PROVE CountsAll
  <2>1. Silent(e, [c EXCEPT !.todo = t, !.notification = IF t THEN @ ELSE None])
    <3> HIDE DEF c
    <3> QED BY <1>1, <1>2 DEF Silent, LatchedTo, Entry
  <2> QED BY <1>1, <1>4, <2>1, QuietChanges, PutCounts DEF SetTodo
<1>5. CASE Seed(id, todo, n)
  <2>1. Silent(e, [NewEntry EXCEPT !.detector = Reset(e.detector), !.ringSeq = e.ringSeq, !.dismissed = e.dismissed,
                                   !.todo = todo, !.notification = n])
    BY DEF Silent, LatchedTo, NewEntry
  <2> QED BY <1>1, <1>5, <2>1, QuietChanges, PutCounts DEF Seed
<1>6. CASE \/ Attend(id) \/ LoseAttention \/ SetWatchedCommands(names)
           \/ SetHelper(id, helper) \/ AwaitRefused(w, id) \/ AwaitEnds(w, outcome)
  <2>1. \A s \in Sessions : entry'[s] \in {entry[s], Attended(entry[s]), Armed(entry[s]), Unrung(entry[s])}
    BY <1>6 DEF Attend, LoseAttention, SetWatchedCommands, SetHelper, AwaitRefused, AwaitEnds, Unrung
  <2> QED BY <1>1, <2>1, QuietChanges DEF CountsAll
<1>7. CASE SetDeferAlertsUntilQuiet(on)
  <2>1. \A s \in Sessions : entry'[s] \in {entry[s], Flush(s, entry[s])}
    BY <1>7 DEF SetDeferAlertsUntilQuiet
  <2>2. \A s \in Sessions : Counts(entry[s], entry[s]) /\ Counts(entry[s], Flush(s, entry[s]))
    BY <1>1, QuietChanges, FlushCounts
  <2> QED BY <2>1, <2>2 DEF CountsAll
<1>8. CASE Remove(id)
  <2>1. \A s \in Sessions : s \in live' => entry'[s] = entry[s]
    BY <1>8 DEF Remove, Inv, TypeOK
  <2> QED BY <1>1, <2>1, QuietChanges DEF CountsAll
<1>9. CASE AwaitAnswered(w, id, until)
  <2> DEFINE cause == AwaitableRing(e, until)
  <2>1. cause \in {"bell", "exit", "quiet"} /\ Put(id, Consumed(e, cause))
    BY <1>9 DEF AwaitAnswered, AwaitableRing
  <2> HIDE DEF cause
  <2> QED BY <1>1, <2>1, ConsumeKeeps, QuietChanges, PutCounts
<1>10. CASE AwaitParks(w, id, until)
  BY <1>1, <1>10, QuietChanges, PutCounts DEF AwaitParks
<1> QED BY <1>3, <1>4, <1>5, <1>6, <1>7, <1>8, <1>9, <1>10 DEF ToggleTodo, MarkTodo, ClearTodo

\* Every step of the class counts what it latches, and dispose leaves no Session.
LEMMA CountStep == Inv /\ [Next]_vars => CountsAll
<1> SUFFICES ASSUME Inv, [Next]_vars PROVE CountsAll
  OBVIOUS
<1>1. CASE UNCHANGED vars
  BY <1>1 DEF vars, CountsAll, Counts, LatchedTo
<1>2. CASE Dispose
  BY <1>2 DEF Dispose, CountsAll
<1>3. CASE disposed = FALSE /\ (TerminalEvent \/ TimerEvent \/ UserEvent \/ HostEvent \/ AwaitEvent)
  <2> SUFFICES ASSUME NEW id \in Sessions PROVE CountsAll
    BY DEF CountsAll
  <2>0. /\ None \in Commands \cup {None} /\ TRUE \in BOOLEAN /\ NewDetector \in Detector /\ {} \in SUBSET Commands
        /\ None \in {None, "protocol", "COMMAND_EXIT"} /\ "quiet" \in Until
    BY DEF NewDetector, Detector, QuiesceStatus, Until
  <2>1. CASE TerminalEvent
    BY <1>3, <2>0, <2>1, TerminalCounts DEF TerminalEvent, AnyData
  <2>2. CASE TimerEvent
    BY <1>3, <2>0, <2>2, TerminalCounts, ControlCounts DEF TimerEvent
  <2>3. CASE UserEvent
    BY <1>3, <2>0, <2>3, ControlCounts DEF UserEvent
  <2>4. CASE HostEvent
    BY <1>3, <2>0, <2>4, ControlCounts, HelperAssumption DEF HostEvent
  <2>5. CASE AwaitEvent
    BY <1>3, <2>0, <2>5, ControlCounts DEF AwaitEvent
  <2> QED BY <1>3, <2>1, <2>2, <2>3, <2>4, <2>5
<1>4. CASE Next
  <2>1. disposed = FALSE
    BY <1>4 DEF Next, Inv, TypeOK
  <2> QED BY <1>2, <1>3, <1>4, <2>1 DEF Next
<1> QED BY <1>1, <1>4

\* The counter advances exactly when a track that was not ringing latches, also
\* when one step latches two (latchRing, onSettled, finishCommandExitWatch).
THEOREM CounterCountsRings == Spec => SeqCountsLatches
<1>1. Inv /\ [Next]_vars =>
        [\A id \in live \cap live' : Latched(id) <=> entry'[id].ringSeq # entry[id].ringSeq]_vars
  <2>1. Inv /\ [Next]_vars => \A id \in live \cap live' : Counts(entry[id], entry'[id])
    BY CountStep DEF CountsAll, Inv, TypeOK
  <2> QED BY <2>1 DEF Counts, LatchedTo, Latched
<1> QED BY <1>1, InvHolds, PTL DEF Spec, SeqCountsLatches

-----------------------------------------------------------------------------
(* What a report, a timer or the end of an await leaves of the alarms.     *)

\* f rings wherever e does, and has its TODO and its text.
Adds(e, f) ==
  /\ e.todo => f.todo
  /\ e.notification # None => f.notification # None
  /\ e.protocol = "ALERT_RINGING" => f.protocol = "ALERT_RINGING" /\ f.notification = "protocol"
  /\ e.commandExit = "ALERT_RINGING" => f.commandExit = "ALERT_RINGING"
  /\ e.ringCommand # None => f.ringCommand # None

LEMMA AddsChain ==
  ASSUME NEW e, NEW g, NEW f, Adds(e, g), Adds(g, f)
  PROVE  Adds(e, f)
BY DEF Adds

\* The changes that touch no alarm, and those that only end what is no ring.
LEMMA QuietAdds ==
  ASSUME NEW e \in Entry, Held(e)
  PROVE  /\ Adds(e, e) /\ Adds(e, ResetDetector(e)) /\ Adds(e, CycleOver(e)) /\ Adds(e, Disarmed(e))
         /\ e.commandExit = "IDLE" => Adds(e, Armed(e))
         /\ \A x, o : /\ Adds(e, [e EXCEPT !.deferred = x]) /\ Adds(e, [e EXCEPT !.detector = x])
                      /\ Adds(e, [e EXCEPT !.detector = x, !.outputSinceRing = o])
                      /\ Adds(e, [e EXCEPT !.commandExit = IF @ = "ALERT_RINGING" THEN @ ELSE "IDLE", !.watch = x])
<1>1. e.protocol = "ALERT_RINGING" => e.notification = "protocol"
  BY DEF Held
<1>2. Adds(e, e) /\ Adds(e, ResetDetector(e))
  BY <1>1 DEF Adds, ResetDetector, Entry
<1>3. Adds(e, CycleOver(e))
  BY <1>1 DEF Adds, CycleOver, Entry
<1>4. Adds(e, Disarmed(e))
  BY <1>1 DEF Adds, Disarmed, Entry
<1>5. e.commandExit = "IDLE" => Adds(e, Armed(e))
  BY <1>1 DEF Adds, Armed, Entry
<1>6. \A x : Adds(e, [e EXCEPT !.deferred = x]) /\ Adds(e, [e EXCEPT !.detector = x])
  BY <1>1 DEF Adds, Entry
<1>7. \A x, o : Adds(e, [e EXCEPT !.detector = x, !.outputSinceRing = o])
  BY <1>1 DEF Adds, Entry
<1>8. \A x : Adds(e, [e EXCEPT !.commandExit = IF @ = "ALERT_RINGING" THEN @ ELSE "IDLE", !.watch = x])
  BY <1>1 DEF Adds, Entry
<1> QED BY <1>2, <1>3, <1>4, <1>5, <1>6, <1>7, <1>8

\* The ways a track rings (applyProtocolRinging, applyCommandExitRinging).
LEMMA RingAdds ==
  ASSUME NEW e \in Entry, Held(e)
  PROVE  Adds(e, ApplyProtocolRinging(e)) /\ Adds(e, ApplyCommandExitRinging(e))
<1>1. e.protocol = "ALERT_RINGING" => e.notification = "protocol"
  BY DEF Held
<1>2. "protocol" # None /\ "COMMAND_EXIT" # None
  BY NoneAssumption
<1>3. Adds(e, ApplyProtocolRinging(e))
  BY <1>2 DEF Adds, ApplyProtocolRinging, LatchRing, Entry
<1>4. Adds(e, ApplyCommandExitRinging(e))
  BY <1>1, <1>2 DEF Adds, ApplyCommandExitRinging, LatchRing, Entry
<1> QED BY <1>3, <1>4

LEMMA FlushAdds ==
  ASSUME NEW id, NEW e \in Entry, Held(e)
  PROVE  Adds(e, Flush(id, e))
<1>1. PICK f \in Entry : f = [e EXCEPT !.deferred = FALSE]
  BY DEF Entry
<1>2. Held(f)
  BY <1>1 DEF Held, Entry
<1>3. Adds(e, f) /\ Adds(f, ApplyProtocolRinging(f))
  BY <1>1, <1>2, QuietAdds, RingAdds
<1>4. Adds(e, ApplyProtocolRinging(f))
  BY <1>3, AddsChain
<1> QED BY <1>1, <1>3, <1>4 DEF Flush

\* The rules of dispatchCompletion.
LEMMA RulesAdd ==
  ASSUME NEW id, NEW e \in Entry, SoundEntry(e)
  PROVE  /\ Adds(e, RingSettled(id, e)) /\ Adds(e, RingNotified(id, e))
         /\ \A armed, ranLong : Adds(e, RingFinished(id, e, armed, ranLong))
<1>1. Held(e) /\ Adds(e, e)
  BY QuietAdds DEF SoundEntry
<1>2. Adds(e, RingSettled(id, e))
  <2>1. CASE IsWatching(e) /\ ~HasAttention(id)
    <3>1. /\ RingSettled(id, e).todo = e.todo /\ RingSettled(id, e).notification = e.notification
          /\ RingSettled(id, e).protocol = e.protocol /\ RingSettled(id, e).commandExit = e.commandExit
          /\ RingSettled(id, e).ringCommand = e.watch.argv0
      BY <2>1 DEF RingSettled, LatchRing, Entry
    <3>2. e.watch.argv0 # None
      BY <2>1 DEF IsWatching, WatchedBy
    <3> QED BY <1>1, <3>1, <3>2 DEF Adds
  <2>2. CASE ~(IsWatching(e) /\ ~HasAttention(id))
    BY <1>1, <2>2 DEF RingSettled
  <2> QED BY <2>1, <2>2
<1>3. Adds(e, RingNotified(id, e))
  <2>1. PICK f \in Entry : f = [e EXCEPT !.deferred = FALSE]
    BY DEF Entry
  <2>2. Held(f)
    BY <1>1, <2>1 DEF Held, Entry
  <2>3. Adds(e, f) /\ Adds(f, ApplyProtocolRinging(f)) /\ Adds(e, [e EXCEPT !.deferred = TRUE])
    BY <1>1, <2>1, <2>2, QuietAdds, RingAdds
  <2>4. Adds(e, ApplyProtocolRinging(f))
    BY <2>3, AddsChain
  <2>5. RingNotified(id, e) \in {e, [e EXCEPT !.deferred = TRUE], ApplyProtocolRinging(f)}
    <3>1. CASE HasAttention(id)
      BY <3>1 DEF RingNotified
    <3>2. CASE ~HasAttention(id) /\ deferring /\ ~Ringing(e) /\ (e.deferred \/ ConfirmedBusy(e.detector))
      BY <3>2 DEF RingNotified
    <3>3. CASE ~HasAttention(id) /\ ~(deferring /\ ~Ringing(e) /\ (e.deferred \/ ConfirmedBusy(e.detector)))
      BY <2>1, <3>3 DEF RingNotified
    <3> QED BY <3>1, <3>2, <3>3
  <2> QED BY <1>1, <2>3, <2>4, <2>5
<1>4. \A armed, ranLong : Adds(e, RingFinished(id, e, armed, ranLong))
  <2>1. PICK f \in Entry : f = ApplyCommandExitRinging(e) /\ Held(f)
    BY <1>1, CommandExitRingIsSound
  <2>2. Adds(e, f) /\ Adds(f, Flush(id, f))
    BY <1>1, <2>1, RingAdds, FlushAdds
  <2>3. Adds(e, Flush(id, f))
    BY <2>2, AddsChain
  <2> QED BY <1>1, <2>1, <2>3 DEF RingFinished
<1> QED BY <1>2, <1>3, <1>4

AllOutlast == \A s \in Sessions : Outlasts(entry[s], entry'[s])

\* It is enough to look at the one entry a handler puts back.
LEMMA PutOutlasts ==
  ASSUME Inv, NEW id \in Sessions, NEW f, Put(id, f), Outlasts(entry[id], f)
  PROVE  AllOutlast
<1> SUFFICES ASSUME NEW s \in Sessions PROVE Outlasts(entry[s], entry'[s])
  BY DEF AllOutlast
<1>1. CASE s = id
  BY <1>1, PutFacts
<1>2. CASE s # id
  <2>1. entry'[s] = entry[s] /\ entry[s] \in Entry /\ Held(entry[s])
    BY <1>2, PutFacts, EntryFacts DEF SoundEntry, Inv, EntriesAreSound, TypeOK
  <2>2. Adds(entry[s], entry[s])
    BY <2>1, QuietAdds
  <2> QED BY <2>1, <2>2 DEF Adds, Outlasts
<1> QED BY <1>1, <1>2

LEMMA PutAdds ==
  ASSUME Inv, NEW id \in Sessions, NEW f, Put(id, f), Adds(entry[id], f)
  PROVE  AllOutlast
BY PutOutlasts DEF Adds, Outlasts

\* The end of a command: disarmed, dispatched and only then reset.
LEMMA FinishedAdds ==
  ASSUME Inv, disposed = FALSE, NEW id \in Sessions, NEW ranLong
  PROVE  Adds(entry[id], Finished(id, ranLong))
<1> DEFINE e == entry[id]
<1>1. e \in Entry /\ SoundEntry(e) /\ Held(e)
  BY EntryFacts DEF SoundEntry
<1>2. PICK d : d = Disarmed(e)
  OBVIOUS
<1>3. d \in Entry /\ SoundEntry(d)
  <2>1. NoWatch \in Watch
    BY DEF Watch
  <2>2. d \in Entry
    BY <1>1, <1>2, <2>1 DEF Disarmed, Entry
  <2>3. /\ d.protocol = e.protocol /\ d.commandExit # "COMMAND_EXIT_ARMED" /\ d.commandExit \in {e.commandExit, "IDLE"}
        /\ d.ringCommand = e.ringCommand /\ d.deferred = e.deferred /\ d.notification = e.notification
        /\ d.todo = e.todo /\ d.progress = e.progress
    BY <1>1, <1>2 DEF Disarmed, Entry
  <2> QED BY <1>1, <2>2, <2>3 DEF SoundEntry, Held, Ringing
<1>4. Adds(e, d) /\ Adds(d, d)
  BY <1>1, <1>2, <1>3, QuietAdds DEF SoundEntry
<1>5. PICK r : r = IF e.watch.running /\ ~Claimed(id, "commandFinished")
                   THEN RingFinished(id, d, e.commandExit = "COMMAND_EXIT_ARMED", ranLong) ELSE d
  OBVIOUS
<1>6. r \in Entry /\ Held(r) /\ Adds(d, r)
  BY <1>3, <1>4, <1>5, FinishedIsSound, RulesAdd DEF SoundEntry
<1>7. Finished(id, ranLong) = ResetDetector(r)
  BY <1>2, <1>5 DEF Finished
<1>8. Adds(e, r) /\ Adds(r, ResetDetector(r))
  BY <1>4, <1>6, AddsChain, QuietAdds
<1> QED BY <1>7, <1>8, AddsChain

\* The terminal and the timers of the entries.
LEMMA TerminalOutlasts ==
  ASSUME Inv, disposed = FALSE, NEW id \in Sessions, NEW d \in Detector,
         NEW argv0 \in Commands \cup {None}, NEW ranLong \in BOOLEAN,
         \/ Data(id, d) \/ Resize(id) \/ DetectorTimer(id, d) \/ DetectorSettles(id) \/ DeferredTimer(id)
         \/ Notification(id) \/ EmptyReport(id) \/ ProgressActive(id) \/ ProgressEnds(id) \/ CommandLine(id)
         \/ CommandStart(id, argv0) \/ CommandFinish(id, ranLong) \/ Exit(id, ranLong)
  PROVE  AllOutlast
<1> DEFINE e == entry[id]
<1>1. e \in Entry /\ SoundEntry(e) /\ Held(e)
  BY EntryFacts DEF SoundEntry
<1>a. /\ Adds(e, e) /\ Adds(e, ResetDetector(e)) /\ Adds(e, CycleOver(e))
      /\ \A x, o : /\ Adds(e, [e EXCEPT !.detector = x])
                   /\ Adds(e, [e EXCEPT !.detector = x, !.outputSinceRing = o])
                   /\ Adds(e, [e EXCEPT !.commandExit = IF @ = "ALERT_RINGING" THEN @ ELSE "IDLE", !.watch = x])
  BY <1>1, QuietAdds
<1>2. CASE Data(id, d)
  <2>1. Put(id, [e EXCEPT !.detector = d, !.outputSinceRing = entry[id].ringCommand # None])
    BY <1>2 DEF Data
  <2> QED BY <1>a, <2>1, PutAdds
<1>3. CASE DetectorTimer(id, d)
  <2>1. Put(id, [e EXCEPT !.detector = d])
    BY <1>3 DEF DetectorTimer
  <2> QED BY <1>a, <2>1, PutAdds
<1>4. CASE Resize(id) \/ EmptyReport(id) \/ CommandLine(id)
  <2>1. Put(id, e)
    BY <1>4 DEF Resize, EmptyReport, CommandLine
  <2> QED BY <1>a, <2>1, PutAdds
<1>5. CASE DetectorSettles(id)
  <2>1. PICK r : r = IF Claimed(id, "settled") THEN e ELSE RingSettled(id, e)
    OBVIOUS
  <2>2. r \in Entry /\ Held(r) /\ Adds(e, r)
    BY <1>1, <1>a, <2>1, SettledIsSound, RulesAdd
  <2>3. PICK f \in Entry : f = Flush(id, r) /\ Held(f)
    BY <2>2, FlushIsSound DEF SoundEntry
  <2>4. Adds(r, f) /\ Adds(f, ResetDetector(f))
    BY <2>2, <2>3, FlushAdds, QuietAdds
  <2>5. Adds(e, ResetDetector(f))
    BY <2>2, <2>4, AddsChain
  <2>6. Put(id, ResetDetector(f))
    BY <1>5, <2>1, <2>3 DEF DetectorSettles
  <2> QED BY <2>5, <2>6, PutAdds
<1>6. CASE DeferredTimer(id)
  <2>1. Put(id, Flush(id, e)) /\ Adds(e, Flush(id, e))
    BY <1>1, <1>6, FlushAdds DEF DeferredTimer
  <2> QED BY <2>1, PutAdds
<1>7. CASE Notification(id)
  <2>1. Adds(e, RingNotified(id, e))
    BY <1>1, RulesAdd
  <2>2. Put(id, e) \/ Put(id, RingNotified(id, e))
    BY <1>7 DEF Notification, DispatchNotification
  <2> QED BY <1>a, <2>1, <2>2, PutAdds
<1>8. CASE ProgressEnds(id)
  <2>1. PICK g : g = CycleOver(e)
    OBVIOUS
  <2>2. g \in Entry /\ SoundEntry(g) /\ Adds(e, g)
    <3>1. g \in Entry
      BY <1>1, <2>1 DEF CycleOver, Entry
    <3>2. /\ g.commandExit = e.commandExit /\ g.ringCommand = e.ringCommand /\ g.deferred = e.deferred
          /\ g.notification = e.notification /\ g.todo = e.todo /\ g.watch = e.watch /\ g.progress = FALSE
          /\ g.protocol = IF e.protocol = "OSC_NOTIF_BUSY" THEN "IDLE" ELSE e.protocol
      BY <1>1, <2>1 DEF CycleOver, Entry
    <3>3. SoundEntry(g)
      BY <1>1, <3>2 DEF SoundEntry, Held, Ringing
    <3> QED BY <1>a, <2>1, <3>1, <3>3
  <2>3. Adds(g, RingNotified(id, g))
    BY <2>2, RulesAdd
  <2>4. Adds(e, RingNotified(id, g))
    BY <2>2, <2>3, AddsChain
  <2>5. Put(id, g) \/ Put(id, RingNotified(id, g))
    BY <1>8, <2>1 DEF ProgressEnds, DispatchNotification
  <2> QED BY <2>2, <2>4, <2>5, PutAdds
<1>9. CASE ProgressActive(id)
  <2>1. PICK f : f = [e EXCEPT !.progress = TRUE, !.protocol = "OSC_NOTIF_BUSY"]
    OBVIOUS
  <2>2. /\ f.progress = TRUE /\ f.todo = e.todo /\ f.notification = e.notification
        /\ f.commandExit = e.commandExit /\ f.ringCommand = e.ringCommand
    BY <1>1, <2>1 DEF Entry
  <2>3. Outlasts(e, f)
    BY <1>1, <2>2 DEF Outlasts, Held
  <2>4. Put(id, f)
    BY <1>9, <2>1 DEF ProgressActive
  <2> QED BY <2>3, <2>4, PutOutlasts
<1>10. CASE CommandStart(id, argv0)
  <2>1. PICK w : w = [argv0 |-> argv0, seen |-> HasAttention(id), running |-> TRUE]
    OBVIOUS
  <2>2. PICK g : g = [e EXCEPT !.commandExit = IF @ = "ALERT_RINGING" THEN @ ELSE "IDLE", !.watch = w]
    OBVIOUS
  <2>3. Adds(e, g)
    BY <1>a, <2>2
  <2>4. Adds(e, ResetDetector(g))
    BY <1>1, <2>2, <2>3 DEF Adds, ResetDetector, Entry
  <2>5. Put(id, ResetDetector(g))
    BY <1>10, <2>1, <2>2 DEF CommandStart
  <2> QED BY <2>4, <2>5, PutAdds
<1>11. CASE CommandFinish(id, ranLong) \/ Exit(id, ranLong)
  <2>1. Put(id, Finished(id, ranLong))
    BY <1>11 DEF CommandFinish, Exit
  <2> QED BY <2>1, FinishedAdds, PutAdds
<1> QED BY <1>2, <1>3, <1>4, <1>5, <1>6, <1>7, <1>8, <1>9, <1>10, <1>11

\* What is left of the timers: attention runs out, and an await ends.
LEMMA OthersOutlast ==
  ASSUME Inv, disposed = FALSE, LoseAttention \/ entry' = entry
  PROVE  AllOutlast
<1> SUFFICES ASSUME NEW s \in Sessions PROVE Outlasts(entry[s], entry'[s])
  BY DEF AllOutlast
<1>1. entry[s] \in Entry /\ Held(entry[s])
  BY EntryFacts DEF SoundEntry
<1>2. entry'[s] = entry[s] \/ (entry'[s] = Armed(entry[s]) /\ entry[s].commandExit = "IDLE")
  BY DEF LoseAttention, ArmsOnLoss
<1>3. Adds(entry[s], entry'[s])
  BY <1>1, <1>2, QuietAdds
<1> QED BY <1>3 DEF Adds, Outlasts

\* Nothing the terminal reports and no timer takes a ring, a TODO or a text the
\* user has not seen, but progress, which overwrites a protocol ring and leaves
\* its text and TODO (dispatchCompletion, finishCommandExitWatch, onSettled,
\* updateProtocolProgress).
THEOREM ReportsTakeNothing == Spec => RingsOutliveReports
<1> DEFINE Outlives == \A id \in Sessions : Outlasts(entry[id], entry'[id]) \/ ~(TerminalEvent \/ TimerEvent)
<1>1. Inv /\ [Next]_vars => [Outlives]_vars
  <2> SUFFICES ASSUME Inv, Next, TerminalEvent \/ TimerEvent PROVE AllOutlast
    BY DEF AllOutlast
  <2>0. disposed = FALSE
    BY DEF Next, Inv, TypeOK
  <2>1. /\ None \in Commands \cup {None} /\ TRUE \in BOOLEAN /\ NewDetector \in Detector
    BY DEF NewDetector, Detector, QuiesceStatus
  <2>2. CASE TerminalEvent
    BY <2>0, <2>1, <2>2, TerminalOutlasts DEF TerminalEvent, AnyData
  <2>3. CASE TimerEvent
    <3>1. CASE \E id \in Sessions : (\E d \in Detector : DetectorTimer(id, d)) \/ DetectorSettles(id) \/ DeferredTimer(id)
      BY <2>0, <2>1, <3>1, TerminalOutlasts
    <3>2. CASE LoseAttention \/ \E w \in Waiters, outcome \in {"idle", "timeout", "cancelled"} : AwaitEnds(w, outcome)
      BY <2>0, <3>2, OthersOutlast DEF AwaitEnds
    <3> QED BY <2>3, <3>1, <3>2 DEF TimerEvent
  <2> QED BY <2>2, <2>3
<1> QED BY <1>1, InvHolds, PTL DEF Spec, RingsOutliveReports

-----------------------------------------------------------------------------
(* Attention, and what awaits answer.                                      *)

\* Whoever loses attention with a command still running is armed from then on,
\* however attention was lost and wherever it went (setAttention, clearAttention).
THEOREM LosersAreArmed == Spec => LosingAttentionArms
<1> DEFINE Arms == \A id \in live \cap live' :
                     attentionId = id /\ attentionId' # id /\ entry[id].watch.running =>
                       entry'[id].commandExit = "COMMAND_EXIT_ARMED"
<1>1. ASSUME Inv, More, [Next]_vars, NEW id \in live \cap live',
             attentionId = id, attentionId' # id, entry[id].watch.running
      PROVE  entry'[id].commandExit = "COMMAND_EXIT_ARMED"
  <2>1. /\ id \in Sessions /\ id \in live /\ id \in live' /\ entry[id] \in Entry
    BY <1>1 DEF Inv, TypeOK
  <2>2. Next /\ disposed = FALSE
    BY <1>1 DEF vars, Next, Inv, TypeOK
  <2>3. ArmsOnLoss(id)
    BY <1>1, <2>1, <2>2 DEF ArmsOnLoss, Inv, AttendedIsQuiet, More, SeenWhileAttended
  <2>4. Armed(entry[id]).commandExit = "COMMAND_EXIT_ARMED"
    BY <2>1 DEF Armed, Entry
  <2>5. CASE LoseAttention
    BY <1>1, <2>1, <2>3, <2>4, <2>5 DEF LoseAttention
  <2>6. ASSUME NEW other \in Sessions, Attend(other) PROVE entry'[id] = Armed(entry[id])
    BY <1>1, <2>1, <2>3, <2>6 DEF Attend
  <2>7. ASSUME NEW other \in Sessions PROVE ~Remove(other)
    BY <1>1, <2>1 DEF Remove, HasAttention
  <2>8. ~TerminalEvent /\ ~HostEvent /\ ~AwaitEvent /\ ~Dispose
    <3>1. ~TerminalEvent
      BY <1>1 DEF TerminalEvent, AnyData, Data, Resize, Notification, EmptyReport, ProgressActive, ProgressEnds,
                  CommandLine, CommandStart, CommandFinish, Exit
    <3>2. ~HostEvent
      BY <1>1, <2>7 DEF HostEvent, SetHelper, Seed
    <3>3. ~AwaitEvent /\ ~Dispose
      BY <1>1 DEF AwaitEvent, AwaitRefused, AwaitAnswered, AwaitParks, Dispose
    <3> QED BY <3>1, <3>2, <3>3
  <2>9. CASE TimerEvent
    BY <1>1, <2>5, <2>9 DEF TimerEvent, DetectorTimer, DetectorSettles, DeferredTimer, AwaitEnds
  <2>10. CASE UserEvent
    BY <1>1, <2>4, <2>6, <2>10 DEF UserEvent, DismissAlert, ToggleTodo, MarkTodo, ClearTodo, SetTodo,
                                   SetWatchedCommands, SetDeferAlertsUntilQuiet
  <2> QED BY <2>2, <2>8, <2>9, <2>10 DEF Next
<1>2. Inv /\ More /\ [Next]_vars => [Arms]_vars
  BY <1>1
<1> QED BY <1>2, MoreHolds, PTL DEF Spec, LosingAttentionArms

HonestAnswer(w) ==
  LET id == wait[w].id IN
  IF Idle(w)
  THEN answered'[w] = "exit" =>
         \E s \in live : ~entry[s].watch.running /\ entry[s].commandExit = "ALERT_RINGING"
                         /\ entry'[s].commandExit = "IDLE"
  ELSE /\ answered'[w] = "exit" => entry[id].watch.running /\ ~entry'[id].watch.running
       /\ answered'[w] = "idle" => ~entry[id].watch.running
       /\ answered'[w] \in {"quiet", "bell"} => wait[w].until = "quiet"
QuietAnswer(w, id) ==
  answered'[w] \in {"quiet", "exit", "bell"}
  /\ (wait[w].id = id \/ Idle(w))
  /\ ~(answered'[w] = "quiet" /\ entry[id].deferred) => SameChannel(entry[id], entry'[id])
GoodAnswers == \A w \in Waiters : HonestAnswer(w) /\ \A id \in Sessions : QuietAnswer(w, id)

\* A waiter that hears nothing, or only that it waited in vain, was not lied to.
LEMMA NoAnswer ==
  ASSUME NEW w, answered'[w] \in {None, "died", "timeout", "cancelled"}
  PROVE  HonestAnswer(w) /\ \A id \in Sessions : QuietAnswer(w, id)
<1>1. answered'[w] \notin {"quiet", "exit", "bell", "idle"}
  BY DEF Outcome
<1> QED BY <1>1 DEF HonestAnswer, QuietAnswer

\* A waiter parked on a Session is on no other, and is not idle.
LEMMA ParkedFacts ==
  ASSUME NEW id \in Sessions, NEW w \in Parked(id)
  PROVE  w \in Waiters /\ wait[w].id = id /\ ~Idle(w)
BY DEF Parked, Idle, Free

\* Nobody is told anything by a step that settles nobody.
LEMMA SilentStep ==
  ASSUME \A w \in Waiters : answered'[w] \in {None, "died", "timeout", "cancelled"}
  PROVE  GoodAnswers
BY NoAnswer DEF GoodAnswers

\* What is settled in one handler is told the same (settleAwait).
LEMMA SettledAre ==
  ASSUME NEW S, NEW outcome, Settle(S, outcome)
  PROVE  \A w \in Waiters : answered'[w] = IF w \in S THEN outcome ELSE None
BY DEF Settle

\* A settle or a notification that an await takes (dispatchCompletion).
LEMMA ClaimedIsGood ==
  ASSUME Inv, NEW id \in Sessions, NEW f, Put(id, f), NEW kind \in {"settled", "notification"},
         Settle(Claimants(id, kind), IF kind = "settled" THEN "quiet" ELSE "bell"),
         Claimed(id, kind) /\ (kind = "settled" => ~entry[id].deferred) => SameChannel(entry[id], f)
  PROVE  GoodAnswers
<1> SUFFICES ASSUME NEW w \in Waiters PROVE HonestAnswer(w) /\ \A s \in Sessions : QuietAnswer(w, s)
  BY DEF GoodAnswers
<1>1. answered'[w] = IF w \in Claimants(id, kind) THEN (IF kind = "settled" THEN "quiet" ELSE "bell") ELSE None
  BY SettledAre
<1>2. CASE w \notin Claimants(id, kind)
  BY <1>1, <1>2, NoAnswer
<1>3. CASE w \in Claimants(id, kind)
  <2>1. /\ w \in Parked(id) /\ wait[w].until = "quiet" /\ Claimed(id, kind)
    BY <1>3 DEF Claimants, Claimed
  <2>2. wait[w].id = id /\ ~Idle(w)
    BY <2>1, ParkedFacts
  <2>3. HonestAnswer(w)
    BY <1>1, <1>3, <2>1, <2>2 DEF HonestAnswer
  <2>4. entry'[id] = f
    BY PutFacts
  <2>5. ASSUME NEW s \in Sessions PROVE QuietAnswer(w, s)
    <3>1. answered'[w] = IF kind = "settled" THEN "quiet" ELSE "bell"
      BY <1>1, <1>3
    <3> QED BY <2>1, <2>2, <2>4, <3>1 DEF QuietAnswer
  <2> QED BY <2>3, <2>5
<1> QED BY <1>2, <1>3

\* The end of a command, and of the Session it ran in (finishCommandExitWatch, onExit).
LEMMA FinishIsGood ==
  ASSUME Inv, disposed = FALSE, NEW id \in Sessions, NEW ranLong \in BOOLEAN,
         CommandFinish(id, ranLong) \/ Exit(id, ranLong)
  PROVE  GoodAnswers
<1> DEFINE e == entry[id]
<1>1. e \in Entry
  BY EntryFacts
<1>2. CASE ~e.watch.running
  <2>1. \A w \in Waiters : answered'[w] \in {None, "died"}
    BY <1>2 DEF CommandFinish, Exit, Settle
  <2> QED BY <2>1, SilentStep
<1>3. CASE e.watch.running
  <2>1. Settle(Parked(id), "exit") /\ Put(id, Finished(id, ranLong))
    BY <1>3 DEF CommandFinish, Exit
  <2>2. entry'[id] = Finished(id, ranLong)
    BY <2>1, PutFacts
  <2>3. \A w \in Waiters : answered'[w] = IF w \in Parked(id) THEN "exit" ELSE None
    BY <2>1, SettledAre
  <2> SUFFICES ASSUME NEW w \in Waiters PROVE HonestAnswer(w) /\ \A s \in Sessions : QuietAnswer(w, s)
    BY DEF GoodAnswers
  <2>4. CASE w \notin Parked(id)
    BY <2>3, <2>4, NoAnswer
  <2>5. CASE w \in Parked(id)
    <3>1. wait[w].id = id /\ ~Idle(w) /\ answered'[w] = "exit"
      BY <2>3, <2>5, ParkedFacts
    <3>2. ~entry'[id].watch.running
      <4>1. Finished(id, ranLong).watch = NoWatch
        BY FinishedFacts
      <4> QED BY <2>2, <4>1 DEF NoWatch
    <3>3. HonestAnswer(w)
      BY <1>3, <3>1, <3>2 DEF HonestAnswer
    <3>4. Claimed(id, "commandFinished")
      BY <2>5 DEF Claimed, Claimants, Parked
    <3>5. entry'[id] = ResetDetector(Disarmed(e))
      BY <2>2, <3>4, FinishedFacts
    <3>6. SameChannel(e, entry'[id])
      BY <1>1, <3>5 DEF SameChannel, ResetDetector, Disarmed, Entry
    <3> QED BY <3>1, <3>3, <3>6 DEF QuietAnswer
  <2> QED BY <2>4, <2>5
<1> QED BY <1>2, <1>3

\* What the terminal and the timers make an await answer is so.
LEMMA TerminalAnswers ==
  ASSUME Inv, disposed = FALSE, NEW id \in Sessions, NEW d \in Detector,
         NEW argv0 \in Commands \cup {None}, NEW ranLong \in BOOLEAN,
         \/ Data(id, d) \/ Resize(id) \/ DetectorTimer(id, d) \/ DetectorSettles(id) \/ DeferredTimer(id)
         \/ Notification(id) \/ EmptyReport(id) \/ ProgressActive(id) \/ ProgressEnds(id) \/ CommandLine(id)
         \/ CommandStart(id, argv0) \/ CommandFinish(id, ranLong) \/ Exit(id, ranLong)
  PROVE  GoodAnswers
<1> DEFINE e == entry[id]
<1>1. e \in Entry
  BY EntryFacts
<1>2. CASE \/ Data(id, d) \/ Resize(id) \/ DetectorTimer(id, d) \/ DeferredTimer(id)
           \/ EmptyReport(id) \/ ProgressActive(id) \/ CommandLine(id) \/ CommandStart(id, argv0)
  <2>1. \A w \in Waiters : answered'[w] = None
    BY <1>2 DEF Data, Resize, DetectorTimer, DeferredTimer, EmptyReport, ProgressActive, CommandLine,
                CommandStart, NobodySettles, Settle, EndGrace
  <2> QED BY <2>1, SilentStep
<1>3. CASE DetectorSettles(id)
  <2> DEFINE r == IF Claimed(id, "settled") THEN e ELSE RingSettled(id, e)
             f == ResetDetector(Flush(id, r))
  <2>1. Put(id, f) /\ Settle(Claimants(id, "settled"), "quiet")
    BY <1>3 DEF DetectorSettles
  <2>2. Claimed(id, "settled") /\ ~e.deferred => SameChannel(e, f)
    BY <1>1 DEF Flush, ResetDetector, SameChannel, Entry
  <2> HIDE DEF f
  <2> QED BY <2>1, <2>2, ClaimedIsGood
<1>4. CASE Notification(id) \/ ProgressEnds(id)
  <2>1. PICK g \in {e, CycleOver(e)} : DispatchNotification(id, g)
    BY <1>4 DEF Notification, ProgressEnds
  <2> DEFINE f == IF Claimed(id, "notification") THEN g ELSE RingNotified(id, g)
  <2>2. Put(id, f) /\ Settle(Claimants(id, "notification"), "bell")
    BY <2>1 DEF DispatchNotification
  <2>3. SameChannel(e, g)
    BY <1>1 DEF SameChannel, CycleOver, Entry
  <2>4. Claimed(id, "notification") => SameChannel(e, f)
    BY <2>3
  <2> HIDE DEF f
  <2> QED BY <2>2, <2>4, ClaimedIsGood
<1> QED BY <1>2, <1>3, <1>4, FinishIsGood

\* Nor do the user, the host and the await's own end make it lie (remove, settleAwait).
LEMMA ControlAnswers ==
  ASSUME Inv, More, disposed = FALSE, NEW id \in Sessions, NEW names \in SUBSET Commands, NEW on \in BOOLEAN,
         NEW helper \in BOOLEAN, NEW todo \in BOOLEAN, NEW n \in {None, "protocol", "COMMAND_EXIT"},
         NEW w, NEW until \in Until, NEW outcome,
         \/ DismissAlert(id) \/ ToggleTodo(id) \/ MarkTodo(id) \/ ClearTodo(id) \/ Seed(id, todo, n)
         \/ Attend(id) \/ LoseAttention \/ SetWatchedCommands(names) \/ SetDeferAlertsUntilQuiet(on)
         \/ SetHelper(id, helper) \/ Remove(id)
         \/ AwaitRefused(w, id) \/ AwaitAnswered(w, id, until) \/ AwaitParks(w, id, until)
         \/ w \in Waiters /\ outcome \in {"idle", "timeout", "cancelled"} /\ AwaitEnds(w, outcome)
  PROVE  GoodAnswers
<1>1. CASE \/ DismissAlert(id) \/ ToggleTodo(id) \/ MarkTodo(id) \/ ClearTodo(id) \/ Seed(id, todo, n)
           \/ Attend(id) \/ LoseAttention \/ SetWatchedCommands(names) \/ SetDeferAlertsUntilQuiet(on)
           \/ SetHelper(id, helper) \/ Remove(id) \/ AwaitRefused(w, id) \/ AwaitParks(w, id, until)
  <2>1. \A v \in Waiters : answered'[v] \in {None, "died", "cancelled"}
    BY <1>1 DEF DismissAlert, ToggleTodo, MarkTodo, ClearTodo, SetTodo, Seed, Attend, LoseAttention,
                SetWatchedCommands, SetDeferAlertsUntilQuiet, SetHelper, Remove, AwaitRefused, AwaitParks,
                NobodySettles, Settle, Answer
  <2> QED BY <2>1, SilentStep
<1>2. CASE AwaitAnswered(w, id, until)
  <2> DEFINE e == entry[id]
             cause == AwaitableRing(e, until)
  <2>1. /\ Idle(w) /\ cause \in {"bell", "exit", "quiet"} /\ Put(id, Consumed(e, cause)) /\ Answer(w, cause)
        /\ e \in Entry
    BY <1>2, EntryFacts DEF AwaitAnswered, AwaitableRing
  <2>2. \A s \in Sessions : entry'[s] = IF s = id THEN Consumed(e, cause) ELSE entry[s]
    <3> HIDE DEF cause
    <3> QED BY <2>1, PutFacts
  <2>3. cause = "exit" => ~e.watch.running /\ e.commandExit = "ALERT_RINGING" /\ id \in live
    <3>1. cause = "exit" => ExitAnswers(e)
      BY DEF AwaitableRing, Outcome
    <3>2. e.commandExit = "ALERT_RINGING" => id \in live
      BY DEF More, AbsentIsNew, NewEntry
    <3> QED BY <3>1, <3>2 DEF ExitAnswers
  <2>4. cause = "exit" => Consumed(e, cause).commandExit = "IDLE"
    BY <2>1 DEF Consumed, ReleaseCommandExit, Entry
  <2>5. SameChannel(e, Consumed(e, cause))
    BY <2>1, ConsumeKeeps
  <2> HIDE DEF cause
  <2> SUFFICES ASSUME NEW v \in Waiters PROVE HonestAnswer(v) /\ \A s \in Sessions : QuietAnswer(v, s)
    BY DEF GoodAnswers
  <2>6. CASE v # w
    <3>1. answered'[v] = None
      BY <2>1, <2>6 DEF Answer
    <3> QED BY <3>1, NoAnswer
  <2>7. CASE v = w
    <3>1. answered'[v] = cause
      BY <2>1, <2>7 DEF Answer
    <3>2. HonestAnswer(v)
      BY <2>1, <2>2, <2>3, <2>4, <2>7, <3>1 DEF HonestAnswer
    <3>3. \A s \in Sessions : SameChannel(entry[s], entry'[s])
      BY <2>2, <2>5 DEF SameChannel
    <3> QED BY <3>2, <3>3 DEF QuietAnswer
  <2> QED BY <2>6, <2>7
<1>3. CASE w \in Waiters /\ outcome \in {"idle", "timeout", "cancelled"} /\ AwaitEnds(w, outcome)
  <2> SUFFICES ASSUME NEW v \in Waiters PROVE HonestAnswer(v) /\ \A s \in Sessions : QuietAnswer(v, s)
    BY DEF GoodAnswers
  <2>1. answered'[v] = IF v = w THEN outcome ELSE None
    BY <1>3 DEF AwaitEnds, Settle
  <2>2. CASE v # w \/ outcome # "idle"
    BY <1>3, <2>1, <2>2, NoAnswer
  <2>3. CASE v = w /\ outcome = "idle"
    <3>1. ~Idle(v) /\ ~entry[wait[v].id].watch.running
      BY <1>3, <2>3 DEF AwaitEnds, More, GraceIsIdle
    <3> QED BY <2>1, <2>3, <3>1 DEF HonestAnswer, QuietAnswer
  <2> QED BY <2>2, <2>3
<1> QED BY <1>1, <1>2, <1>3

\* So no step of the class gives a false answer.
LEMMA AnswerStep == Inv /\ More /\ Next => GoodAnswers
<1> SUFFICES ASSUME Inv, More, Next PROVE GoodAnswers
  OBVIOUS
<1>1. disposed = FALSE
  BY DEF Next, Inv, TypeOK
<1>2. CASE Dispose
  <2>1. \A w \in Waiters : answered'[w] \in {None, "cancelled"}
    BY <1>2 DEF Dispose, Settle
  <2> QED BY <2>1, SilentStep
<1>3. CASE TerminalEvent \/ TimerEvent \/ UserEvent \/ HostEvent \/ AwaitEvent
  <2>0. /\ None \in Commands \cup {None} /\ TRUE \in BOOLEAN /\ NewDetector \in Detector /\ {} \in SUBSET Commands
        /\ None \in {None, "protocol", "COMMAND_EXIT"} /\ "quiet" \in Until
    BY DEF NewDetector, Detector, QuiesceStatus, Until
  <2>1. CASE TerminalEvent
    BY <1>1, <2>0, <2>1, TerminalAnswers DEF TerminalEvent, AnyData
  <2>2. CASE TimerEvent
    <3>1. CASE LoseAttention
      <4>1. attentionId \in Sessions
        BY <3>1 DEF LoseAttention, Inv, TypeOK
      <4> QED BY <1>1, <2>0, <3>1, <4>1, ControlAnswers
    <3>2. CASE \E w \in Waiters, outcome \in {"idle", "timeout", "cancelled"} : AwaitEnds(w, outcome)
      <4>1. PICK w \in Waiters, outcome \in {"idle", "timeout", "cancelled"} : AwaitEnds(w, outcome)
        BY <3>2
      <4>2. wait[w].id \in Sessions
        BY <4>1 DEF AwaitEnds, Idle, Inv, TypeOK, Wait
      <4> QED BY <1>1, <2>0, <4>1, <4>2, ControlAnswers
    <3>3. CASE \E id \in Sessions : (\E d \in Detector : DetectorTimer(id, d)) \/ DetectorSettles(id) \/ DeferredTimer(id)
      BY <1>1, <2>0, <3>3, TerminalAnswers
    <3> QED BY <2>2, <3>1, <3>2, <3>3 DEF TimerEvent
  <2>3. CASE UserEvent
    <3>1. CASE \E id \in Sessions : Attend(id) \/ DismissAlert(id) \/ ToggleTodo(id) \/ MarkTodo(id) \/ ClearTodo(id)
      BY <1>1, <2>0, <3>1, ControlAnswers
    <3>2. CASE \/ \E names \in SUBSET Commands : SetWatchedCommands(names)
               \/ \E on \in BOOLEAN : SetDeferAlertsUntilQuiet(on)
      <4>1. \A w \in Waiters : answered'[w] = None
        BY <3>2 DEF SetWatchedCommands, SetDeferAlertsUntilQuiet, NobodySettles, Settle
      <4> QED BY <4>1, SilentStep
    <3> QED BY <2>3, <3>1, <3>2 DEF UserEvent
  <2>4. CASE HostEvent
    BY <1>1, <2>0, <2>4, ControlAnswers, HelperAssumption DEF HostEvent
  <2>5. CASE AwaitEvent
    BY <1>1, <2>0, <2>5, ControlAnswers DEF AwaitEvent
  <2> QED BY <1>3, <2>1, <2>2, <2>3, <2>4, <2>5
<1> QED BY <1>2, <1>3 DEF Next

\* What an await answers is so: exit only for a command that ended, idle only
\* with no command running, and an exit await on nothing but an exit
\* (awaitCauseFor, consumeAwaitableRing, awaitCompletion).
THEOREM AwaitsAreHonest == Spec => AwaitIsHonest
<1>1. Inv /\ More /\ [Next]_vars =>
        [\A w \in Waiters :
           LET id == wait[w].id IN
           IF Idle(w)
           THEN answered'[w] = "exit" =>
                  \E s \in live : ~entry[s].watch.running /\ entry[s].commandExit = "ALERT_RINGING"
                                  /\ entry'[s].commandExit = "IDLE"
           ELSE /\ answered'[w] = "exit" => entry[id].watch.running /\ ~entry'[id].watch.running
                /\ answered'[w] = "idle" => ~entry[id].watch.running
                /\ answered'[w] \in {"quiet", "bell"} => wait[w].until = "quiet"]_vars
  <2>1. Inv /\ More /\ Next => \A w \in Waiters : HonestAnswer(w)
    BY AnswerStep DEF GoodAnswers
  <2> QED BY <2>1 DEF HonestAnswer
<1> QED BY <1>1, MoreHolds, PTL DEF Spec, AwaitIsHonest

\* A completion an await takes never rings and leaves the user's channel as it
\* was, but for what had been held back (dispatchCompletion).
THEOREM ClaimsAreSilent == Spec => ClaimedNeverRings
<1>1. Inv /\ More /\ [Next]_vars =>
        [\A w \in Waiters, id \in Sessions :
           answered'[w] \in {"quiet", "exit", "bell"}
           /\ (wait[w].id = id \/ Idle(w))
           /\ ~(answered'[w] = "quiet" /\ entry[id].deferred) =>
             /\ entry'[id].ringSeq = entry[id].ringSeq
             /\ entry'[id].todo = entry[id].todo
             /\ entry'[id].notification = entry[id].notification]_vars
  <2>1. Inv /\ More /\ Next => \A w \in Waiters, id \in Sessions : QuietAnswer(w, id)
    BY AnswerStep DEF GoodAnswers
  <2> QED BY <2>1 DEF QuietAnswer, SameChannel
<1> QED BY <1>1, MoreHolds, PTL DEF Spec, ClaimedNeverRings

-----------------------------------------------------------------------------
(* The detector with its timers (QuiesceDetector), and what the            *)
(* AlertManager builds on (OutputDetector).                                *)

\* The state, timer by timer.
DetectorTypes ==
  /\ timer \in [Quiesce!Timers -> Int]
  /\ timer["candidate"] \in -1 .. TBusyCandidate /\ timer["confirm"] \in -1 .. TBusyConfirm
  /\ timer["mightNeed"] \in -1 .. TMightNeed /\ timer["settled"] \in -1 .. TSettled
  /\ timer["resize"] \in -1 .. TResize
  /\ status \in QuiesceStatus /\ resizeGrace \in BOOLEAN /\ detectorDisposed \in BOOLEAN
  /\ first \in -1 .. Quiesce!AgeCap /\ last \in -1 .. Quiesce!AgeCap /\ accepted \in -1 .. Quiesce!AgeCap
  /\ count \in 0 .. 2 /\ settles \in 0 .. 1

\* What the ages say while a timer runs: a burst in doubt, or busyness, is
\* younger than a quiesce window, and the settle comes at its end.
DetectorClock ==
  /\ detectorDisposed =>
       /\ timer["candidate"] = -1 /\ timer["confirm"] = -1 /\ timer["mightNeed"] = -1 /\ timer["settled"] = -1
       /\ timer["resize"] = -1
  /\ status = "NOTHING_TO_SHOW" /\ count = 2 /\ timer["candidate"] # -1
       => accepted + timer["candidate"] <= TBusyCandidate
  /\ timer["confirm"] # -1 => accepted + timer["confirm"] <= TBusyCandidate + TBusyConfirm
  /\ timer["mightNeed"] # -1 => accepted + timer["mightNeed"] = TMightNeed
  /\ timer["settled"] # -1 => accepted + timer["settled"] = TMightNeed + TSettled

DetectorInv == DetectorTypes /\ Quiesce!TimersMatchStatus /\ DetectorClock

\* The delays.
LEMMA Delays ==
  /\ TBusyCandidate \in Nat /\ TBusyConfirm \in Nat /\ TMightNeed \in Nat /\ TSettled \in Nat /\ TResize \in Nat
  /\ TBusyCandidate > 0 /\ TBusyConfirm > 0 /\ TMightNeed > 0 /\ TSettled > 0 /\ TResize > 0
  /\ TBusyCandidate + TBusyConfirm < TMightNeed + TSettled
  /\ Quiesce!AgeCap \in Nat /\ Quiesce!AgeCap >= TMightNeed + TSettled /\ Quiesce!AgeCap >= TBusyCandidate
BY DelaysHold DEF Quiesce!DelaysAssumption, Quiesce!AgeCap, Quiesce!QuiesceAfterOutput

\* A function of the five timers, each within its delay, timer by timer.
LEMMA FiveTimers ==
  ASSUME NEW f \in [Quiesce!Timers -> Int]
  PROVE  /\ (\A t \in Quiesce!Timers : f[t] \in Quiesce!Off .. Quiesce!Delay[t]) <=>
              /\ f["candidate"] \in -1 .. TBusyCandidate /\ f["confirm"] \in -1 .. TBusyConfirm
              /\ f["mightNeed"] \in -1 .. TMightNeed /\ f["settled"] \in -1 .. TSettled
              /\ f["resize"] \in -1 .. TResize
         /\ (\A t \in Quiesce!Timers : f[t] = Quiesce!Off) <=>
              /\ f["candidate"] = -1 /\ f["confirm"] = -1 /\ f["mightNeed"] = -1 /\ f["settled"] = -1
              /\ f["resize"] = -1
         /\ f["candidate"] \in Int /\ f["confirm"] \in Int /\ f["mightNeed"] \in Int /\ f["settled"] \in Int
         /\ f["resize"] \in Int
<1>2. /\ Quiesce!Delay["candidate"] = TBusyCandidate /\ Quiesce!Delay["confirm"] = TBusyConfirm
      /\ Quiesce!Delay["mightNeed"] = TMightNeed /\ Quiesce!Delay["settled"] = TSettled
      /\ Quiesce!Delay["resize"] = TResize
  BY DEF Quiesce!Delay
<1>3. /\ "candidate" \in Quiesce!Timers /\ "confirm" \in Quiesce!Timers /\ "mightNeed" \in Quiesce!Timers
      /\ "settled" \in Quiesce!Timers /\ "resize" \in Quiesce!Timers
      /\ \A t \in Quiesce!Timers : t = "candidate" \/ t = "confirm" \/ t = "mightNeed" \/ t = "settled" \/ t = "resize"
  BY DEF Quiesce!Timers
<1>4. Quiesce!Off = -1
  BY DEF Quiesce!Off
<1>5. (\A t \in Quiesce!Timers : f[t] = -1) <=>
              /\ f["candidate"] = -1 /\ f["confirm"] = -1 /\ f["mightNeed"] = -1 /\ f["settled"] = -1
              /\ f["resize"] = -1
  BY <1>3
<1>6. (\A t \in Quiesce!Timers : f[t] \in -1 .. Quiesce!Delay[t]) <=>
              /\ f["candidate"] \in -1 .. TBusyCandidate /\ f["confirm"] \in -1 .. TBusyConfirm
              /\ f["mightNeed"] \in -1 .. TMightNeed /\ f["settled"] \in -1 .. TSettled
              /\ f["resize"] \in -1 .. TResize
  BY <1>2, <1>3
<1> QED BY <1>3, <1>4, <1>5, <1>6

\* What follows for the detector's own type and timers.
LEMMA DetectorTyped == DetectorInv => Quiesce!TypeOK /\ Quiesce!TimersMatchStatus
<1> SUFFICES ASSUME DetectorInv PROVE Quiesce!TypeOK
  BY DEF DetectorInv
<1>1. timer \in [Quiesce!Timers -> Int] /\ \A t \in Quiesce!Timers : timer[t] \in Quiesce!Off .. Quiesce!Delay[t]
  BY FiveTimers DEF DetectorInv, DetectorTypes
<1> QED BY <1>1 DEF DetectorInv, DetectorTypes, Quiesce!TypeOK, Quiesce!Unknown, Quiesce!QuiesceStatus, QuiesceStatus

\* The detector starts with no timer (Init).
LEMMA DetectorStarts == Quiesce!Init => DetectorInv
<1> SUFFICES ASSUME Quiesce!Init PROVE DetectorInv
  OBVIOUS
<1>1. /\ timer \in [Quiesce!Timers -> Int]
      /\ timer["candidate"] = -1 /\ timer["confirm"] = -1 /\ timer["mightNeed"] = -1 /\ timer["settled"] = -1
      /\ timer["resize"] = -1
  BY DEF Quiesce!Init, Quiesce!Timers, Quiesce!Off
<1>2. /\ status = "NOTHING_TO_SHOW" /\ resizeGrace = FALSE /\ detectorDisposed = FALSE
      /\ first = -1 /\ last = -1 /\ accepted = -1 /\ count = 0 /\ settles = 0
  BY DEF Quiesce!Init, Quiesce!Unknown
<1>3. DetectorTypes
  <2>1. -1 \in -1 .. TBusyCandidate /\ -1 \in -1 .. TBusyConfirm /\ -1 \in -1 .. TMightNeed
        /\ -1 \in -1 .. TSettled /\ -1 \in -1 .. TResize /\ -1 \in -1 .. Quiesce!AgeCap
        /\ 0 \in 0 .. 2 /\ 0 \in 0 .. 1
    BY Delays
  <2> QED BY <1>1, <1>2, <2>1 DEF DetectorTypes, QuiesceStatus
<1>4. Quiesce!TimersMatchStatus
  BY <1>1, <1>2 DEF Quiesce!TimersMatchStatus, Quiesce!Off
<1>5. DetectorClock
  BY <1>1, <1>2 DEF DetectorClock
<1> QED BY <1>3, <1>4, <1>5 DEF DetectorInv

\* clearActivityTimers, and arming the timers in A.
LEMMA Rearmed ==
  ASSUME DetectorInv, NEW A \in SUBSET Quiesce!Activity, timer' = Quiesce!Rearm(A)
  PROVE  /\ timer' \in [Quiesce!Timers -> Int]
         /\ timer'["candidate"] = IF "candidate" \in A THEN TBusyCandidate ELSE -1
         /\ timer'["confirm"] = IF "confirm" \in A THEN TBusyConfirm ELSE -1
         /\ timer'["mightNeed"] = IF "mightNeed" \in A THEN TMightNeed ELSE -1
         /\ timer'["settled"] = IF "settled" \in A THEN TSettled ELSE -1
         /\ timer'["resize"] = timer["resize"]
<1>1. timer' = [t \in Quiesce!Timers |->
                  IF t \in A THEN Quiesce!Delay[t] ELSE IF t \in Quiesce!Activity THEN -1 ELSE timer[t]]
  BY DEF Quiesce!Rearm, Quiesce!Off
<1>2. timer \in [Quiesce!Timers -> Int]
  BY DEF DetectorInv, DetectorTypes
<1>3. /\ Quiesce!Delay["candidate"] = TBusyCandidate /\ Quiesce!Delay["confirm"] = TBusyConfirm
      /\ Quiesce!Delay["mightNeed"] = TMightNeed /\ Quiesce!Delay["settled"] = TSettled
      /\ \A t \in Quiesce!Activity : Quiesce!Delay[t] \in Int
  BY Delays DEF Quiesce!Delay, Quiesce!Activity, Quiesce!Timers
<1>4. /\ {"candidate", "confirm", "mightNeed", "settled"} \subseteq Quiesce!Activity /\ "resize" \notin Quiesce!Activity
      /\ {"candidate", "confirm", "mightNeed", "settled", "resize"} \subseteq Quiesce!Timers
  BY DEF Quiesce!Activity, Quiesce!Timers
<1>5. timer' \in [Quiesce!Timers -> Int]
  BY <1>1, <1>2, <1>3
<1> QED BY <1>1, <1>3, <1>4, <1>5

\* What is known before a step.
LEMMA DetectorFacts ==
  ASSUME DetectorInv
  PROVE  /\ timer \in [Quiesce!Timers -> Int]
         /\ timer["candidate"] \in Int /\ -1 <= timer["candidate"] /\ timer["candidate"] <= TBusyCandidate
         /\ timer["confirm"] \in Int /\ -1 <= timer["confirm"] /\ timer["confirm"] <= TBusyConfirm
         /\ timer["mightNeed"] \in Int /\ -1 <= timer["mightNeed"] /\ timer["mightNeed"] <= TMightNeed
         /\ timer["settled"] \in Int /\ -1 <= timer["settled"] /\ timer["settled"] <= TSettled
         /\ timer["resize"] \in Int /\ -1 <= timer["resize"] /\ timer["resize"] <= TResize
         /\ accepted \in Int /\ -1 <= accepted /\ accepted <= Quiesce!AgeCap
         /\ timer["candidate"] # -1 => status = "NOTHING_TO_SHOW"
         /\ timer["confirm"] # -1 => status = "MIGHT_BE_BUSY"
         /\ timer["mightNeed"] # -1 => status = "BUSY"
         /\ timer["settled"] # -1 => status = "MIGHT_NEED_ATTENTION"
         /\ ~detectorDisposed =>
              /\ status = "MIGHT_BE_BUSY" => timer["confirm"] # -1
              /\ status = "BUSY" => timer["mightNeed"] # -1
              /\ status = "MIGHT_NEED_ATTENTION" => timer["settled"] # -1
              /\ timer["resize"] # -1 <=> resizeGrace
         /\ \/ status = "NOTHING_TO_SHOW" \/ status = "MIGHT_BE_BUSY"
            \/ status = "BUSY" \/ status = "MIGHT_NEED_ATTENTION"
<1>1. DetectorTypes /\ Quiesce!TimersMatchStatus /\ DetectorClock
  BY DEF DetectorInv
<1>2. /\ timer["candidate"] \in -1 .. TBusyCandidate /\ timer["confirm"] \in -1 .. TBusyConfirm
      /\ timer["mightNeed"] \in -1 .. TMightNeed /\ timer["settled"] \in -1 .. TSettled
      /\ timer["resize"] \in -1 .. TResize /\ accepted \in -1 .. Quiesce!AgeCap
      /\ timer \in [Quiesce!Timers -> Int]
  BY <1>1 DEF DetectorTypes
<1>3. \/ status = "NOTHING_TO_SHOW" \/ status = "MIGHT_BE_BUSY"
      \/ status = "BUSY" \/ status = "MIGHT_NEED_ATTENTION"
  BY <1>1 DEF DetectorTypes, QuiesceStatus
<1>4. /\ timer["candidate"] # -1 => status = "NOTHING_TO_SHOW"
      /\ timer["confirm"] # -1 => status = "MIGHT_BE_BUSY"
      /\ timer["mightNeed"] # -1 => status = "BUSY"
      /\ timer["settled"] # -1 => status = "MIGHT_NEED_ATTENTION"
  BY <1>1 DEF Quiesce!TimersMatchStatus, Quiesce!Off, DetectorClock
<1>5. ~detectorDisposed =>
              /\ status = "MIGHT_BE_BUSY" => timer["confirm"] # -1
              /\ status = "BUSY" => timer["mightNeed"] # -1
              /\ status = "MIGHT_NEED_ATTENTION" => timer["settled"] # -1
              /\ timer["resize"] # -1 <=> resizeGrace
  BY <1>1 DEF Quiesce!TimersMatchStatus, Quiesce!Off
<1>6. /\ timer["candidate"] \in Int /\ -1 <= timer["candidate"] /\ timer["candidate"] <= TBusyCandidate
      /\ timer["confirm"] \in Int /\ -1 <= timer["confirm"] /\ timer["confirm"] <= TBusyConfirm
      /\ timer["mightNeed"] \in Int /\ -1 <= timer["mightNeed"] /\ timer["mightNeed"] <= TMightNeed
      /\ timer["settled"] \in Int /\ -1 <= timer["settled"] /\ timer["settled"] <= TSettled
      /\ timer["resize"] \in Int /\ -1 <= timer["resize"] /\ timer["resize"] <= TResize
      /\ accepted \in Int /\ -1 <= accepted /\ accepted <= Quiesce!AgeCap
  BY <1>2, Delays
<1> QED BY <1>2, <1>3, <1>4, <1>5, <1>6

\* The moves an owner sees (OutputDetector), by status and by how long ago output
\* was last accepted.
OwnersView == [Quiesce!Contract!Next]_(Quiesce!Contract!dvars)
QuietNow == accepted >= Quiesce!QuiesceAfterOutput

\* An owner sees a status and whether the Session has been silent.
LEMMA OwnerSees ==
  OwnersView <=>
    LET d == [status |-> status, quiet |-> QuietNow]
        e == [status |-> status', quiet |-> QuietNow']
    IN  \/ e \in AfterOutput(d) /\ settles' = settles
        \/ e \in CandidateElapsed(d) /\ settles' = settles
        \/ e \in ConfirmElapsed(d) /\ settles' = settles
        \/ e \in LullElapsed(d) /\ settles' = settles
        \/ e \in QuietElapsed(d) /\ settles' = settles
        \/ e = Reset(d) /\ settles' = settles
        \/ CanSettle(d) /\ e = Reset(d) /\ settles' = (settles + 1) % 2
        \/ e = d /\ settles' = settles
BY DEF OwnersView, QuietNow, Quiesce!Contract!Next, Quiesce!Contract!dvars, Quiesce!Contract!Output, Quiesce!Contract!Candidate, Quiesce!Contract!Confirm,
   Quiesce!Contract!Lull, Quiesce!Contract!Quiet, Quiesce!Contract!StartOver, Quiesce!Contract!Settle,
   Quiesce!Contract!AfterOutput, Quiesce!Contract!CandidateElapsed, Quiesce!Contract!ConfirmElapsed, Quiesce!Contract!LullElapsed,
   Quiesce!Contract!QuietElapsed, Quiesce!Contract!Reset, Quiesce!Contract!CanSettle,
   AfterOutput, CandidateElapsed, ConfirmElapsed, LullElapsed, QuietElapsed, Reset, CanSettle

\* What each move looks like.
LEMMA OwnersMoves ==
  ASSUME QuietNow \in BOOLEAN, QuietNow' \in BOOLEAN,
         \/ /\ settles' = settles /\ ~QuietNow'
            /\ \/ status = "NOTHING_TO_SHOW" /\ (status' = "NOTHING_TO_SHOW" \/ status' = "MIGHT_BE_BUSY")
               \/ status # "NOTHING_TO_SHOW" /\ status' = "BUSY"
         \/ /\ settles' = settles /\ QuietNow' = QuietNow
            /\ \/ status' = status \/ status' = "NOTHING_TO_SHOW"
               \/ status = "NOTHING_TO_SHOW" /\ status' = "MIGHT_BE_BUSY" /\ ~QuietNow
               \/ status = "BUSY" /\ status' = "MIGHT_NEED_ATTENTION"
         \/ /\ settles' = settles /\ status' = status /\ QuietNow'
            /\ status = "NOTHING_TO_SHOW" \/ status = "MIGHT_NEED_ATTENTION"
         \/ /\ settles' = (settles + 1) % 2 /\ QuietNow /\ QuietNow'
            /\ status = "MIGHT_NEED_ATTENTION" /\ status' = "NOTHING_TO_SHOW"
  PROVE  OwnersView
<1> DEFINE d == [status |-> status, quiet |-> QuietNow]
           e == [status |-> status', quiet |-> QuietNow']
<1>1. d.status = status /\ d.quiet = QuietNow /\ Reset(d) = [status |-> "NOTHING_TO_SHOW", quiet |-> QuietNow]
  BY DEF Reset
<1>2. CASE settles' = settles /\ ~QuietNow'
           /\ \/ status = "NOTHING_TO_SHOW" /\ (status' = "NOTHING_TO_SHOW" \/ status' = "MIGHT_BE_BUSY")
              \/ status # "NOTHING_TO_SHOW" /\ status' = "BUSY"
  <2>1. e = [status |-> status', quiet |-> FALSE]
    BY <1>2
  <2>2. e \in AfterOutput(d)
    <3>1. CASE status = "NOTHING_TO_SHOW"
      <4>1. AfterOutput(d) = [status : {"NOTHING_TO_SHOW", "MIGHT_BE_BUSY"}, quiet : {FALSE}]
        BY <1>1, <3>1 DEF AfterOutput
      <4> QED BY <4>1, <2>1, <3>1, <1>2
    <3>2. CASE status # "NOTHING_TO_SHOW"
      <4>1. AfterOutput(d) = [status : {"BUSY"}, quiet : {FALSE}]
        BY <1>1, <3>2 DEF AfterOutput
      <4> QED BY <4>1, <2>1, <3>2, <1>2
    <3> QED BY <3>1, <3>2
  <2> QED BY <2>2, <1>2, OwnerSees
<1>3. CASE settles' = settles /\ QuietNow' = QuietNow
  <2>0. e = [status |-> status', quiet |-> QuietNow]
    BY <1>3
  <2>1. CASE status' = status
    BY <2>0, <2>1, <1>3, OwnerSees
  <2>2. CASE status' = "NOTHING_TO_SHOW"
    <3>1. e = Reset(d)
      BY <2>0, <2>2, <1>1
    <3> QED BY <3>1, <1>3, OwnerSees
  <2>3. CASE status = "NOTHING_TO_SHOW" /\ status' = "MIGHT_BE_BUSY" /\ ~QuietNow
    <3>1. e = [status |-> "MIGHT_BE_BUSY", quiet |-> FALSE]
      BY <2>0, <2>3
    <3>2. e \in CandidateElapsed(d)
      BY <3>1, <2>3, <1>1 DEF CandidateElapsed
    <3> QED BY <3>2, <1>3, OwnerSees
  <2>4. CASE status = "BUSY" /\ status' = "MIGHT_NEED_ATTENTION"
    <3>1. e = [d EXCEPT !.status = "MIGHT_NEED_ATTENTION"]
      BY <2>0, <2>4
    <3>2. e \in LullElapsed(d)
      BY <3>1, <2>4, <1>1 DEF LullElapsed
    <3> QED BY <3>2, <1>3, OwnerSees
  <2>5. CASE ~(\/ status' = status \/ status' = "NOTHING_TO_SHOW"
               \/ status = "NOTHING_TO_SHOW" /\ status' = "MIGHT_BE_BUSY" /\ ~QuietNow
               \/ status = "BUSY" /\ status' = "MIGHT_NEED_ATTENTION")
    <3>1. ~QuietNow' /\ settles' = settles
          /\ \/ status = "NOTHING_TO_SHOW" /\ (status' = "NOTHING_TO_SHOW" \/ status' = "MIGHT_BE_BUSY")
             \/ status # "NOTHING_TO_SHOW" /\ status' = "BUSY"
      BY <2>5, <1>3
    <3> QED BY <3>1, <1>2
  <2> QED BY <2>1, <2>2, <2>3, <2>4, <2>5
<1>4. CASE settles' = settles /\ status' = status /\ QuietNow'
           /\ (status = "NOTHING_TO_SHOW" \/ status = "MIGHT_NEED_ATTENTION")
  <2>0. QuietNow' = TRUE
    BY <1>4
  <2>1. e = [d EXCEPT !.quiet = TRUE]
    <3>1. e = [status |-> status, quiet |-> TRUE]
      BY <2>0, <1>4
    <3>2. [d EXCEPT !.quiet = TRUE] = [status |-> status, quiet |-> TRUE]
      <4>1. \A q, r : [[status |-> status, quiet |-> q] EXCEPT !.quiet = r] = [status |-> status, quiet |-> r]
        OBVIOUS
      <4> QED BY <4>1
    <3> QED BY <3>1, <3>2
  <2>2. e \in QuietElapsed(d)
    BY <2>1, <1>1, <1>4 DEF QuietElapsed
  <2> QED BY <2>2, <1>4, OwnerSees
<1>5. CASE settles' = (settles + 1) % 2 /\ QuietNow /\ QuietNow'
           /\ status = "MIGHT_NEED_ATTENTION" /\ status' = "NOTHING_TO_SHOW"
  <2>1. e = Reset(d) /\ CanSettle(d)
    BY <1>1, <1>5 DEF CanSettle
  <2> QED BY <2>1, <1>5, OwnerSees
<1> QED BY <1>2, <1>3, <1>4, <1>5

\* Output breaks the silence.
LEMMA JustHeard ==
  /\ QuietNow \in BOOLEAN /\ QuietNow' \in BOOLEAN
  /\ accepted' = 0 => ~QuietNow'
  /\ accepted' = accepted => QuietNow' = QuietNow
<1>1. accepted' = 0 => ~QuietNow'
  BY Delays DEF QuietNow, Quiesce!QuiesceAfterOutput
<1>2. accepted' = accepted => QuietNow' = QuietNow
  BY DEF QuietNow
<1> QED BY <1>1, <1>2 DEF QuietNow

\* onData in NOTHING_TO_SHOW, the first of a burst.
LEMMA FirstKeeps ==
  ASSUME DetectorInv, Quiesce!FirstOutput
  PROVE  DetectorInv' /\ OwnersView
<1>1. /\ status = "NOTHING_TO_SHOW" /\ ~detectorDisposed /\ accepted' = 0 /\ last' = 0 /\ first' = 0 /\ count' = 1
      /\ timer' = IF timer["candidate"] = -1 THEN [timer EXCEPT !["candidate"] = TBusyCandidate] ELSE timer
      /\ UNCHANGED <<status, resizeGrace, detectorDisposed, settles>>
  BY DEF Quiesce!FirstOutput, Quiesce!Accepting, Quiesce!Off
<1>2. /\ timer' \in [Quiesce!Timers -> Int]
      /\ timer'["candidate"] \in {timer["candidate"], TBusyCandidate}
      /\ timer'["confirm"] = timer["confirm"] /\ timer'["mightNeed"] = timer["mightNeed"]
      /\ timer'["settled"] = timer["settled"] /\ timer'["resize"] = timer["resize"]
  BY <1>1, DetectorFacts, Delays DEF Quiesce!Timers
<1>3. DetectorTypes'
  BY <1>1, <1>2, Delays DEF DetectorInv, DetectorTypes
<1>4. Quiesce!TimersMatchStatus'
  BY <1>1, <1>2 DEF DetectorInv, Quiesce!TimersMatchStatus, Quiesce!Off
<1>5. DetectorClock'
  BY <1>1, <1>2, DetectorFacts DEF DetectorClock
<1>6. OwnersView
  BY <1>1, JustHeard, OwnersMoves
<1> QED BY <1>3, <1>4, <1>5, <1>6 DEF DetectorInv

\* onData in NOTHING_TO_SHOW, the burst goes on.
LEMMA NextKeeps ==
  ASSUME DetectorInv, Quiesce!NextOutput
  PROVE  DetectorInv' /\ OwnersView
<1>1. /\ status = "NOTHING_TO_SHOW" /\ ~detectorDisposed /\ accepted' = 0 /\ last' = 0 /\ first' = first /\ count' = 2
      /\ \/ status' = "MIGHT_BE_BUSY" /\ timer' = Quiesce!Rearm({"confirm"})
         \/ status' = status /\ timer' = timer
      /\ UNCHANGED <<resizeGrace, detectorDisposed, settles>>
  BY DEF Quiesce!NextOutput, Quiesce!Accepting, Quiesce!EnterMightBeBusy
<1>0. OwnersView
  BY <1>1, JustHeard, OwnersMoves
<1>2. CASE status' = "MIGHT_BE_BUSY" /\ timer' = Quiesce!Rearm({"confirm"})
  <2>1. /\ timer' \in [Quiesce!Timers -> Int]
        /\ timer'["candidate"] = -1 /\ timer'["confirm"] = TBusyConfirm /\ timer'["mightNeed"] = -1
        /\ timer'["settled"] = -1 /\ timer'["resize"] = timer["resize"]
    <3>1. {"confirm"} \in SUBSET Quiesce!Activity
      BY DEF Quiesce!Activity, Quiesce!Timers
    <3> QED BY <3>1, <1>2, Rearmed
  <2>3. DetectorTypes'
    BY <1>1, <1>2, <2>1, Delays DEF DetectorInv, DetectorTypes, QuiesceStatus
  <2>4. Quiesce!TimersMatchStatus'
    BY <1>1, <1>2, <2>1, Delays, DetectorFacts DEF Quiesce!TimersMatchStatus, Quiesce!Off
  <2>5. DetectorClock'
    BY <1>1, <1>2, <2>1, DetectorFacts, Delays DEF DetectorClock
  <2> QED BY <1>0, <2>3, <2>4, <2>5 DEF DetectorInv
<1>3. CASE status' = status /\ timer' = timer
  <2>3. DetectorTypes'
    BY <1>1, <1>3, Delays DEF DetectorInv, DetectorTypes
  <2>4. Quiesce!TimersMatchStatus'
    BY <1>1, <1>3 DEF DetectorInv, Quiesce!TimersMatchStatus
  <2>5. DetectorClock'
    BY <1>1, <1>3, DetectorFacts DEF DetectorClock
  <2> QED BY <1>0, <2>3, <2>4, <2>5 DEF DetectorInv
<1> QED BY <1>1, <1>2, <1>3

\* onData in doubt: the Session is busy (enterBusy).
LEMMA ConfirmingKeeps ==
  ASSUME DetectorInv, Quiesce!ConfirmingOutput
  PROVE  DetectorInv' /\ OwnersView
<1>1. /\ status = "MIGHT_BE_BUSY" \/ status = "MIGHT_NEED_ATTENTION"
      /\ ~detectorDisposed /\ accepted' = 0 /\ status' = "BUSY" /\ timer' = Quiesce!Rearm({"mightNeed"})
      /\ first' = -1 /\ last' = -1 /\ count' = 0 /\ UNCHANGED <<resizeGrace, detectorDisposed, settles>>
  BY DEF Quiesce!ConfirmingOutput, Quiesce!Accepting, Quiesce!EnterBusy, Quiesce!Unknown
<1>2. /\ timer' \in [Quiesce!Timers -> Int]
      /\ timer'["candidate"] = -1 /\ timer'["confirm"] = -1 /\ timer'["mightNeed"] = TMightNeed
      /\ timer'["settled"] = -1 /\ timer'["resize"] = timer["resize"]
  <2>1. {"mightNeed"} \in SUBSET Quiesce!Activity
    BY DEF Quiesce!Activity, Quiesce!Timers
  <2> QED BY <2>1, <1>1, Rearmed
<1>3. DetectorTypes'
  BY <1>1, <1>2, Delays DEF DetectorInv, DetectorTypes, QuiesceStatus
<1>4. Quiesce!TimersMatchStatus'
  BY <1>1, <1>2, Delays, DetectorFacts DEF Quiesce!TimersMatchStatus, Quiesce!Off
<1>5. DetectorClock'
  BY <1>1, <1>2, Delays DEF DetectorClock
<1>6. OwnersView
  BY <1>1, JustHeard, OwnersMoves
<1> QED BY <1>3, <1>4, <1>5, <1>6 DEF DetectorInv

\* onData while busy: the lull is counted anew.
LEMMA BusyKeeps ==
  ASSUME DetectorInv, Quiesce!BusyOutput
  PROVE  DetectorInv' /\ OwnersView
<1>1. /\ status = "BUSY" /\ ~detectorDisposed /\ accepted' = 0 /\ last' = 0
      /\ timer' = [timer EXCEPT !["mightNeed"] = TMightNeed]
      /\ UNCHANGED <<status, first, count, resizeGrace, detectorDisposed, settles>>
  BY DEF Quiesce!BusyOutput, Quiesce!Accepting, Quiesce!BusyTimer
<1>2. /\ timer' \in [Quiesce!Timers -> Int]
      /\ timer'["candidate"] = timer["candidate"] /\ timer'["confirm"] = timer["confirm"]
      /\ timer'["mightNeed"] = TMightNeed
      /\ timer'["settled"] = timer["settled"] /\ timer'["resize"] = timer["resize"]
  BY <1>1, DetectorFacts, Delays DEF Quiesce!Timers
<1>3. DetectorTypes'
  BY <1>1, <1>2, Delays DEF DetectorInv, DetectorTypes
<1>4. Quiesce!TimersMatchStatus'
  BY <1>1, <1>2, Delays, DetectorFacts DEF Quiesce!TimersMatchStatus, Quiesce!Off
<1>5. DetectorClock'
  BY <1>1, <1>2, Delays, DetectorFacts DEF DetectorClock
<1>6. OwnersView
  BY <1>1, JustHeard, OwnersMoves
<1> QED BY <1>3, <1>4, <1>5, <1>6 DEF DetectorInv

\* noteResize, reset and dispose move no clock.
LEMMA CallsKeep ==
  ASSUME DetectorInv, Quiesce!OnResize \/ Quiesce!OnReset \/ Quiesce!Dispose \/ Quiesce!ResizeTimer
  PROVE  DetectorInv' /\ OwnersView
<1>1. CASE Quiesce!OnResize
  <2>1. /\ ~detectorDisposed /\ resizeGrace' = TRUE /\ timer' = [timer EXCEPT !["resize"] = TResize]
        /\ UNCHANGED <<status, first, last, count, accepted, detectorDisposed, settles>>
    BY <1>1 DEF Quiesce!OnResize, Quiesce!tracking
  <2>2. /\ timer' \in [Quiesce!Timers -> Int]
        /\ timer'["candidate"] = timer["candidate"] /\ timer'["confirm"] = timer["confirm"]
        /\ timer'["mightNeed"] = timer["mightNeed"]
        /\ timer'["settled"] = timer["settled"] /\ timer'["resize"] = TResize
    BY <2>1, DetectorFacts, Delays DEF Quiesce!Timers
  <2>3. DetectorTypes'
    BY <2>1, <2>2, Delays DEF DetectorInv, DetectorTypes
  <2>4. Quiesce!TimersMatchStatus'
    BY <2>1, <2>2, Delays DEF DetectorInv, Quiesce!TimersMatchStatus, Quiesce!Off
  <2>5. DetectorClock'
    BY <2>1, <2>2 DEF DetectorInv, DetectorClock
  <2> QED BY <2>1, <2>3, <2>4, <2>5, JustHeard, OwnersMoves DEF DetectorInv
<1>2. CASE Quiesce!OnReset
  <2>1. /\ ~detectorDisposed /\ status' = "NOTHING_TO_SHOW" /\ timer' = Quiesce!Rearm({})
        /\ first' = -1 /\ last' = -1 /\ count' = 0 /\ UNCHANGED <<resizeGrace, accepted, detectorDisposed, settles>>
    BY <1>2 DEF Quiesce!OnReset, Quiesce!Unknown
  <2>2. /\ timer' \in [Quiesce!Timers -> Int]
        /\ timer'["candidate"] = -1 /\ timer'["confirm"] = -1 /\ timer'["mightNeed"] = -1
        /\ timer'["settled"] = -1 /\ timer'["resize"] = timer["resize"]
    BY <2>1, Rearmed
  <2>3. DetectorTypes'
    BY <2>1, <2>2, Delays DEF DetectorInv, DetectorTypes, QuiesceStatus
  <2>4. Quiesce!TimersMatchStatus'
    BY <2>1, <2>2 DEF DetectorInv, Quiesce!TimersMatchStatus, Quiesce!Off
  <2>5. DetectorClock'
    BY <2>1, <2>2 DEF DetectorInv, DetectorClock
  <2> QED BY <2>1, <2>3, <2>4, <2>5, JustHeard, OwnersMoves DEF DetectorInv
<1>3. CASE Quiesce!Dispose
  <2>1. /\ detectorDisposed' = TRUE /\ timer' = [t \in Quiesce!Timers |-> -1]
        /\ UNCHANGED <<status, first, last, count, resizeGrace, accepted, settles>>
    BY <1>3 DEF Quiesce!Dispose, Quiesce!tracking, Quiesce!Off
  <2>2. /\ timer' \in [Quiesce!Timers -> Int]
        /\ timer'["candidate"] = -1 /\ timer'["confirm"] = -1 /\ timer'["mightNeed"] = -1
        /\ timer'["settled"] = -1 /\ timer'["resize"] = -1
    BY <2>1 DEF Quiesce!Timers
  <2>0. -1 \in -1 .. TBusyCandidate /\ -1 \in -1 .. TBusyConfirm /\ -1 \in -1 .. TMightNeed
        /\ -1 \in -1 .. TSettled /\ -1 \in -1 .. TResize
    BY Delays
  <2>3. DetectorTypes'
    BY <2>0, <2>1, <2>2 DEF DetectorInv, DetectorTypes
  <2>4. Quiesce!TimersMatchStatus'
    BY <2>1, <2>2 DEF Quiesce!TimersMatchStatus, Quiesce!Off
  <2>5. DetectorClock'
    BY <2>1, <2>2 DEF DetectorClock
  <2> QED BY <2>1, <2>3, <2>4, <2>5, JustHeard, OwnersMoves DEF DetectorInv
<1>4. CASE Quiesce!ResizeTimer
  <2>1. /\ resizeGrace' = FALSE /\ timer' = [timer EXCEPT !["resize"] = -1]
        /\ UNCHANGED <<status, first, last, count, accepted, detectorDisposed, settles>>
    BY <1>4 DEF Quiesce!ResizeTimer, Quiesce!tracking, Quiesce!Off
  <2>2. /\ timer' \in [Quiesce!Timers -> Int]
        /\ timer'["candidate"] = timer["candidate"] /\ timer'["confirm"] = timer["confirm"]
        /\ timer'["mightNeed"] = timer["mightNeed"]
        /\ timer'["settled"] = timer["settled"] /\ timer'["resize"] = -1
    BY <2>1, DetectorFacts DEF Quiesce!Timers
  <2>0. -1 \in -1 .. TResize
    BY Delays
  <2>3. DetectorTypes'
    BY <2>0, <2>1, <2>2 DEF DetectorInv, DetectorTypes
  <2>4. Quiesce!TimersMatchStatus'
    BY <2>1, <2>2 DEF DetectorInv, Quiesce!TimersMatchStatus, Quiesce!Off
  <2>5. DetectorClock'
    BY <2>1, <2>2 DEF DetectorInv, DetectorClock
  <2> QED BY <2>1, <2>3, <2>4, <2>5, JustHeard, OwnersMoves DEF DetectorInv
<1> QED BY <1>1, <1>2, <1>3, <1>4

\* The burst is old enough, or was only one output: busyness in doubt is younger
\* than a quiesce window.
LEMMA CandidateKeeps ==
  ASSUME DetectorInv, Quiesce!CandidateTimer
  PROVE  DetectorInv' /\ OwnersView
<1>1. /\ timer["candidate"] = 0 /\ status = "NOTHING_TO_SHOW"
      /\ \/ count >= 2 /\ status' = "MIGHT_BE_BUSY" /\ timer' = Quiesce!Rearm({"confirm"})
         \/ status' = status /\ timer' = [timer EXCEPT !["candidate"] = -1]
      /\ UNCHANGED <<first, last, count, accepted, resizeGrace, detectorDisposed, settles>>
  BY DetectorFacts DEF Quiesce!CandidateTimer, Quiesce!Due, Quiesce!EnterMightBeBusy, Quiesce!tracking, Quiesce!Off
<1>2. CASE count >= 2 /\ status' = "MIGHT_BE_BUSY" /\ timer' = Quiesce!Rearm({"confirm"})
  <2>1. /\ timer' \in [Quiesce!Timers -> Int]
        /\ timer'["candidate"] = -1 /\ timer'["confirm"] = TBusyConfirm /\ timer'["mightNeed"] = -1
        /\ timer'["settled"] = -1 /\ timer'["resize"] = timer["resize"]
    <3>1. {"confirm"} \in SUBSET Quiesce!Activity
      BY DEF Quiesce!Activity, Quiesce!Timers
    <3> QED BY <3>1, <1>2, Rearmed
  <2>2. accepted <= TBusyCandidate
    <3>1. count = 2
      BY <1>2 DEF DetectorInv, DetectorTypes
    <3>2. accepted + timer["candidate"] <= TBusyCandidate
      BY <3>1, <1>1 DEF DetectorInv, DetectorClock
    <3> QED BY <3>2, <1>1, DetectorFacts
  <2>3. DetectorTypes'
    BY <1>1, <1>2, <2>1, Delays DEF DetectorInv, DetectorTypes, QuiesceStatus
  <2>4. Quiesce!TimersMatchStatus'
    BY <1>1, <1>2, <2>1, Delays, DetectorFacts DEF Quiesce!TimersMatchStatus, Quiesce!Off
  <2>5. DetectorClock'
    <3>1. ~detectorDisposed
      BY <1>1 DEF DetectorInv, DetectorClock
    <3> QED BY <3>1, <1>1, <1>2, <2>1, <2>2, DetectorFacts, Delays DEF DetectorClock
  <2>6. ~QuietNow
    BY <2>2, DetectorFacts, Delays DEF QuietNow, Quiesce!QuiesceAfterOutput
  <2>7. OwnersView
    BY <2>6, <1>1, <1>2, JustHeard, OwnersMoves
  <2> QED BY <2>3, <2>4, <2>5, <2>7 DEF DetectorInv
<1>3. CASE status' = status /\ timer' = [timer EXCEPT !["candidate"] = -1]
  <2>2. /\ timer' \in [Quiesce!Timers -> Int]
        /\ timer'["candidate"] = -1 /\ timer'["confirm"] = timer["confirm"]
        /\ timer'["mightNeed"] = timer["mightNeed"]
        /\ timer'["settled"] = timer["settled"] /\ timer'["resize"] = timer["resize"]
    BY <1>3, DetectorFacts DEF Quiesce!Timers
  <2>3. DetectorTypes'
    BY <1>1, <1>3, <2>2, Delays DEF DetectorInv, DetectorTypes
  <2>4. Quiesce!TimersMatchStatus'
    BY <1>1, <1>3, <2>2 DEF DetectorInv, Quiesce!TimersMatchStatus, Quiesce!Off
  <2>5. DetectorClock'
    BY <1>1, <1>3, <2>2 DEF DetectorInv, DetectorClock
  <2> QED BY <1>1, <1>3, <2>3, <2>4, <2>5, JustHeard, OwnersMoves DEF DetectorInv
<1> QED BY <1>1, <1>2, <1>3

\* The burst was too sparse.
LEMMA ConfirmKeeps ==
  ASSUME DetectorInv, Quiesce!ConfirmTimer
  PROVE  DetectorInv' /\ OwnersView
<1>1. /\ status = "MIGHT_BE_BUSY" /\ status' = "NOTHING_TO_SHOW" /\ timer' = Quiesce!Rearm({"candidate"})
      /\ first' = last /\ count' = 1 /\ last' = last
      /\ UNCHANGED <<accepted, resizeGrace, detectorDisposed, settles>>
      /\ timer["confirm"] = 0
  BY DetectorFacts DEF Quiesce!ConfirmTimer, Quiesce!Due, Quiesce!SeededTimers
<1>2. /\ timer' \in [Quiesce!Timers -> Int]
      /\ timer'["candidate"] = TBusyCandidate /\ timer'["confirm"] = -1 /\ timer'["mightNeed"] = -1
      /\ timer'["settled"] = -1 /\ timer'["resize"] = timer["resize"]
  <2>1. {"candidate"} \in SUBSET Quiesce!Activity
    BY DEF Quiesce!Activity, Quiesce!Timers
  <2> QED BY <2>1, <1>1, Rearmed
<1>3. DetectorTypes'
  BY <1>1, <1>2, Delays DEF DetectorInv, DetectorTypes, QuiesceStatus
<1>4. Quiesce!TimersMatchStatus'
  BY <1>1, <1>2, Delays, DetectorFacts DEF Quiesce!TimersMatchStatus, Quiesce!Off
<1>5. DetectorClock'
  <2>1. ~detectorDisposed
    BY <1>1 DEF DetectorInv, DetectorClock
  <2> QED BY <2>1, <1>1, <1>2 DEF DetectorClock
<1>6. OwnersView
  BY <1>1, JustHeard, OwnersMoves
<1> QED BY <1>3, <1>4, <1>5, <1>6 DEF DetectorInv

\* The lull, TMightNeed after the last output.
LEMMA MightNeedKeeps ==
  ASSUME DetectorInv, Quiesce!MightNeedTimer
  PROVE  DetectorInv' /\ OwnersView
<1>1. /\ status = "BUSY" /\ status' = "MIGHT_NEED_ATTENTION" /\ timer["mightNeed"] = 0
      /\ timer' = [timer EXCEPT !["mightNeed"] = -1, !["settled"] = TSettled]
      /\ UNCHANGED <<first, last, count, accepted, resizeGrace, detectorDisposed, settles>>
  BY DetectorFacts DEF Quiesce!MightNeedTimer, Quiesce!Due, Quiesce!tracking, Quiesce!Off
<1>2. /\ timer' \in [Quiesce!Timers -> Int]
      /\ timer'["candidate"] = timer["candidate"] /\ timer'["confirm"] = timer["confirm"]
      /\ timer'["mightNeed"] = -1
      /\ timer'["settled"] = TSettled /\ timer'["resize"] = timer["resize"]
  BY <1>1, DetectorFacts, Delays DEF Quiesce!Timers
<1>3. DetectorTypes'
  BY <1>1, <1>2, Delays DEF DetectorInv, DetectorTypes, QuiesceStatus
<1>4. Quiesce!TimersMatchStatus'
  BY <1>1, <1>2, Delays, DetectorFacts DEF Quiesce!TimersMatchStatus, Quiesce!Off
<1>5. DetectorClock'
  <2>1. ~detectorDisposed /\ accepted = TMightNeed
    BY <1>1, DetectorFacts DEF DetectorInv, DetectorClock
  <2> QED BY <2>1, <1>1, <1>2, Delays, DetectorFacts DEF DetectorClock
<1>6. OwnersView
  BY <1>1, JustHeard, OwnersMoves
<1> QED BY <1>3, <1>4, <1>5, <1>6 DEF DetectorInv

\* The settle, a whole window after the last output.
LEMMA SettledKeeps ==
  ASSUME DetectorInv, Quiesce!SettledTimer
  PROVE  DetectorInv' /\ OwnersView
<1>1. /\ status = "MIGHT_NEED_ATTENTION" /\ status' = "NOTHING_TO_SHOW" /\ timer["settled"] = 0
      /\ timer' = [timer EXCEPT !["settled"] = -1] /\ settles' = (settles + 1) % 2
      /\ first' = -1 /\ last' = -1 /\ count' = 0
      /\ UNCHANGED <<accepted, resizeGrace, detectorDisposed>>
  BY DetectorFacts DEF Quiesce!SettledTimer, Quiesce!Due, Quiesce!Unknown, Quiesce!Off
<1>2. /\ timer' \in [Quiesce!Timers -> Int]
      /\ timer'["candidate"] = timer["candidate"] /\ timer'["confirm"] = timer["confirm"]
      /\ timer'["mightNeed"] = timer["mightNeed"]
      /\ timer'["settled"] = -1 /\ timer'["resize"] = timer["resize"]
  BY <1>1, DetectorFacts DEF Quiesce!Timers
<1>3. DetectorTypes'
  <2>1. settles' \in 0 .. 1
    BY <1>1 DEF DetectorInv, DetectorTypes
  <2> QED BY <2>1, <1>1, <1>2, Delays DEF DetectorInv, DetectorTypes, QuiesceStatus
<1>4. Quiesce!TimersMatchStatus'
  BY <1>1, <1>2, Delays, DetectorFacts DEF Quiesce!TimersMatchStatus, Quiesce!Off
<1>5. DetectorClock'
  BY <1>1, <1>2, DetectorFacts DEF DetectorInv, DetectorClock
<1>6. OwnersView
  <2>1. accepted = TMightNeed + TSettled
    BY <1>1, DetectorFacts, Delays DEF DetectorInv, DetectorClock
  <2>2. QuietNow
    BY <2>1, Delays DEF QuietNow, Quiesce!QuiesceAfterOutput
  <2> QED BY <2>2, <1>1, JustHeard, OwnersMoves
<1> QED BY <1>3, <1>4, <1>5, <1>6 DEF DetectorInv

\* Time passes, and silence is never reached in doubt or while busy.
LEMMA TickKeeps ==
  ASSUME DetectorInv, Quiesce!Tick
  PROVE  DetectorInv' /\ OwnersView
<1>1. /\ ~detectorDisposed /\ \A t \in Quiesce!Timers : timer[t] # 0
      /\ timer' = [t \in Quiesce!Timers |-> IF timer[t] = -1 THEN -1 ELSE timer[t] - 1]
      /\ first' = Quiesce!Older(first) /\ last' = Quiesce!Older(last) /\ accepted' = Quiesce!Older(accepted)
      /\ UNCHANGED <<status, resizeGrace, count, detectorDisposed, settles>>
  BY DEF Quiesce!Tick, Quiesce!Sooner, Quiesce!Off
<1>2. timer["candidate"] # 0 /\ timer["confirm"] # 0 /\ timer["mightNeed"] # 0 /\ timer["settled"] # 0 /\ timer["resize"] # 0
  BY <1>1 DEF Quiesce!Timers
<1>3. /\ timer' \in [Quiesce!Timers -> Int]
      /\ timer'["candidate"] = IF timer["candidate"] = -1 THEN -1 ELSE timer["candidate"] - 1
      /\ timer'["confirm"] = IF timer["confirm"] = -1 THEN -1 ELSE timer["confirm"] - 1
      /\ timer'["mightNeed"] = IF timer["mightNeed"] = -1 THEN -1 ELSE timer["mightNeed"] - 1
      /\ timer'["settled"] = IF timer["settled"] = -1 THEN -1 ELSE timer["settled"] - 1
      /\ timer'["resize"] = IF timer["resize"] = -1 THEN -1 ELSE timer["resize"] - 1
  BY <1>1, DetectorFacts DEF Quiesce!Timers
<1>4. /\ first' \in -1 .. Quiesce!AgeCap /\ last' \in -1 .. Quiesce!AgeCap /\ accepted' \in -1 .. Quiesce!AgeCap
      /\ accepted' = IF accepted = -1 \/ accepted = Quiesce!AgeCap THEN accepted ELSE accepted + 1
  <2>1. first \in -1 .. Quiesce!AgeCap /\ last \in -1 .. Quiesce!AgeCap /\ accepted \in -1 .. Quiesce!AgeCap
    BY DEF DetectorInv, DetectorTypes
  <2>2. \A age \in -1 .. Quiesce!AgeCap : Quiesce!Older(age) \in -1 .. Quiesce!AgeCap
    BY Delays DEF Quiesce!Older, Quiesce!Unknown
  <2> QED BY <1>1, <2>1, <2>2 DEF Quiesce!Older, Quiesce!Unknown
<1>5. DetectorTypes'
  <2>1. /\ timer'["candidate"] \in -1 .. TBusyCandidate /\ timer'["confirm"] \in -1 .. TBusyConfirm
        /\ timer'["mightNeed"] \in -1 .. TMightNeed /\ timer'["settled"] \in -1 .. TSettled
        /\ timer'["resize"] \in -1 .. TResize
    BY <1>2, <1>3, DetectorFacts, Delays
  <2> QED BY <1>1, <1>3, <1>4, <2>1 DEF DetectorInv, DetectorTypes
<1>6. Quiesce!TimersMatchStatus'
  BY <1>1, <1>2, <1>3, DetectorFacts DEF Quiesce!TimersMatchStatus, Quiesce!Off
<1>7. DetectorClock'
  BY <1>1, <1>2, <1>3, <1>4, DetectorFacts, Delays DEF DetectorInv, DetectorClock
<1>8. QuietNow => QuietNow'
  BY <1>4, DetectorFacts, Delays DEF QuietNow, Quiesce!QuiesceAfterOutput
<1>9. status = "BUSY" \/ status = "MIGHT_BE_BUSY" => ~QuietNow'
  <2>1. CASE status = "BUSY"
    <3>1. accepted + timer["mightNeed"] = TMightNeed /\ timer["mightNeed"] > 0
      BY <2>1, <1>1, <1>2, DetectorFacts DEF DetectorInv, DetectorClock
    <3> QED BY <3>1, <1>4, DetectorFacts, Delays DEF QuietNow, Quiesce!QuiesceAfterOutput
  <2>2. CASE status = "MIGHT_BE_BUSY"
    <3>1. accepted + timer["confirm"] <= TBusyCandidate + TBusyConfirm /\ timer["confirm"] > 0
      BY <2>2, <1>1, <1>2, DetectorFacts DEF DetectorInv, DetectorClock
    <3> QED BY <3>1, <1>4, DetectorFacts, Delays DEF QuietNow, Quiesce!QuiesceAfterOutput
  <2> QED BY <2>1, <2>2
<1>10. OwnersView
  BY <1>1, <1>8, <1>9, JustHeard, DetectorFacts, OwnersMoves
<1> QED BY <1>5, <1>6, <1>7, <1>10 DEF DetectorInv

\* Nothing was heard yet.
LEMMA ContractStarts == Quiesce!Init => Quiesce!Contract!Init
<1> SUFFICES ASSUME Quiesce!Init PROVE Quiesce!Contract!Init
  OBVIOUS
<1>1. status = "NOTHING_TO_SHOW" /\ settles = 0 /\ (accepted >= Quiesce!QuiesceAfterOutput) = FALSE
  BY Delays DEF Quiesce!Init, Quiesce!Unknown, Quiesce!QuiesceAfterOutput
<1> QED BY <1>1 DEF Quiesce!Contract!Init, Quiesce!Contract!NewDetector

\* Every step keeps the invariant, and is one its owner knows of or none.
LEMMA DetectorStep ==
  DetectorInv /\ [Quiesce!Next]_(Quiesce!vars) => DetectorInv' /\ OwnersView
<1> SUFFICES ASSUME DetectorInv, [Quiesce!Next]_(Quiesce!vars) PROVE DetectorInv' /\ OwnersView
  OBVIOUS
<1>1. CASE UNCHANGED Quiesce!vars
  <2>1. UNCHANGED <<status, timer, resizeGrace, first, last, accepted, count, detectorDisposed, settles>>
    BY <1>1 DEF Quiesce!vars
  <2>2. DetectorInv'
    BY <2>1 DEF DetectorInv, DetectorTypes, Quiesce!TimersMatchStatus, DetectorClock
  <2> QED BY <2>1, <2>2, JustHeard, OwnersMoves
<1>2. CASE Quiesce!Next
  BY <1>2, FirstKeeps, NextKeeps, ConfirmingKeeps, BusyKeeps, CallsKeep, CandidateKeeps, ConfirmKeeps,
     MightNeedKeeps, SettledKeeps, TickKeeps DEF Quiesce!Next, Quiesce!OnData
<1> QED BY <1>1, <1>2

\* The two share no state: whatever the run explores, leaving fairness aside, is a
\* behaviour of each, so what is proved of a part holds of it.
THEOREM AlertPartsAreKept == MCSpec => Spec /\ Quiesce!Spec
<1>1. MCInit => Init /\ Quiesce!Init
  BY DEF MCInit
<1>2. InAlerts => UNCHANGED Quiesce!vars
  BY DEF InAlerts, detector, Quiesce!vars
<1>3. InDetector => UNCHANGED vars
  BY DEF InDetector
<1>4. MCNext => \/ Next /\ UNCHANGED Quiesce!vars
                \/ InDetector /\ Quiesce!Next
  <2> SUFFICES ASSUME MCNext, ~(InDetector /\ Quiesce!Next) PROVE Next /\ UNCHANGED Quiesce!vars
    OBVIOUS
  <2>1. \/ InAlerts /\ (TerminalEvent \/ TimerEvent \/ UserEvent \/ HostEvent \/ AwaitEvent)
        \/ part = "alerts" /\ UNCHANGED <<part, detector>> /\ ~disposed /\ Dispose
    BY DEF MCNext, TerminalEvent, TimerEvent, UserEvent, HostEvent, AwaitEvent, Quiesce!Next
  <2>2. CASE InAlerts /\ (TerminalEvent \/ TimerEvent \/ UserEvent \/ HostEvent \/ AwaitEvent)
    BY <2>2, <1>2 DEF InAlerts, Next
  <2>3. CASE part = "alerts" /\ UNCHANGED <<part, detector>> /\ ~disposed /\ Dispose
    BY <2>3 DEF Next, detector, Quiesce!vars
  <2> QED BY <2>1, <2>2, <2>3
<1>5. [MCNext]_<<part, parts>> => [Next]_vars /\ [Quiesce!Next]_(Quiesce!vars)
  <2>1. UNCHANGED <<part, parts>> => UNCHANGED vars /\ UNCHANGED Quiesce!vars
    BY DEF parts, detector, Quiesce!vars
  <2> QED BY <2>1, <1>3, <1>4
<1> QED BY <1>1, <1>5, PTL DEF MCSpec, Spec, Quiesce!Spec

\* The detector with its timers keeps what the AlertManager builds on, for any
\* delays within DelaysAssumption: a timer is armed exactly for its status, busy is
\* reported only after output, and a settle is announced only after confirmed
\* busyness and a whole quiesce window of silence (quiesce-detector.ts, quietAt).
THEOREM DetectorHolds == MCSpec => DetectorKeepsItsPromise
<1>1. Quiesce!Init => DetectorInv /\ Quiesce!Contract!Init
  <2>1. Quiesce!Init => Quiesce!Contract!Init
    BY ContractStarts
  <2> QED BY <2>1, DetectorStarts
<1>2. DetectorInv /\ [Quiesce!Next]_(Quiesce!vars) => DetectorInv' /\ [Quiesce!Contract!Next]_(Quiesce!Contract!dvars)
  BY DetectorStep DEF OwnersView
<1>3. DetectorInv => Quiesce!TypeOK /\ Quiesce!TimersMatchStatus
  BY DetectorTyped
<1>4. Quiesce!Spec => DetectorKeepsItsPromise
  BY <1>1, <1>2, <1>3, PTL DEF Quiesce!Spec, DetectorKeepsItsPromise, Quiesce!ImplementsOutputDetector, Quiesce!Contract!Spec
<1> QED BY <1>4, AlertPartsAreKept, PTL
=============================================================================
