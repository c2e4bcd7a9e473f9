--------------------------- MODULE QuiesceDetector ---------------------------
(***************************************************************************)
(* lib/src/lib/quiesce-detector.ts with its timers.                        *)
(*                                                                         *)
(* Time is discrete (one Tick is a common divisor of the five delays).     *)
(* Timers count down and are Off when not armed; instants the code keeps   *)
(* (firstOutputAt, lastOutputAt, lastAcceptedOutputAt) are kept as ages,   *)
(* which stop growing at AgeCap, the largest age anything compares with.   *)
(* Time does not pass over a due timer, and timers due at the same instant *)
(* fire in any order.                                                      *)
(***************************************************************************)
EXTENDS DetectorRules, Integers

CONSTANTS
  TBusyCandidate,   \* cfg.alert.busyCandidateGap
  TBusyConfirm,     \* cfg.alert.busyConfirmGap
  TMightNeed,       \* cfg.alert.mightNeedAttention
  TSettled,         \* cfg.alert.needsAttentionConfirm
  TResize           \* cfg.alert.resizeDebounce

\* What the code relies on of its delays.
DelaysAssumption ==
  /\ {TBusyCandidate, TBusyConfirm, TMightNeed, TSettled, TResize} \subseteq Nat \ {0}
  /\ TBusyCandidate + TBusyConfirm < TMightNeed + TSettled

QuiesceAfterOutput == TMightNeed + TSettled
AgeCap == IF TBusyCandidate > QuiesceAfterOutput THEN TBusyCandidate ELSE QuiesceAfterOutput
Off == -1
Unknown == -1
Older(age) == IF age = Unknown \/ age = AgeCap THEN age ELSE age + 1
Sooner(timer) == IF timer = Off THEN Off ELSE timer - 1

VARIABLES
  status,        \* status
  timer,         \* the five timers: time left, or Off
  resizeGrace,   \* resizeGrace
  first,         \* age of firstOutputAt
  last,          \* age of lastOutputAt
  accepted,      \* age of lastAcceptedOutputAt
  count,         \* outputCountSinceReset, up to 2
  disposed,      \* disposed
  settles        \* onSettled calls so far, modulo 2

vars == <<status, timer, resizeGrace, first, last, accepted, count, disposed, settles>>
tracking == <<first, last, count>>

Timers == {"candidate", "confirm", "mightNeed", "settled", "resize"}
Activity == Timers \ {"resize"}
Delay == [candidate |-> TBusyCandidate, confirm |-> TBusyConfirm, mightNeed |-> TMightNeed,
          settled |-> TSettled, resize |-> TResize]

TypeOK ==
  /\ status \in QuiesceStatus
  /\ timer \in [Timers -> Int] /\ \A t \in Timers : timer[t] \in Off .. Delay[t]
  /\ resizeGrace \in BOOLEAN /\ disposed \in BOOLEAN
  /\ first \in Unknown .. AgeCap /\ last \in Unknown .. AgeCap /\ accepted \in Unknown .. AgeCap
  /\ count \in 0 .. 2
  /\ settles \in 0 .. 1

Init ==
  /\ status = "NOTHING_TO_SHOW"
  /\ timer = [t \in Timers |-> Off]
  /\ resizeGrace = FALSE /\ disposed = FALSE
  /\ first = Unknown /\ last = Unknown /\ accepted = Unknown
  /\ count = 0 /\ settles = 0

-----------------------------------------------------------------------------
\* clearActivityTimers() and then arming those in A.
Rearm_KeepOthers(A) == [t \in Timers |-> IF t \in A THEN Delay[t] ELSE timer[t]]
Rearm(A) ==
  [t \in Timers |-> IF t \in A THEN Delay[t] ELSE IF t \in Activity THEN Off ELSE timer[t]]

EnterMightBeBusy == status' = "MIGHT_BE_BUSY" /\ timer' = Rearm({"confirm"})

EnterBusy_NoTimer ==
  /\ status' = "BUSY" /\ timer' = Rearm({})
  /\ first' = Unknown /\ last' = Unknown /\ count' = 0
EnterBusy ==
  /\ status' = "BUSY" /\ timer' = Rearm({"mightNeed"})
  /\ first' = Unknown /\ last' = Unknown /\ count' = 0

\* onData(), one action per status it meets.
Accepting == ~disposed /\ ~resizeGrace

FirstOutput ==
  /\ Accepting /\ status = "NOTHING_TO_SHOW" /\ first = Unknown
  /\ accepted' = 0 /\ last' = 0 /\ first' = 0 /\ count' = 1
  /\ timer' = IF timer["candidate"] = Off
              THEN [timer EXCEPT !["candidate"] = TBusyCandidate] ELSE timer
  /\ UNCHANGED <<status, resizeGrace, disposed, settles>>

NextOutput ==
  /\ Accepting /\ status = "NOTHING_TO_SHOW" /\ first # Unknown
  /\ accepted' = 0 /\ last' = 0 /\ count' = 2
  /\ IF first >= TBusyCandidate THEN EnterMightBeBusy ELSE UNCHANGED <<status, timer>>
  /\ UNCHANGED <<first, resizeGrace, disposed, settles>>

ConfirmingOutput ==
  /\ Accepting /\ status \in {"MIGHT_BE_BUSY", "MIGHT_NEED_ATTENTION"}
  /\ accepted' = 0
  /\ EnterBusy
  /\ UNCHANGED <<resizeGrace, disposed, settles>>

BusyTimer_NotRestarted == timer
BusyTimer == [timer EXCEPT !["mightNeed"] = TMightNeed]
BusyOutput ==
  /\ Accepting /\ status = "BUSY"
  /\ accepted' = 0 /\ last' = 0
  /\ timer' = BusyTimer
  /\ UNCHANGED <<status, first, count, resizeGrace, disposed, settles>>

OnData == FirstOutput \/ NextOutput \/ ConfirmingOutput \/ BusyOutput

OnResize ==
  /\ ~disposed
  /\ resizeGrace' = TRUE
  /\ timer' = [timer EXCEPT !["resize"] = TResize]
  /\ UNCHANGED <<status, tracking, accepted, disposed, settles>>

OnReset ==
  /\ ~disposed
  /\ status' = "NOTHING_TO_SHOW" /\ timer' = Rearm({})
  /\ first' = Unknown /\ last' = Unknown /\ count' = 0
  /\ UNCHANGED <<accepted, resizeGrace, disposed, settles>>

Dispose ==
  /\ ~disposed
  /\ disposed' = TRUE
  /\ timer' = [t \in Timers |-> Off]
  /\ UNCHANGED <<status, tracking, accepted, resizeGrace, settles>>

-----------------------------------------------------------------------------
\* Timer callbacks.
Due(t) == timer[t] = 0

CandidateTimer ==
  /\ Due("candidate")
  /\ IF status = "NOTHING_TO_SHOW" /\ count >= 2
     THEN EnterMightBeBusy
     ELSE timer' = [timer EXCEPT !["candidate"] = Off] /\ UNCHANGED status
  /\ UNCHANGED <<tracking, accepted, resizeGrace, disposed, settles>>

\* The burst was too sparse: start over from its latest output.
SeededTimers == Rearm({"candidate"})
ConfirmTimer ==
  /\ Due("confirm")
  /\ IF status = "MIGHT_BE_BUSY"
     THEN /\ status' = "NOTHING_TO_SHOW"
          /\ timer' = SeededTimers
          /\ first' = last /\ count' = 1 /\ UNCHANGED last
     ELSE timer' = [timer EXCEPT !["confirm"] = Off] /\ UNCHANGED <<status, tracking>>
  /\ UNCHANGED <<accepted, resizeGrace, disposed, settles>>

MightNeedTimer ==
  /\ Due("mightNeed")
  /\ IF status = "BUSY"
     THEN /\ status' = "MIGHT_NEED_ATTENTION"
          /\ timer' = [timer EXCEPT !["mightNeed"] = Off, !["settled"] = TSettled]
     ELSE timer' = [timer EXCEPT !["mightNeed"] = Off] /\ UNCHANGED status
  /\ UNCHANGED <<tracking, accepted, resizeGrace, disposed, settles>>

\* The announcement comes before the status change.  The owner may reset the
\* detector in the handler; the end state is the same.
SettledTimer ==
  /\ Due("settled")
  /\ timer' = [timer EXCEPT !["settled"] = Off]
  /\ IF status = "MIGHT_NEED_ATTENTION"
     THEN /\ settles' = (settles + 1) % 2
          /\ status' = "NOTHING_TO_SHOW"
          /\ first' = Unknown /\ last' = Unknown /\ count' = 0
     ELSE UNCHANGED <<status, tracking, settles>>
  /\ UNCHANGED <<accepted, resizeGrace, disposed>>

ResizeTimer ==
  /\ Due("resize")
  /\ resizeGrace' = FALSE
  /\ timer' = [timer EXCEPT !["resize"] = Off]
  /\ UNCHANGED <<status, tracking, accepted, disposed, settles>>

Tick ==
  /\ ~disposed
  /\ \A t \in Timers : timer[t] # 0
  /\ timer' = [t \in Timers |-> Sooner(timer[t])]
  /\ first' = Older(first) /\ last' = Older(last) /\ accepted' = Older(accepted)
  /\ UNCHANGED <<status, resizeGrace, count, disposed, settles>>

Next ==
  \/ OnData \/ OnResize \/ OnReset \/ Dispose
  \/ CandidateTimer \/ ConfirmTimer \/ MightNeedTimer \/ SettledTimer \/ ResizeTimer
  \/ Tick

Spec == Init /\ [][Next]_vars

\* Time passes and due timers fire.
TimerFires ==
  CandidateTimer \/ ConfirmTimer \/ MightNeedTimer \/ SettledTimer \/ ResizeTimer
FairSpec == Spec /\ WF_vars(Tick) /\ WF_vars(TimerFires)

-----------------------------------------------------------------------------
(* Properties.                                                             *)

\* A timer is armed exactly for the status it belongs to, so no status but
\* NOTHING_TO_SHOW can be held for ever and no stale timer moves a later one
\* (clearActivityTimers, enterMightBeBusy, enterBusy, the timer callbacks).
TimersMatchStatus ==
  /\ timer["candidate"] # Off => status = "NOTHING_TO_SHOW"
  /\ ~disposed =>
      /\ timer["confirm"] # Off <=> status = "MIGHT_BE_BUSY"
      /\ timer["mightNeed"] # Off <=> status = "BUSY"
      /\ timer["settled"] # Off <=> status = "MIGHT_NEED_ATTENTION"
      /\ timer["resize"] # Off <=> resizeGrace

\* What quietAt() promises its owner holds at every instant: the detector is
\* the clockless OutputDetector, whose settle needs a whole quiesce window of
\* silence since the last accepted output, across resets and resizes.
Contract == INSTANCE OutputDetector WITH
  d <- [status |-> status, quiet |-> accepted >= QuiesceAfterOutput],
  settles <- settles
ImplementsOutputDetector == Contract!Spec

\* When output stops, a busy detector comes to rest (the timer chain
\* mightNeedAttention, settledConfirm).
SettlesWhenOutputStops ==
  []<><<OnData>>_vars \/ <>[](disposed \/ status = "NOTHING_TO_SHOW")
=============================================================================
