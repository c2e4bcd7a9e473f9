---------------------------- MODULE DetectorRules ----------------------------
(***************************************************************************)
(* What an owner may rely on of an output/silence detector, without its    *)
(* clock: a detector is its public status and whether the Session has been *)
(* quiet for the whole quiesce window.  OutputDetector is the state        *)
(* machine these rules make, QuiesceDetector implements it with timers,    *)
(* and AlertManager runs one detector per Session by these rules.          *)
(***************************************************************************)
QuiesceStatus == {"NOTHING_TO_SHOW", "MIGHT_BE_BUSY", "BUSY", "MIGHT_NEED_ATTENTION"}
Detector == [status : QuiesceStatus, quiet : BOOLEAN]

NewDetector == [status |-> "NOTHING_TO_SHOW", quiet |-> FALSE]

\* isConfirmedBusy()
ConfirmedBusy(d) == d.status \in {"BUSY", "MIGHT_NEED_ATTENTION"}

\* reset(): the machine starts over; the quiet clock is not history.
Reset(d) == [d EXCEPT !.status = "NOTHING_TO_SHOW"]

\* onData() outside the resize grace window.
AfterOutput(d) ==
  [status : CASE d.status = "NOTHING_TO_SHOW" -> {"NOTHING_TO_SHOW", "MIGHT_BE_BUSY"}
              [] OTHER -> {"BUSY"},
   quiet : {FALSE}]

\* The four activity timers.
CandidateElapsed(d) ==
  IF d.status = "NOTHING_TO_SHOW" /\ ~d.quiet
  THEN {[status |-> "MIGHT_BE_BUSY", quiet |-> FALSE]} ELSE {}
ConfirmElapsed(d) == IF d.status = "MIGHT_BE_BUSY" THEN {Reset(d)} ELSE {}
LullElapsed(d) ==
  IF d.status = "BUSY" THEN {[d EXCEPT !.status = "MIGHT_NEED_ATTENTION"]} ELSE {}

\* Silence reached quietAt(); no status but these two lasts that long.
QuietElapsed(d) ==
  IF d.status \in {"NOTHING_TO_SHOW", "MIGHT_NEED_ATTENTION"} THEN {[d EXCEPT !.quiet = TRUE]} ELSE {}

\* The settle is announced in the last instant of the quiesce window.
CanSettle(d) == d.status = "MIGHT_NEED_ATTENTION" /\ d.quiet
=============================================================================
