--------------------------- MODULE OutputDetector ---------------------------
(***************************************************************************)
(* What a detector promises: busy is only reported after output, and a     *)
(* settle is only announced after confirmed busyness followed by a whole   *)
(* quiesce window of silence.                                              *)
(***************************************************************************)
EXTENDS DetectorRules, Naturals

VARIABLES
  d,        \* the detector
  settles   \* settles announced so far, modulo 2

dvars == <<d, settles>>

Init == d = NewDetector /\ settles = 0

Output == d' \in AfterOutput(d) /\ UNCHANGED settles
Candidate == d' \in CandidateElapsed(d) /\ UNCHANGED settles
Confirm == d' \in ConfirmElapsed(d) /\ UNCHANGED settles
Lull == d' \in LullElapsed(d) /\ UNCHANGED settles
Quiet == d' \in QuietElapsed(d) /\ UNCHANGED settles
StartOver == d' = Reset(d) /\ UNCHANGED settles
Settle ==
  /\ CanSettle(d)
  /\ d' = Reset(d)
  /\ settles' = (settles + 1) % 2

Next == Output \/ Candidate \/ Confirm \/ Lull \/ Quiet \/ StartOver \/ Settle

Spec == Init /\ [][Next]_dvars
=============================================================================
