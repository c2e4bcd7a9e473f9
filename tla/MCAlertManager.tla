--------------------------- MODULE MCAlertManager ---------------------------
(* Two Sessions, which share attention, the rule set and the deferral gate. *)
(* The steps are bounded: two whole Sessions are out of TLC's reach.        *)
EXTENDS AlertManager, TLC

CONSTANT MaxSteps
VARIABLE steps

MCInit == Init /\ steps = 0
MCNext == steps < MaxSteps /\ Next /\ steps' = steps + 1
MCSpec == MCInit /\ [][MCNext]_<<vars, steps>>

Symmetric == Permutations(Sessions) \cup Permutations(Waiters)
=============================================================================
