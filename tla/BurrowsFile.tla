---------------------------- MODULE BurrowsFile ----------------------------
(***************************************************************************)
(* burrows.json (BurrowStore of relay/src/state.ts).  An enrolment reads   *)
(* the rows and then replaces the file; an operator deletes rows with an   *)
(* editor, which may save by renaming the old file away and a new one into *)
(* its place.  list() answers [] while no file is there; only              *)
(* listIfPresent() tells that from a file without rows.                    *)
(*                                                                         *)
(* The editor is not under the store's mutex: what it puts back may        *)
(* overwrite an enrolment, and an enrolment that read while the file was   *)
(* away, or before a row was deleted, writes what it read.  Credentials    *)
(* and the limit on enrolled Burrows are left out: they only refuse.       *)
(***************************************************************************)
EXTENDS Naturals

CONSTANTS
  Burrows,      \* burrowIds
  MaxFileSwaps  \* bound: how often an editor replaces the file by rename

ASSUME MaxFileSwapsAssumption == MaxFileSwaps \in Nat

VARIABLES
  rows,          \* the rows of the file, as list() answers: none while it is absent
  present,       \* the file is there
  editor,        \* an editor that has taken the file away, with what it will put there
  enrolment,     \* the enrolment that has the mutex, with the rows it read
  everEnrolled,  \* burrowIds given out: they are random, so none is given out twice
  deleted,       \* Burrows whose row an operator deleted
  overwritten,   \* Burrows whose row was dropped by a write and deleted by nobody
  fileSwaps      \* replacements so far

file == <<rows, present, editor, enrolment, everEnrolled, deleted, overwritten, fileSwaps>>

Idle == [phase |-> "idle"]

FileTypeOK ==
  /\ rows \subseteq Burrows /\ present \in BOOLEAN
  /\ editor \in {Idle} \cup [phase : {"replacing"}, rows : SUBSET Burrows]
  /\ enrolment \in {Idle} \cup [phase : {"writing"}, rows : SUBSET Burrows]
  /\ everEnrolled \subseteq Burrows /\ deleted \subseteq Burrows /\ overwritten \subseteq Burrows
  /\ fileSwaps \in 0 .. MaxFileSwaps

FileInit ==
  /\ rows = {} /\ present = FALSE /\ editor = Idle /\ enrolment = Idle
  /\ everEnrolled = {} /\ deleted = {} /\ overwritten = {} /\ fileSwaps = 0

-----------------------------------------------------------------------------
\* The rows the file has or an editor will give back to it.
Held == rows \cup (IF editor = Idle THEN {} ELSE editor.rows)

\* writeAtomic: the file has just these rows, whatever it had.
Replace(next, lost) ==
  /\ rows' = next /\ present' = TRUE
  /\ overwritten' = overwritten \cup lost

\* enroll to its list(): an absent file has no rows.
EnrollRead ==
  /\ enrolment = Idle /\ everEnrolled # Burrows
  /\ enrolment' = [phase |-> "writing", rows |-> rows]
  /\ UNCHANGED <<rows, present, editor, everEnrolled, deleted, overwritten, fileSwaps>>

\* The new row is appended to what was read, and the file replaced.
EnrollWrite(b) ==
  /\ enrolment # Idle /\ b \notin everEnrolled
  /\ LET next == enrolment.rows \cup {b} IN Replace(next, Held \ next)
  /\ enrolment' = Idle
  /\ everEnrolled' = everEnrolled \cup {b}
  /\ UNCHANGED <<editor, deleted, fileSwaps>>

\* The file cannot be written, or the caller is refused.
EnrollFails ==
  /\ enrolment # Idle /\ enrolment' = Idle
  /\ UNCHANGED <<rows, present, editor, everEnrolled, deleted, overwritten, fileSwaps>>

\* A row is deleted in place.
Revoke(b) ==
  /\ b \in rows
  /\ rows' = rows \ {b}
  /\ deleted' = deleted \cup {b}
  /\ UNCHANGED <<present, editor, enrolment, everEnrolled, overwritten, fileSwaps>>

\* An editor saves: the old file goes.
FileVanishes ==
  /\ present /\ editor = Idle /\ fileSwaps < MaxFileSwaps
  /\ editor' = [phase |-> "replacing", rows |-> rows]
  /\ rows' = {} /\ present' = FALSE
  /\ fileSwaps' = fileSwaps + 1
  /\ UNCHANGED <<enrolment, everEnrolled, deleted, overwritten>>

\* The new one comes, over whatever was written meanwhile.
FileReturns ==
  /\ editor # Idle
  /\ Replace(editor.rows, rows \ editor.rows)
  /\ editor' = Idle
  /\ UNCHANGED <<enrolment, everEnrolled, deleted, fileSwaps>>

FileNext ==
  \/ EnrollRead \/ EnrollFails
  \/ \E b \in Burrows : EnrollWrite(b) \/ Revoke(b)
  \/ FileVanishes \/ FileReturns

-----------------------------------------------------------------------------
\* A Burrow that was enrolled has its row unless an operator deleted it or a
\* write dropped it; while an editor has the file away it may also be in the
\* editor's hands (BurrowStore.enroll, the edit by hand).
RowsAccounted ==
  /\ everEnrolled \subseteq Held \cup deleted \cup overwritten
  /\ present => everEnrolled \subseteq rows \cup deleted \cup overwritten
  /\ rows \subseteq everEnrolled
  /\ editor # Idle => editor.rows \subseteq everEnrolled
  /\ enrolment # Idle => enrolment.rows \subseteq everEnrolled
=============================================================================
